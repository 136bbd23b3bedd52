------------------------- MODULE SupporterSBTProofs -------------------------
(***************************************************************************)
(* Proofs about supporter registration, for every set of creators and      *)
(* holders: the credential, the relayer in front of it, the page, and the  *)
(* creators' registry with what the relayers remember of the chain.        *)
(***************************************************************************)
EXTENDS SupporterRegistration, FiniteSetTheorems, SequenceTheorems, TLAPS

(* The contract starts well typed. *)
LEMMA TypeInit == SbtInit => SbtTypeOK
  BY SupporterAssumption DEF SbtInit, SbtTypeOK, NoPolicy, NoCredential, Tokens

(* A registration keeps the types of what it writes. *)
LEMMA TypeRegister ==
    ASSUME SbtTypeOK, NEW i \in signed, RegisterSupporterWithSignature(i)
    PROVE  SbtTypeOK'
  <1> USE DEF NewToken, Tokens
  <1>1. i \in Intents /\ i.creator \in Creators /\ i.holder \in Holders
    BY DEF SbtTypeOK, Intents
  <1>2. nextTokenId \in Tokens /\ nextTokenId' = nextTokenId + 1
    BY DEF RegisterSupporterWithSignature
  <1>3. nextTokenId' \in 1..(MaxTokens + 1)
    BY <1>2, SupporterAssumption
  <1>4. earlyPolicies' \in [Creators -> [until : Nat, max : Nat, issued : Nat, version : Nat,
                                         active : BOOLEAN]]
    <2>1. CASE IsEarly(i.creator)
      <3>1. PICK policy \in [until : Nat, max : Nat, issued : Nat, version : Nat,
                             active : BOOLEAN] : policy = earlyPolicies[i.creator]
        BY <1>1 DEF SbtTypeOK
      <3>2. OneIssued(policy) \in [until : Nat, max : Nat, issued : Nat, version : Nat,
                                   active : BOOLEAN]
        BY DEF OneIssued
      <3>3. earlyPolicies' = [earlyPolicies EXCEPT ![i.creator] = OneIssued(policy)]
        BY <2>1, <3>1 DEF RegisterSupporterWithSignature
      <3> QED BY <3>2, <3>3, <1>1 DEF SbtTypeOK
    <2>2. CASE ~IsEarly(i.creator)
      BY <2>2 DEF RegisterSupporterWithSignature, SbtTypeOK
    <2> QED BY <2>1, <2>2
  <1>5. PICK cred \in [creator : Creators \cup {NoCreator},
                       tier : {"NONE", "SUPPORTER", "EARLY_SUPPORTER"},
                       policyVersion : Nat, issuedAt : Nat, active : BOOLEAN] :
            credentials' = [credentials EXCEPT ![nextTokenId] = cred]
    BY <1>1 DEF RegisterSupporterWithSignature, SbtTypeOK
  <1>6. credentials' \in [Tokens -> [creator : Creators \cup {NoCreator},
                                     tier : {"NONE", "SUPPORTER", "EARLY_SUPPORTER"},
                                     policyVersion : Nat, issuedAt : Nat, active : BOOLEAN]]
    BY <1>2, <1>5 DEF SbtTypeOK
  <1>7. activeTokenOf' \in [Creators -> [Holders -> {0} \cup Tokens]]
    BY <1>1, <1>2 DEF RegisterSupporterWithSignature, SbtTypeOK
  <1>8. /\ nonces' \in [Holders -> Nat]
        /\ owners' \in [Tokens -> Holders \cup {NoHolder}]
        /\ intentOf' \in [Tokens -> Intents \cup {NoIntent}]
    <2>1. nonces' \in [Holders -> Nat]
      BY <1>1 DEF RegisterSupporterWithSignature, SbtTypeOK
    <2>2. owners' \in [Tokens -> Holders \cup {NoHolder}]
      BY <1>1, <1>2 DEF RegisterSupporterWithSignature, SbtTypeOK
    <2>3. intentOf' = [intentOf EXCEPT ![nextTokenId] = i]
      BY DEF RegisterSupporterWithSignature
    <2>4. intentOf' \in [Tokens -> Intents \cup {NoIntent}]
      BY <2>3, <1>1, <1>2 DEF SbtTypeOK
    <2> QED BY <2>1, <2>2, <2>4
  <1>9. \A t \in Tokens : t >= nextTokenId' =>
            credentials'[t] = NoCredential /\ owners'[t] = NoHolder /\ intentOf'[t] = NoIntent
    <2> SUFFICES ASSUME NEW t \in Tokens, t >= nextTokenId'
                 PROVE  credentials'[t] = NoCredential /\ owners'[t] = NoHolder
                        /\ intentOf'[t] = NoIntent
      OBVIOUS
    <2>1. t # nextTokenId /\ t >= nextTokenId
      BY <1>2
    <2>2. credentials'[t] = credentials[t] /\ owners'[t] = owners[t] /\ intentOf'[t] = intentOf[t]
      BY <2>1, <1>5 DEF RegisterSupporterWithSignature, SbtTypeOK
    <2> QED BY <2>1, <2>2 DEF SbtTypeOK
  <1>10. now' \in Nat /\ signed' \subseteq Intents
    BY DEF RegisterSupporterWithSignature, SbtTypeOK
  <1> QED BY <1>3, <1>4, <1>6, <1>7, <1>8, <1>9, <1>10 DEF SbtTypeOK

(* A token that is owned or active is one that was minted. *)
LEMMA Minted ==
    ASSUME SbtTypeOK, NEW t \in Tokens, credentials[t].active \/ owners[t] # NoHolder
    PROVE  t < nextTokenId
  BY DEF SbtTypeOK, NoCredential, Tokens

(* Deactivating a credential changes its flag and nothing else. *)
LEMMA DeactivatedType ==
    ASSUME SbtTypeOK, NEW t \in Tokens
    PROVE  [credentials EXCEPT ![t].active = FALSE]
               \in [Tokens -> [creator : Creators \cup {NoCreator},
                               tier : {"NONE", "SUPPORTER", "EARLY_SUPPORTER"},
                               policyVersion : Nat, issuedAt : Nat, active : BOOLEAN]]
  <1>1. PICK cred \in [creator : Creators \cup {NoCreator},
                       tier : {"NONE", "SUPPORTER", "EARLY_SUPPORTER"},
                       policyVersion : Nat, issuedAt : Nat, active : BOOLEAN] :
            cred = credentials[t]
    BY DEF SbtTypeOK
  <1>2. [cred EXCEPT !.active = FALSE] \in
            [creator : Creators \cup {NoCreator}, tier : {"NONE", "SUPPORTER", "EARLY_SUPPORTER"},
             policyVersion : Nat, issuedAt : Nat, active : BOOLEAN]
    OBVIOUS
  <1>3. [credentials EXCEPT ![t].active = FALSE]
        = [credentials EXCEPT ![t] = [cred EXCEPT !.active = FALSE]]
    BY <1>1 DEF SbtTypeOK
  <1> QED BY <1>2, <1>3 DEF SbtTypeOK

LEMMA TypeStep == SbtTypeOK /\ [SbtNext]_sbtVars => SbtTypeOK'
  <1> SUFFICES ASSUME SbtTypeOK, [SbtNext]_sbtVars PROVE SbtTypeOK'
    OBVIOUS
  <1>1. CASE Tick
    BY <1>1 DEF Tick, tokenVars, SbtTypeOK
  <1>2. ASSUME NEW c \in Creators, NEW h \in Holders, NEW lifetime \in Lifetimes,
               SignIntent(c, h, lifetime)
        PROVE  SbtTypeOK'
    <2>1. [creator |-> c, holder |-> h, nonce |-> nonces[h], deadline |-> now + lifetime] \in Intents
      BY SupporterAssumption DEF SbtTypeOK, Intents
    <2>2. signed' \subseteq Intents
      BY <1>2, <2>1 DEF SignIntent, SbtTypeOK
    <2> QED BY <1>2, <2>2 DEF SignIntent, tokenVars, SbtTypeOK
  <1>3. ASSUME NEW c \in Creators, NEW policy \in Policies, SetEarlyPolicy(c, policy)
        PROVE  SbtTypeOK'
    <2>1. earlyPolicies' \in [Creators -> [until : Nat, max : Nat, issued : Nat, version : Nat,
                                           active : BOOLEAN]]
      BY <1>3, SupporterAssumption DEF SetEarlyPolicy, SbtTypeOK
    <2> QED BY <1>3, <2>1 DEF SetEarlyPolicy, tokenVars, SbtTypeOK
  <1>4. ASSUME NEW t \in Tokens, Revoke(t) PROVE SbtTypeOK'
    <2>1. t < nextTokenId
      BY <1>4, Minted DEF Revoke
    <2>2. activeTokenOf' \in [Creators -> [Holders -> {0} \cup Tokens]]
      BY <1>4 DEF Revoke, Released, SbtTypeOK
    <2>3. credentials' = [credentials EXCEPT ![t].active = FALSE]
      BY <1>4 DEF Revoke
    <2>4. \A u \in Tokens : u # t => credentials'[u] = credentials[u]
      BY <2>3 DEF SbtTypeOK
    <2>5. UNCHANGED <<now, earlyPolicies, nextTokenId, nonces, owners, signed, intentOf>>
      BY <1>4 DEF Revoke
    <2>6. credentials' \in [Tokens -> [creator : Creators \cup {NoCreator},
                                       tier : {"NONE", "SUPPORTER", "EARLY_SUPPORTER"},
                                       policyVersion : Nat, issuedAt : Nat, active : BOOLEAN]]
      BY <2>3, DeactivatedType
    <2>7. \A u \in Tokens : u >= nextTokenId' =>
              credentials'[u] = NoCredential /\ owners'[u] = NoHolder /\ intentOf'[u] = NoIntent
      BY <2>1, <2>4, <2>5 DEF SbtTypeOK, Tokens
    <2> QED BY <2>2, <2>5, <2>6, <2>7 DEF SbtTypeOK
  <1>5. ASSUME NEW t \in Tokens, Burn(t) PROVE SbtTypeOK'
    <2>1. t < nextTokenId
      BY <1>5, Minted DEF Burn
    <2>2. activeTokenOf' \in [Creators -> [Holders -> {0} \cup Tokens]]
      <3>1. Released(t) \in [Creators -> [Holders -> {0} \cup Tokens]]
        BY DEF Released, SbtTypeOK
      <3>2. activeTokenOf' \in {activeTokenOf, Released(t)}
        BY <1>5 DEF Burn
      <3> QED BY <3>1, <3>2 DEF SbtTypeOK
    <2>3. credentials' \in [Tokens -> [creator : Creators \cup {NoCreator},
                                       tier : {"NONE", "SUPPORTER", "EARLY_SUPPORTER"},
                                       policyVersion : Nat, issuedAt : Nat, active : BOOLEAN]]
      <3>1. credentials' \in {credentials, [credentials EXCEPT ![t].active = FALSE]}
        BY <1>5 DEF Burn
      <3>2. CASE credentials' = credentials
        BY <3>2 DEF SbtTypeOK
      <3>3. CASE credentials' = [credentials EXCEPT ![t].active = FALSE]
        BY <3>3, DeactivatedType DEF SbtTypeOK
      <3> QED BY <3>1, <3>2, <3>3
    <2>4. \A u \in Tokens : u # t => credentials'[u] = credentials[u] /\ owners'[u] = owners[u]
      <3>1. CASE credentials[t].active
        BY <1>5, <3>1 DEF Burn, SbtTypeOK
      <3>2. CASE ~credentials[t].active
        BY <1>5, <3>2 DEF Burn, SbtTypeOK
      <3> QED BY <3>1, <3>2
    <2>5. \A u \in Tokens : u >= nextTokenId' =>
              credentials'[u] = NoCredential /\ owners'[u] = NoHolder /\ intentOf'[u] = NoIntent
      BY <1>5, <2>1, <2>4 DEF Burn, SbtTypeOK, Tokens
    <2> QED BY <1>5, <2>2, <2>3, <2>5 DEF Burn, SbtTypeOK
  <1>6. ASSUME NEW i \in signed, RegisterSupporterWithSignature(i) PROVE SbtTypeOK'
    BY <1>6, TypeRegister
  <1>7. CASE UNCHANGED sbtVars
    BY <1>7 DEF sbtVars, tokenVars, SbtTypeOK
  <1> QED BY <1>1, <1>2, <1>3, <1>4, <1>5, <1>6, <1>7 DEF SbtNext, Environment

(* Every reachable state of SupporterSBTUpgradeable is well typed, and the   *)
(* tokens from nextTokenId on are blank.                                     *)
THEOREM TypeCorrect == SbtSpec => []SbtTypeOK
  <1> QED BY TypeInit, TypeStep, PTL DEF SbtSpec

-----------------------------------------------------------------------------
(* What a registration writes, token by token and holder by holder. *)
LEMMA RegisterWrites ==
    ASSUME SbtTypeOK, NEW i \in signed, RegisterSupporterWithSignature(i)
    PROVE  /\ i \in Intents /\ nextTokenId \in Tokens /\ nextTokenId' = nextTokenId + 1
           /\ credentials[nextTokenId] = NoCredential /\ owners[nextTokenId] = NoHolder
           /\ credentials'[nextTokenId].active /\ credentials'[nextTokenId].creator = i.creator
           /\ credentials'[nextTokenId].issuedAt = now
           /\ owners'[nextTokenId] = i.holder /\ intentOf'[nextTokenId] = i
           /\ \A t \in Tokens \ {nextTokenId} :
                  /\ credentials'[t] = credentials[t]
                  /\ owners'[t] = owners[t] /\ intentOf'[t] = intentOf[t]
           /\ \A c \in Creators, h \in Holders :
                  activeTokenOf'[c][h] = IF c = i.creator /\ h = i.holder THEN nextTokenId
                                         ELSE activeTokenOf[c][h]
  <1> USE DEF NewToken
  <1>1. i \in Intents /\ i.creator \in Creators /\ i.holder \in Holders
    BY DEF SbtTypeOK, Intents
  <1>2. nextTokenId \in Tokens /\ nextTokenId' = nextTokenId + 1
    BY DEF RegisterSupporterWithSignature
  <1>3. credentials[nextTokenId] = NoCredential /\ owners[nextTokenId] = NoHolder
    BY <1>2 DEF SbtTypeOK
  <1>4. credentials'[nextTokenId].active /\ credentials'[nextTokenId].creator = i.creator
        /\ credentials'[nextTokenId].issuedAt = now
    BY <1>2 DEF RegisterSupporterWithSignature, SbtTypeOK
  <1>5. owners'[nextTokenId] = i.holder /\ intentOf'[nextTokenId] = i
    BY <1>2 DEF RegisterSupporterWithSignature, SbtTypeOK
  <1>6. \A t \in Tokens \ {nextTokenId} :
            /\ credentials'[t] = credentials[t]
            /\ owners'[t] = owners[t] /\ intentOf'[t] = intentOf[t]
    BY <1>2 DEF RegisterSupporterWithSignature, SbtTypeOK
  <1>7. \A c \in Creators, h \in Holders :
            activeTokenOf'[c][h] = IF c = i.creator /\ h = i.holder THEN nextTokenId
                                   ELSE activeTokenOf[c][h]
    BY <1>1 DEF RegisterSupporterWithSignature, SbtTypeOK
  <1> QED BY <1>1, <1>2, <1>3, <1>4, <1>5, <1>6, <1>7

(* What ending a credential writes. *)
LEMMA EndWrites ==
    ASSUME SbtTypeOK, NEW t \in Tokens, Revoke(t) \/ Burn(t)
    PROVE  /\ owners[t] \in Holders
           /\ credentials' \in {credentials, [credentials EXCEPT ![t].active = FALSE]}
           /\ owners' \in {owners, [owners EXCEPT ![t] = NoHolder]}
           /\ ~credentials'[t].active
           /\ credentials[t].active => activeTokenOf' = Released(t)
           /\ ~credentials[t].active => activeTokenOf' = activeTokenOf
           /\ UNCHANGED <<nextTokenId, nonces, signed, intentOf>>
  <1>1. CASE Revoke(t)
    BY <1>1 DEF Revoke, SbtTypeOK
  <1>2. CASE Burn(t)
    BY <1>2 DEF Burn, SbtTypeOK
  <1> QED BY <1>1, <1>2

(* Every other step leaves the tokens alone. *)
LEMMA StepKinds ==
    ASSUME [SbtNext]_sbtVars
    PROVE  \/ UNCHANGED tokenVars /\ signed \subseteq signed'
           \/ \E t \in Tokens : Revoke(t) \/ Burn(t)
           \/ \E i \in signed : RegisterSupporterWithSignature(i)
  BY DEF SbtNext, Environment, Tick, SignIntent, SetEarlyPolicy, sbtVars

LEMMA ActiveStep == SbtTypeOK /\ OneActiveCredential /\ [SbtNext]_sbtVars => OneActiveCredential'
  <1> SUFFICES ASSUME SbtTypeOK, OneActiveCredential, [SbtNext]_sbtVars,
                      NEW u \in Tokens, NEW c \in Creators, NEW h \in Holders
               PROVE  activeTokenOf'[c][h] = u <=>
                          credentials'[u].active /\ credentials'[u].creator = c /\ owners'[u] = h
    BY DEF OneActiveCredential
  <1>1. activeTokenOf[c][h] = u <=>
            credentials[u].active /\ credentials[u].creator = c /\ owners[u] = h
    BY DEF OneActiveCredential
  <1>2. CASE UNCHANGED tokenVars
    BY <1>1, <1>2 DEF tokenVars
  <1>3. ASSUME NEW t \in Tokens, Revoke(t) \/ Burn(t)
        PROVE  activeTokenOf'[c][h] = u <=>
                   credentials'[u].active /\ credentials'[u].creator = c /\ owners'[u] = h
    <2>1. /\ owners[t] \in Holders
          /\ ~credentials'[t].active
          /\ u # t => credentials'[u] = credentials[u] /\ owners'[u] = owners[u]
          /\ credentials[t].active => activeTokenOf' = Released(t)
          /\ ~credentials[t].active => activeTokenOf' = activeTokenOf
      BY <1>3, EndWrites DEF SbtTypeOK
    <2>2. u # 0
      BY DEF Tokens
    <2>3. CASE ~credentials[t].active
      BY <1>1, <2>1, <2>3
    <2>4. CASE credentials[t].active /\ c = credentials[t].creator /\ h = owners[t]
      <3>1. activeTokenOf[c][h] = t
        BY <2>4 DEF OneActiveCredential
      <3>2. activeTokenOf'[c][h] = 0
        BY <2>1, <2>4 DEF Released, SbtTypeOK
      <3> QED BY <1>1, <2>1, <2>2, <3>1, <3>2
    <2>5. CASE credentials[t].active /\ ~(c = credentials[t].creator /\ h = owners[t])
      <3>1. activeTokenOf'[c][h] = activeTokenOf[c][h]
        BY <2>1, <2>5 DEF Released, SbtTypeOK
      <3> QED BY <1>1, <2>1, <2>5, <3>1
    <2> QED BY <2>3, <2>4, <2>5
  <1>4. ASSUME NEW i \in signed, RegisterSupporterWithSignature(i)
        PROVE  activeTokenOf'[c][h] = u <=>
                   credentials'[u].active /\ credentials'[u].creator = c /\ owners'[u] = h
    <2>1. CASE u = nextTokenId
      <3>1. activeTokenOf[c][h] # u
        BY <1>1, <1>4, <2>1, RegisterWrites DEF NoCredential
      <3> QED BY <3>1, <1>4, <2>1, RegisterWrites
    <2>2. CASE u # nextTokenId
      <3>1. credentials'[u] = credentials[u] /\ owners'[u] = owners[u]
        BY <1>4, <2>2, RegisterWrites
      <3>2. activeTokenOf[i.creator][i.holder] = 0
        BY <1>4 DEF RegisterSupporterWithSignature, Registrable
      <3>3. u # 0
        BY DEF Tokens
      <3> QED BY <1>1, <1>4, <2>2, <3>1, <3>2, <3>3, RegisterWrites
    <2> QED BY <2>1, <2>2
  <1> QED BY <1>2, <1>3, <1>4, StepKinds

(* A holder has one active credential for a creator and activeTokenOf names  *)
(* it, through any revocations, burns and registrations.                     *)
THEOREM OneCredential == SbtSpec => []OneActiveCredential
  <1>1. SbtInit => OneActiveCredential
    BY DEF SbtInit, OneActiveCredential, NoCredential, Tokens
  <1> QED BY <1>1, TypeInit, TypeStep, ActiveStep, PTL DEF SbtSpec

-----------------------------------------------------------------------------
(* A credential once issued keeps its creator, tier, policy version and      *)
(* time, does not become active again, and does not change hands.            *)
THEOREM OnlyEnd == SbtSpec => CredentialsOnlyEnd
  <1>1. ASSUME SbtTypeOK, [SbtNext]_sbtVars PROVE CredentialsOnlyEndStep
    <2> SUFFICES ASSUME NEW u \in Tokens, credentials[u].tier # "NONE"
                 PROVE  /\ credentials'[u] \in {credentials[u],
                                                [credentials[u] EXCEPT !.active = FALSE]}
                        /\ owners'[u] \in {owners[u], NoHolder}
      BY DEF CredentialsOnlyEndStep
    <2>1. CASE UNCHANGED tokenVars
      BY <2>1 DEF tokenVars
    <2>2. ASSUME NEW t \in Tokens, Revoke(t) \/ Burn(t)
          PROVE  /\ credentials'[u] \in {credentials[u], [credentials[u] EXCEPT !.active = FALSE]}
                 /\ owners'[u] \in {owners[u], NoHolder}
      <3>1. credentials' \in {credentials, [credentials EXCEPT ![t].active = FALSE]}
        BY <1>1, <2>2, EndWrites
      <3>2. credentials'[u] \in {credentials[u], [credentials[u] EXCEPT !.active = FALSE]}
        BY <1>1, <3>1 DEF SbtTypeOK
      <3>3. owners'[u] \in {owners[u], NoHolder}
        BY <1>1, <2>2, EndWrites DEF SbtTypeOK
      <3> QED BY <3>2, <3>3
    <2>3. ASSUME NEW i \in signed, RegisterSupporterWithSignature(i)
          PROVE  credentials'[u] = credentials[u] /\ owners'[u] = owners[u]
      <3>1. u # nextTokenId
        BY <1>1, <2>3, RegisterWrites DEF NoCredential
      <3> QED BY <1>1, <2>3, <3>1, RegisterWrites
    <2> QED BY <1>1, <2>1, <2>2, <2>3, StepKinds
  <1> QED BY <1>1, TypeInit, TypeStep, PTL DEF SbtSpec, CredentialsOnlyEnd

-----------------------------------------------------------------------------
(* The inductive form of the two properties below: the nonce a token used is *)
(* behind its holder's counter, and what was signed was kept.                *)
NoncesAreSpent ==
    \A t \in 1..(nextTokenId - 1) :
        /\ intentOf[t] \in Intents
        /\ intentOf[t].nonce < nonces[intentOf[t].holder]
IntentInvariant == NoncesAreSpent /\ IntentMintsOnce /\ CredentialsWereSigned

LEMMA IntentStep == SbtTypeOK /\ IntentInvariant /\ [SbtNext]_sbtVars => IntentInvariant'
  <1> SUFFICES ASSUME SbtTypeOK, IntentInvariant, [SbtNext]_sbtVars PROVE IntentInvariant'
    OBVIOUS
  <1> USE DEF IntentInvariant, Tokens
  <1>1. CASE UNCHANGED tokenVars /\ signed \subseteq signed'
    BY <1>1 DEF tokenVars, NoncesAreSpent, IntentMintsOnce, CredentialsWereSigned
  <1>2. ASSUME NEW t \in Tokens, Revoke(t) \/ Burn(t) PROVE IntentInvariant'
    <2>1. UNCHANGED <<nextTokenId, nonces, signed, intentOf>>
      BY <1>2, EndWrites
    <2>2. \A u \in Tokens : /\ credentials'[u].creator = credentials[u].creator
                            /\ credentials'[u].issuedAt = credentials[u].issuedAt
      <3>1. CASE credentials' = credentials
        BY <3>1
      <3>2. CASE credentials' = [credentials EXCEPT ![t].active = FALSE]
        BY <3>2 DEF SbtTypeOK
      <3> QED BY <1>2, <3>1, <3>2, EndWrites
    <2>3. 1..(nextTokenId - 1) \subseteq Tokens
      BY SupporterAssumption DEF SbtTypeOK
    <2> QED BY <2>1, <2>2, <2>3 DEF NoncesAreSpent, IntentMintsOnce, CredentialsWereSigned
  <1>3. ASSUME NEW i \in signed, RegisterSupporterWithSignature(i) PROVE IntentInvariant'
    <2>1. /\ i \in Intents /\ i.holder \in Holders /\ nextTokenId \in 1..MaxTokens
          /\ nextTokenId' = nextTokenId + 1 /\ intentOf'[nextTokenId] = i
      BY <1>3, RegisterWrites DEF Intents
    <2>2. \A t \in 1..(nextTokenId - 1) :
              /\ t \in Tokens \ {nextTokenId}
              /\ intentOf'[t] = intentOf[t] /\ credentials'[t] = credentials[t]
      BY <1>3, <2>1, RegisterWrites, SupporterAssumption
    <2>3. \A t \in 1..(nextTokenId' - 1) : t \in 1..(nextTokenId - 1) \/ t = nextTokenId
      BY <2>1, SupporterAssumption
    <2>4. \A h \in Holders : nonces'[h] = IF h = i.holder THEN nonces[h] + 1 ELSE nonces[h]
      BY <1>3, <2>1 DEF RegisterSupporterWithSignature, SbtTypeOK
    <2>5. i.nonce = nonces[i.holder] /\ now <= i.deadline /\ signed' = signed
      BY <1>3 DEF RegisterSupporterWithSignature, Registrable
    <2>6. \A h \in Holders : nonces[h] \in Nat /\ nonces'[h] \in Nat /\ nonces[h] <= nonces'[h]
      <3> SUFFICES ASSUME NEW h \in Holders
                   PROVE  nonces[h] \in Nat /\ nonces'[h] \in Nat /\ nonces[h] <= nonces'[h]
        OBVIOUS
      <3>1. nonces[h] \in Nat
        BY DEF SbtTypeOK
      <3>2. nonces'[h] \in {nonces[h], nonces[h] + 1}
        BY <2>4
      <3> QED BY <3>1, <3>2
    <2>7. \A t \in 1..(nextTokenId - 1) :
              /\ intentOf[t] \in Intents /\ intentOf[t].holder \in Holders
              /\ intentOf[t].nonce \in Nat /\ intentOf[t].nonce < nonces[intentOf[t].holder]
      BY DEF NoncesAreSpent, Intents
    <2>8. NoncesAreSpent'
      <3> SUFFICES ASSUME NEW t \in 1..(nextTokenId' - 1)
                   PROVE  /\ intentOf'[t] \in Intents
                          /\ intentOf'[t].nonce < nonces'[intentOf'[t].holder]
        BY DEF NoncesAreSpent
      <3>1. CASE t \in 1..(nextTokenId - 1)
        BY <3>1, <2>2, <2>6, <2>7
      <3>2. CASE t = nextTokenId
        BY <3>2, <2>1, <2>4, <2>5, <2>6
      <3> QED BY <2>3, <3>1, <3>2
    <2>9. IntentMintsOnce'
      <3>1. \A t \in 1..(nextTokenId - 1) :
                ~(intentOf[t].holder = i.holder /\ intentOf[t].nonce = i.nonce)
        BY <2>5, <2>6, <2>7
      <3>2. \A t, u \in 1..(nextTokenId - 1) :
                intentOf[t].holder = intentOf[u].holder /\ intentOf[t].nonce = intentOf[u].nonce
                => t = u
        BY DEF IntentMintsOnce
      <3> QED BY <2>1, <2>2, <2>3, <3>1, <3>2 DEF IntentMintsOnce
    <2>10. CredentialsWereSigned'
      <3> SUFFICES ASSUME NEW t \in 1..(nextTokenId' - 1)
                   PROVE  /\ intentOf'[t] \in signed'
                          /\ credentials'[t].creator = intentOf'[t].creator
                          /\ credentials'[t].issuedAt <= intentOf'[t].deadline
        BY DEF CredentialsWereSigned
      <3>1. CASE t \in 1..(nextTokenId - 1)
        BY <3>1, <2>2, <2>5 DEF CredentialsWereSigned
      <3>2. CASE t = nextTokenId
        BY <3>2, <1>3, <2>1, <2>5, RegisterWrites
      <3> QED BY <2>3, <3>1, <3>2
    <2> QED BY <2>8, <2>9, <2>10
  <1> QED BY <1>1, <1>2, <1>3, StepKinds

LEMMA IntentCorrect == SbtSpec => []IntentInvariant
  <1>1. SbtInit => IntentInvariant
    BY DEF SbtInit, IntentInvariant, NoncesAreSpent, IntentMintsOnce, CredentialsWereSigned
  <1> QED BY <1>1, TypeInit, TypeStep, IntentStep, PTL DEF SbtSpec

(* However often an intent is submitted, it mints at most one token, for the *)
(* creator its holder signed for and by the deadline signed.                 *)
THEOREM HonouredOnce == SbtSpec => []IntentsAreHonoured
  <1> QED BY IntentCorrect, PTL DEF IntentInvariant, IntentsAreHonoured

-----------------------------------------------------------------------------
(* The inductive form of the cap: earlyIssued counts the early credentials.  *)
IssuedCounts == \A c \in Creators : EarlyCount(c) = earlyPolicies[c].issued

LEMMA EarlyFinite == ASSUME NEW c PROVE IsFiniteSet(EarlyTokens(c))
  <1>1. IsFiniteSet(Tokens)
    BY FS_Interval, SupporterAssumption DEF Tokens
  <1> QED BY <1>1, FS_Subset DEF EarlyTokens

(* The early credentials of a creator grow only by a registration that is    *)
(* early, and then by one.                                                   *)
LEMMA EarlyGrows ==
    ASSUME SbtTypeOK, [SbtNext]_sbtVars, NEW c \in Creators
    PROVE  \/ /\ EarlyCount(c)' = EarlyCount(c)
              /\ earlyPolicies'[c].issued = earlyPolicies[c].issued
           \/ /\ IsEarly(c) /\ EarlyCount(c)' = EarlyCount(c) + 1
              /\ earlyPolicies'[c].issued = earlyPolicies[c].issued + 1
  <1>1. ASSUME EarlyTokens(c)' = EarlyTokens(c) PROVE EarlyCount(c)' = EarlyCount(c)
    BY <1>1 DEF EarlyCount
  <1>2. CASE Tick \/ UNCHANGED sbtVars
        \/ \E d \in Creators, h \in Holders, lifetime \in Lifetimes : SignIntent(d, h, lifetime)
    <2>1. UNCHANGED <<credentials, earlyPolicies>>
      BY <1>2 DEF Tick, SignIntent, sbtVars, tokenVars
    <2> QED BY <1>1, <2>1 DEF EarlyTokens
  <1>3. ASSUME NEW d \in Creators, NEW policy \in Policies, SetEarlyPolicy(d, policy)
        PROVE  /\ EarlyCount(c)' = EarlyCount(c)
               /\ earlyPolicies'[c].issued = earlyPolicies[c].issued
    <2>1. UNCHANGED credentials /\ earlyPolicies'[c].issued = earlyPolicies[c].issued
      BY <1>3 DEF SetEarlyPolicy, tokenVars, SbtTypeOK
    <2> QED BY <1>1, <2>1 DEF EarlyTokens
  <1>4. ASSUME NEW t \in Tokens, Revoke(t) \/ Burn(t)
        PROVE  /\ EarlyCount(c)' = EarlyCount(c)
               /\ earlyPolicies'[c].issued = earlyPolicies[c].issued
    <2>1. UNCHANGED earlyPolicies
      BY <1>4 DEF Revoke, Burn
    <2>2. \A u \in Tokens : /\ credentials'[u].creator = credentials[u].creator
                            /\ credentials'[u].tier = credentials[u].tier
      <3>1. CASE credentials' = credentials
        BY <3>1
      <3>2. CASE credentials' = [credentials EXCEPT ![t].active = FALSE]
        BY <3>2 DEF SbtTypeOK
      <3> QED BY <1>4, <3>1, <3>2, EndWrites
    <2> QED BY <1>1, <2>1, <2>2 DEF EarlyTokens
  <1>5. ASSUME NEW i \in signed, RegisterSupporterWithSignature(i)
        PROVE  \/ /\ EarlyCount(c)' = EarlyCount(c)
                  /\ earlyPolicies'[c].issued = earlyPolicies[c].issued
               \/ /\ IsEarly(c) /\ EarlyCount(c)' = EarlyCount(c) + 1
                  /\ earlyPolicies'[c].issued = earlyPolicies[c].issued + 1
    <2>1. /\ nextTokenId \in Tokens /\ credentials[nextTokenId] = NoCredential
          /\ credentials'[nextTokenId].creator = i.creator
          /\ \A t \in Tokens \ {nextTokenId} : credentials'[t] = credentials[t]
      BY <1>5, RegisterWrites
    <2>2. credentials'[nextTokenId].tier = IF IsEarly(i.creator) THEN "EARLY_SUPPORTER"
                                           ELSE "SUPPORTER"
      BY <1>5, <2>1 DEF RegisterSupporterWithSignature, NewToken, SbtTypeOK
    <2>3. nextTokenId \notin EarlyTokens(c)
      BY <2>1 DEF EarlyTokens, NoCredential
    <2>4. CASE c = i.creator /\ IsEarly(c)
      <3>1. EarlyTokens(c)' = EarlyTokens(c) \cup {nextTokenId}
        BY <2>1, <2>2, <2>3, <2>4 DEF EarlyTokens
      <3>2. EarlyCount(c)' = EarlyCount(c) + 1
        BY <2>3, <3>1, EarlyFinite, FS_AddElement DEF EarlyCount
      <3>3. earlyPolicies' = [earlyPolicies EXCEPT ![c] = OneIssued(earlyPolicies[c])]
        BY <1>5, <2>4 DEF RegisterSupporterWithSignature
      <3>4. earlyPolicies'[c].issued = earlyPolicies[c].issued + 1
        BY <3>3 DEF SbtTypeOK, OneIssued
      <3> QED BY <2>4, <3>2, <3>4
    <2>5. CASE ~(c = i.creator /\ IsEarly(c))
      <3>1. EarlyTokens(c)' = EarlyTokens(c)
        BY <2>1, <2>2, <2>3, <2>5 DEF EarlyTokens
      <3>2. earlyPolicies'[c] = earlyPolicies[c]
        BY <1>5, <2>5 DEF RegisterSupporterWithSignature, SbtTypeOK
      <3> QED BY <1>1, <3>1, <3>2
    <2> QED BY <2>4, <2>5
  <1> QED BY <1>2, <1>3, <1>4, <1>5 DEF SbtNext, Environment

(* An early credential is issued only under an active policy that is not     *)
(* over, while those ever issued for the creator are fewer than its cap.     *)
THEOREM EarlyCapped == SbtSpec => EarlyIsCapped
  <1>1. SbtInit => IssuedCounts
    <2> SUFFICES ASSUME SbtInit, NEW c \in Creators PROVE EarlyCount(c) = earlyPolicies[c].issued
      BY DEF IssuedCounts
    <2>1. EarlyTokens(c) = {}
      BY DEF SbtInit, EarlyTokens, NoCredential
    <2> QED BY <2>1, FS_EmptySet DEF EarlyCount, SbtInit, NoPolicy
  <1>2. SbtTypeOK /\ IssuedCounts /\ [SbtNext]_sbtVars => IssuedCounts'
    <2> SUFFICES ASSUME SbtTypeOK, IssuedCounts, [SbtNext]_sbtVars, NEW c \in Creators
                 PROVE  EarlyCount(c)' = earlyPolicies'[c].issued
      BY DEF IssuedCounts
    <2> QED BY EarlyGrows DEF IssuedCounts
  <1>3. SbtTypeOK /\ IssuedCounts /\ [SbtNext]_sbtVars => EarlyIsCappedStep
    <2> SUFFICES ASSUME SbtTypeOK, IssuedCounts, [SbtNext]_sbtVars, NEW c \in Creators,
                        EarlyCount(c)' > EarlyCount(c)
                 PROVE  /\ earlyPolicies[c].active /\ now <= earlyPolicies[c].until
                        /\ EarlyCount(c) < earlyPolicies[c].max
      BY DEF EarlyIsCappedStep
    <2>1. EarlyCount(c) = earlyPolicies[c].issued /\ EarlyCount(c) \in Nat
      BY DEF IssuedCounts, SbtTypeOK
    <2> QED BY <2>1, EarlyGrows DEF IsEarly
  <1> QED BY <1>1, <1>2, <1>3, TypeInit, TypeStep, PTL DEF SbtSpec, EarlyIsCapped

-----------------------------------------------------------------------------

(* The relayer's steps are steps of the contract or leave it alone. *)
LEMMA RelayerMoves == [Next]_vars => [SbtNext]_sbtVars
  <1> SUFFICES ASSUME [Next]_vars PROVE SbtNext \/ UNCHANGED sbtVars
    OBVIOUS
  <1>1. CASE Environment
    BY <1>1 DEF SbtNext
  <1>2. ASSUME NEW i \in signed, RegisterSelf(i) PROVE SbtNext
    BY <1>2 DEF RegisterSelf, SbtNext
  <1>3. CASE Mine
    <2>1. RegisterSupporterWithSignature(Head(pool)) /\ Head(pool) \in signed
      BY <1>3 DEF Mine, RegisterSupporterWithSignature, Registrable
    <2> QED BY <2>1 DEF SbtNext
  <1>4. ASSUME NEW o \in Ops, StatusRead(o) \/ StatusFails(o) \/ Submit(o) \/ SubmitFails(o)
        PROVE  UNCHANGED sbtVars
    BY <1>4 DEF StatusRead, StatusFails, Submit, SubmitFails
  <1>5. ASSUME NEW i \in signed, NEW o \in Ops, NEW k \in Keys, NEW genuine \in BOOLEAN,
               Relay(o, k, i, genuine)
        PROVE  UNCHANGED sbtVars
    BY <1>5 DEF Relay
  <1>6. CASE Restart \/ Gone \/ UNCHANGED vars
    BY <1>6 DEF Restart, Gone, vars
  <1> QED BY <1>1, <1>2, <1>3, <1>4, <1>5, <1>6 DEF Next

(* Whatever the gateway's relayer forgets, repeats or loses, the credential  *)
(* takes only steps of its own: with the theorems above, all of them hold    *)
(* of the contract behind the relayer.                                       *)
THEOREM RelayerRefinesSbt == Spec => SbtSpec
  <1>1. Init => SbtInit
    BY DEF Init
  <1> QED BY <1>1, RelayerMoves, PTL DEF Spec, SbtSpec

-----------------------------------------------------------------------------
Operation == [pc : {"idle", "status", "active", "submit", "submitted", "failed"},
              key : (Holders \X Keys) \cup {<<>>}, intent : Intents \cup {NoIntent}, genuine : BOOLEAN]

(* An entry is of an operation that runs or has answered, a key has one,   *)
(* and what runs and is not remembered was evicted.                         *)
EntriesOK ==
    /\ ops \in [Ops -> Operation] /\ operations \in Seq(Ops)
    /\ \A n \in DOMAIN operations : Alive(operations[n])
    /\ \A m, n \in DOMAIN operations : ops[operations[m]].key = ops[operations[n]].key => m = n
    /\ \A o \in Ops : Alive(o) /\ ops[o].key \notin evicted => o \in Remembered

(* The relayer starts without an operation. *)
LEMMA EntriesStart == Init => EntriesOK
  BY EmptySeq DEF Init, EntriesOK, NoOp, Operation, Alive

(* Of two operations of a key whose entry was kept both are that entry.     *)
LEMMA KeyRuns == EntriesOK => KeyRunsOnce
  BY DEF EntriesOK, KeyRunsOnce, Remembered

(* A sequence without its entry at n. *)
LEMMA Removed ==
    ASSUME NEW S, NEW s \in Seq(S), NEW n \in 1..Len(s)
    PROVE  /\ RemoveAt(s, n) \in Seq(S) /\ Len(RemoveAt(s, n)) = Len(s) - 1
           /\ \A j \in 1..(Len(s) - 1) : RemoveAt(s, n)[j] = IF j < n THEN s[j] ELSE s[j + 1]
  <1>1. Len(s) \in Nat /\ \A j \in 1..Len(s) : s[j] \in S
    BY LenProperties
  <1>2. PICK front : front = SubSeq(s, 1, n - 1)
    OBVIOUS
  <1>3. PICK back : back = SubSeq(s, n + 1, Len(s))
    OBVIOUS
  <1>4. front \in Seq(S) /\ Len(front) = n - 1 /\ \A j \in 1..(n - 1) : front[j] = s[j]
    <2>1. \A j \in 1..(n - 1) : s[j] \in S
      BY <1>1
    <2> QED BY <1>1, <1>2, <2>1, SubSeqProperties
  <1>5. back \in Seq(S) /\ Len(back) = Len(s) - n /\ \A j \in 1..(Len(s) - n) : back[j] = s[n + j]
    <2>1. \A j \in (n + 1)..Len(s) : s[j] \in S
      BY <1>1
    <2>2. /\ back \in Seq(S) /\ Len(back) = (IF n + 1 <= Len(s) THEN Len(s) - (n + 1) + 1 ELSE 0)
          /\ \A j \in 1..(Len(s) - (n + 1) + 1) : back[j] = s[(n + 1) + j - 1]
      BY <1>1, <1>3, <2>1, SubSeqProperties
    <2>3. \A j \in 1..(Len(s) - n) : (n + 1) + j - 1 = n + j
      BY <1>1
    <2> QED BY <1>1, <2>2, <2>3
  <1>6. RemoveAt(s, n) = front \o back
    BY <1>2, <1>3 DEF RemoveAt
  <1>7. /\ front \o back \in Seq(S) /\ Len(front \o back) = Len(s) - 1
        /\ \A j \in 1..(Len(s) - 1) :
               (front \o back)[j] = IF j <= n - 1 THEN front[j] ELSE back[j - (n - 1)]
    <2>1. /\ front \o back \in Seq(S) /\ Len(front \o back) = Len(front) + Len(back)
          /\ \A j \in 1..(Len(front) + Len(back)) :
                 (front \o back)[j] = IF j <= Len(front) THEN front[j] ELSE back[j - Len(front)]
      BY <1>4, <1>5, ConcatProperties
    <2>2. Len(front) + Len(back) = Len(s) - 1
      BY <1>1, <1>4, <1>5
    <2> QED BY <1>4, <2>1, <2>2
  <1>8. ASSUME NEW j \in 1..(Len(s) - 1)
        PROVE  RemoveAt(s, n)[j] = IF j < n THEN s[j] ELSE s[j + 1]
    <2>1. CASE j < n
      BY <1>4, <1>6, <1>7, <2>1
    <2>2. CASE ~(j < n)
      <3>1. j - (n - 1) \in 1..(Len(s) - n) /\ n + (j - (n - 1)) = j + 1
        BY <1>1, <2>2
      <3> QED BY <1>1, <1>5, <1>6, <1>7, <2>2, <3>1
    <2> QED BY <2>1, <2>2
  <1> QED BY <1>6, <1>7, <1>8

(* The operations of a sequence of them. *)
LEMMA EntriesAre ==
    ASSUME operations \in Seq(Ops)
    PROVE  /\ Len(operations) \in Nat /\ DOMAIN operations = 1..Len(operations)
           /\ \A n \in DOMAIN operations : operations[n] \in Ops
           /\ \A o : o \in Remembered <=> \E n \in 1..Len(operations) : operations[n] = o
  BY LenProperties DEF Remembered

(* A new key takes an entry, and perhaps that of the oldest.                *)
LEMMA RelayKeeps ==
    ASSUME EntriesOK, NEW o \in Ops, NEW k \in Keys, NEW i \in Intents, NEW genuine \in BOOLEAN,
           Relay(o, k, i, genuine)
    PROVE  EntriesOK'
  <1>1. /\ operations \in Seq(Ops) /\ Len(operations) \in Nat
        /\ DOMAIN operations = 1..Len(operations)
        /\ \A n \in 1..Len(operations) : operations[n] \in Ops
    BY EntriesAre DEF EntriesOK
  <1>2. PICK key \in Holders \X Keys : key = <<i.holder, k>>
    BY DEF Intents
  <1>3. PICK op \in Operation : /\ ops' = [ops EXCEPT ![o] = op]
                                /\ op.key = key /\ op.pc = "status"
    <2>1. PICK op : op = [pc |-> "status", key |-> key, intent |-> i, genuine |-> genuine]
      OBVIOUS
    <2>2. op \in Operation /\ op.key = key /\ op.pc = "status"
      BY <2>1 DEF Operation
    <2>3. ops' = [ops EXCEPT ![o] = op]
      BY <1>2, <2>1 DEF Relay
    <2> QED BY <2>2, <2>3
  <1>4. /\ ops' \in [Ops -> Operation] /\ ops'[o] = op
        /\ \A p \in Ops : p # o => ops'[p] = ops[p]
    BY <1>3 DEF EntriesOK
  <1>5. ~Alive(o) /\ Alive(o)' /\ \A p \in Ops : p # o => Alive(p)' = Alive(p)
    BY <1>3, <1>4 DEF Alive, Relay
  <1>6. \A n \in 1..Len(operations) : /\ operations[n] # o /\ Alive(operations[n])
                                      /\ ops[operations[n]].key # key
    BY <1>1, <1>2, <1>5 DEF EntriesOK, Relay, NoPrior, Remembered
  <1>7. PICK kept \in Seq(Ops) : /\ operations' = Append(kept, o)
                                 /\ \A n \in 1..Len(kept) : \E m \in 1..Len(operations) : kept[n] = operations[m]
                                 /\ \A m, n \in 1..Len(kept) : ops[kept[m]].key = ops[kept[n]].key => m = n
                                 /\ \A p \in Ops : Alive(p) /\ ops[p].key \notin evicted' =>
                                        \E n \in 1..Len(kept) : kept[n] = p
    <2>1. CASE Len(operations) >= Capacity
      <3>1. operations' = Append(Tail(operations), o) /\ evicted' = evicted \cup {ops[Head(operations)].key}
        BY <2>1 DEF Relay
      <3>2. operations # <<>> /\ Len(operations) >= 1
        BY <1>1, <2>1, RelayerAssumption, EmptySeq
      <3>3. PICK kept : kept = Tail(operations)
        OBVIOUS
      <3>4. /\ kept \in Seq(Ops) /\ Len(kept) = Len(operations) - 1
            /\ \A n \in 1..Len(kept) : kept[n] = operations[n + 1]
        BY <1>1, <3>2, <3>3, HeadTailProperties
      <3>5. \A n \in 1..Len(kept) : \E m \in 1..Len(operations) : kept[n] = operations[m]
        <4> TAKE n \in 1..Len(kept)
        <4>1. n + 1 \in 1..Len(operations)
          BY <1>1, <3>4
        <4> QED BY <3>4, <4>1
      <3>6. \A m, n \in 1..Len(kept) : ops[kept[m]].key = ops[kept[n]].key => m = n
        <4> TAKE m, n \in 1..Len(kept)
        <4>1. m + 1 \in 1..Len(operations) /\ n + 1 \in 1..Len(operations) /\ m \in Int /\ n \in Int
          BY <1>1, <3>4
        <4>2. ops[operations[m + 1]].key = ops[operations[n + 1]].key => m + 1 = n + 1
          BY <1>1, <4>1 DEF EntriesOK
        <4>3. m + 1 = n + 1 => m = n
          BY <4>1
        <4>4. kept[m] = operations[m + 1] /\ kept[n] = operations[n + 1]
          BY <3>4
        <4> QED BY <4>2, <4>3, <4>4
      <3>7. \A p \in Ops : Alive(p) /\ ops[p].key \notin evicted' => \E n \in 1..Len(kept) : kept[n] = p
        <4> SUFFICES ASSUME NEW p \in Ops, Alive(p), ops[p].key \notin evicted'
                     PROVE  \E n \in 1..Len(kept) : kept[n] = p
          OBVIOUS
        <4>1. ops[p].key \notin evicted /\ ops[p].key # ops[Head(operations)].key
          BY <3>1
        <4>2. PICK n \in 1..Len(operations) : operations[n] = p
          BY <4>1, EntriesAre DEF EntriesOK
        <4>3. Head(operations) = operations[1]
          OBVIOUS
        <4>4. n # 1
          BY <4>1, <4>2, <4>3
        <4>5. n - 1 \in 1..Len(kept) /\ (n - 1) + 1 = n
          BY <1>1, <3>4, <4>2, <4>4
        <4>6. kept[n - 1] = operations[(n - 1) + 1]
          BY <3>4, <4>5
        <4> QED BY <4>2, <4>5, <4>6
      <3> QED BY <3>1, <3>3, <3>4, <3>5, <3>6, <3>7
    <2>2. CASE ~(Len(operations) >= Capacity)
      <3>1. operations' = Append(operations, o) /\ evicted' = evicted
        BY <2>2 DEF Relay
      <3>2. \A p \in Ops : Alive(p) /\ ops[p].key \notin evicted' =>
                \E n \in 1..Len(operations) : operations[n] = p
        BY <3>1, EntriesAre DEF EntriesOK
      <3>3. \A m, n \in 1..Len(operations) : ops[operations[m]].key = ops[operations[n]].key => m = n
        BY <1>1 DEF EntriesOK
      <3> QED BY <1>1, <3>1, <3>2, <3>3
    <2> QED BY <2>1, <2>2
  <1>8. PICK c \in Nat : c = Len(kept)
    BY LenProperties
  <1>9. /\ operations' \in Seq(Ops) /\ Len(operations') = c + 1
        /\ \A n \in 1..c : operations'[n] = kept[n]
        /\ operations'[c + 1] = o
    BY <1>7, <1>8, AppendProperties
  <1>10. DOMAIN operations' = 1..(c + 1)
    BY <1>9, LenProperties
  <1>11. \A n \in 1..c : kept[n] \in Ops /\ kept[n] # o /\ Alive(kept[n]) /\ ops[kept[n]].key # key
    BY <1>1, <1>6, <1>7, <1>8
  <1>12. \A n \in 1..(c + 1) : ops'[operations'[n]].pc \notin {"idle", "failed"}
    <2> TAKE n \in 1..(c + 1)
    <2>1. CASE n = c + 1
      BY <2>1, <1>3, <1>4, <1>9
    <2>2. CASE n \in 1..c
      <3>1. PICK p \in Ops : p = operations'[n] /\ p # o /\ Alive(p)
        BY <2>2, <1>9, <1>11
      <3>2. ops'[p] = ops[p]
        BY <1>4, <3>1
      <3> QED BY <3>1, <3>2 DEF Alive
    <2> QED BY <2>1, <2>2
  <1>13. \A m, n \in 1..(c + 1) : ops'[operations'[m]].key = ops'[operations'[n]].key => m = n
    <2> TAKE m, n \in 1..(c + 1)
    <2>1. \A j \in 1..c : ops'[operations'[j]].key = ops[kept[j]].key /\ ops'[operations'[j]].key # key
      BY <1>4, <1>9, <1>11
    <2>2. ops'[operations'[c + 1]].key = key
      BY <1>3, <1>4, <1>9
    <2>3. CASE m \in 1..c /\ n \in 1..c
      BY <2>1, <2>3, <1>7, <1>8
    <2>4. CASE m \in 1..c /\ n = c + 1
      BY <2>1, <2>2, <2>4
    <2>5. CASE m = c + 1 /\ n \in 1..c
      BY <2>1, <2>2, <2>5
    <2>6. CASE m = c + 1 /\ n = c + 1
      BY <2>6
    <2> QED BY <2>3, <2>4, <2>5, <2>6
  <1>14. \A p \in Ops : Alive(p)' /\ ops'[p].key \notin evicted' => p \in Remembered'
    <2> SUFFICES ASSUME NEW p \in Ops, Alive(p)', ops'[p].key \notin evicted'
                 PROVE  \E n \in 1..(c + 1) : operations'[n] = p
      BY <1>10 DEF Remembered
    <2>1. CASE p = o
      BY <2>1, <1>9
    <2>2. CASE p # o
      <3>1. Alive(p) /\ ops[p].key \notin evicted'
        BY <2>2, <1>4, <1>5
      <3>2. PICK n \in 1..c : kept[n] = p
        BY <3>1, <1>7, <1>8
      <3> QED BY <3>2, <1>9
    <2> QED BY <2>1, <2>2
  <1> QED BY <1>4, <1>9, <1>10, <1>12, <1>13, <1>14 DEF EntriesOK, Alive

(* A failure forgets the entry its key has by now: its own, or that of an   *)
(* operation that came after its eviction, whose key is in evicted then.     *)
LEMMA FailsKeeps ==
    ASSUME EntriesOK, NEW o \in Ops, Alive(o), Fails(o), evicted' = evicted
    PROVE  EntriesOK'
  <1>1. /\ operations \in Seq(Ops) /\ Len(operations) \in Nat
        /\ DOMAIN operations = 1..Len(operations)
        /\ \A n \in 1..Len(operations) : operations[n] \in Ops
    BY EntriesAre DEF EntriesOK
  <1>2. PICK old \in Operation : old = ops[o]
    BY DEF EntriesOK
  <1>3. PICK op \in Operation : op = [old EXCEPT !.pc = "failed"]
    BY DEF Operation
  <1>4. op.key = old.key /\ op.pc = "failed"
    BY <1>3 DEF Operation
  <1>5. ops' = [ops EXCEPT ![o] = op]
    BY <1>2, <1>3 DEF Fails, Goes
  <1>6. /\ ops' \in [Ops -> Operation] /\ ops'[o] = op
        /\ \A p \in Ops : p # o => ops'[p] = ops[p]
    BY <1>5 DEF EntriesOK
  <1>7. ~Alive(o)' /\ \A p \in Ops : p # o => Alive(p)' = Alive(p)
    BY <1>4, <1>6 DEF Alive
  <1>8. \A p \in Ops : ops'[p].key = ops[p].key
    BY <1>2, <1>4, <1>6
  <1>9. \A m, n \in 1..Len(operations) : ops[operations[m]].key = ops[operations[n]].key => m = n
    BY <1>1 DEF EntriesOK
  <1>10. \A n \in 1..Len(operations) : Alive(operations[n])
    BY <1>1 DEF EntriesOK
  <1>11. \A p \in Ops : Alive(p) /\ ops[p].key \notin evicted => \E n \in 1..Len(operations) : operations[n] = p
    BY EntriesAre DEF EntriesOK
  <1>12. CASE Entry(old.key) = {}
    <2>1. operations' = operations
      BY <1>2, <1>12 DEF Fails, Forget
    <2>2. \A n \in 1..Len(operations) : operations[n] # o
      BY <1>1, <1>2, <1>12 DEF Entry
    <2>3. \A n \in 1..Len(operations) : Alive(operations[n])'
      BY <1>1, <1>7, <1>10, <2>1, <2>2 DEF Alive
    <2>4. \A m, n \in 1..Len(operations) : ops'[operations[m]].key = ops'[operations[n]].key => m = n
      BY <1>1, <1>8, <1>9
    <2>5. \A p \in Ops : Alive(p)' /\ ops'[p].key \notin evicted' => p \in Remembered'
      BY <1>1, <1>7, <1>8, <1>11, <2>1 DEF Remembered
    <2> QED BY <1>1, <1>6, <2>1, <2>3, <2>4, <2>5 DEF EntriesOK
  <1>13. CASE Entry(old.key) # {}
    <2>1. PICK e \in Entry(old.key) : operations' = RemoveAt(operations, e)
      BY <1>2, <1>13 DEF Fails, Forget
    <2>2. e \in 1..Len(operations) /\ ops[operations[e]].key = old.key
      BY <1>1, <2>1 DEF Entry
    <2>3. /\ operations' \in Seq(Ops) /\ Len(operations') = Len(operations) - 1
          /\ \A j \in 1..(Len(operations) - 1) :
                 operations'[j] = IF j < e THEN operations[j] ELSE operations[j + 1]
      BY <1>1, <2>1, <2>2, Removed
    <2>4. DOMAIN operations' = 1..(Len(operations) - 1)
      BY <2>3, LenProperties
    <2>5. PICK at : at = [j \in 1..(Len(operations) - 1) |-> IF j < e THEN j ELSE j + 1]
      OBVIOUS
    <2>6. \A j \in 1..(Len(operations) - 1) : /\ at[j] \in 1..Len(operations) /\ at[j] # e
                                              /\ operations'[j] = operations[at[j]]
      BY <1>1, <2>2, <2>3, <2>5
    <2>7. \A j, m \in 1..(Len(operations) - 1) : at[j] = at[m] => j = m
      BY <1>1, <2>2, <2>5
    <2>8. \A n \in 1..Len(operations) : n # e => \E j \in 1..(Len(operations) - 1) : at[j] = n
      <3> SUFFICES ASSUME NEW n \in 1..Len(operations), n # e
                   PROVE  \E j \in 1..(Len(operations) - 1) : at[j] = n
        OBVIOUS
      <3>1. CASE n < e
        <4>1. n \in 1..(Len(operations) - 1) /\ at[n] = n
          BY <1>1, <2>2, <2>5, <3>1
        <4> QED BY <4>1
      <3>2. CASE ~(n < e)
        <4>1. n - 1 \in 1..(Len(operations) - 1) /\ ~(n - 1 < e) /\ (n - 1) + 1 = n
          BY <1>1, <2>2, <3>2
        <4>2. at[n - 1] = n
          BY <2>5, <4>1
        <4> QED BY <4>1, <4>2
      <3> QED BY <3>1, <3>2
    <2>9. \A n \in 1..Len(operations) : n # e => operations[n] # o
      BY <1>2, <1>9, <2>2
    <2>10. \A j \in 1..(Len(operations) - 1) : ops'[operations'[j]].pc \notin {"idle", "failed"}
      <3> TAKE j \in 1..(Len(operations) - 1)
      <3>1. PICK p \in Ops : p = operations'[j] /\ p # o /\ Alive(p)
        BY <1>1, <1>10, <2>6, <2>9
      <3>2. ops'[p] = ops[p]
        BY <1>6, <3>1
      <3> QED BY <3>1, <3>2 DEF Alive
    <2>11. \A j, m \in 1..(Len(operations) - 1) :
               ops'[operations'[j]].key = ops'[operations'[m]].key => j = m
      <3> TAKE j, m \in 1..(Len(operations) - 1)
      <3>1. /\ operations'[j] = operations[at[j]] /\ operations[at[j]] \in Ops /\ at[j] \in 1..Len(operations)
            /\ operations'[m] = operations[at[m]] /\ operations[at[m]] \in Ops /\ at[m] \in 1..Len(operations)
        BY <1>1, <2>6
      <3>2. /\ ops'[operations'[j]].key = ops[operations[at[j]]].key
            /\ ops'[operations'[m]].key = ops[operations[at[m]]].key
        BY <3>1, <1>8
      <3>3. ops[operations[at[j]]].key = ops[operations[at[m]]].key => at[j] = at[m]
        BY <3>1, <1>9
      <3> QED BY <3>2, <3>3, <2>7
    <2>12. \A p \in Ops : Alive(p)' /\ ops'[p].key \notin evicted' => p \in Remembered'
      <3> SUFFICES ASSUME NEW p \in Ops, Alive(p)', ops'[p].key \notin evicted
                   PROVE  \E j \in 1..(Len(operations) - 1) : operations'[j] = p
        BY <2>4 DEF Remembered
      <3>1. p # o /\ Alive(p) /\ ops[p].key \notin evicted
        BY <1>7, <1>8
      <3>2. PICK n \in 1..Len(operations) : operations[n] = p
        BY <1>11, <3>1
      <3>3. n # e
        <4>1. SUFFICES ASSUME n = e PROVE FALSE
          OBVIOUS
        <4>2. ops[o].key \notin evicted
          BY <1>2, <2>2, <3>1, <3>2, <4>1
        <4>3. PICK m \in 1..Len(operations) : operations[m] = o
          BY <1>11, <4>2
        <4> QED BY <1>2, <2>2, <2>9, <3>1, <3>2, <4>1, <4>3
      <3>4. PICK j \in 1..(Len(operations) - 1) : at[j] = n
        BY <2>8, <3>3
      <3> QED BY <2>6, <3>2, <3>4
    <2>13. \A p \in Ops : ops'[p].pc \notin {"idle", "failed"} /\ ops'[p].key \notin evicted' => p \in Remembered'
      BY <2>12 DEF Alive
    <2> QED BY <1>6, <2>3, <2>4, <2>10, <2>11, <2>13 DEF EntriesOK, Alive
  <1> QED BY <1>12, <1>13

(* An operation that goes on keeps its key and its entry. *)
LEMMA GoesKeeps ==
    ASSUME EntriesOK, NEW o \in Ops, Alive(o), NEW pc \in {"active", "submit", "submitted"}, Goes(o, pc),
           UNCHANGED <<operations, evicted>>
    PROVE  EntriesOK'
  <1>1. PICK old \in Operation : old = ops[o]
    BY DEF EntriesOK
  <1>2. PICK op \in Operation : op = [old EXCEPT !.pc = pc]
    BY DEF Operation
  <1>3. op.key = old.key /\ op.pc = pc
    BY <1>2 DEF Operation
  <1>4. ops' = [ops EXCEPT ![o] = op]
    BY <1>1, <1>2 DEF Goes
  <1>5. /\ ops' \in [Ops -> Operation] /\ ops'[o] = op
        /\ \A p \in Ops : p # o => ops'[p] = ops[p]
    BY <1>4 DEF EntriesOK
  <1>6. \A p \in Ops : Alive(p)' = Alive(p) /\ ops'[p].key = ops[p].key
    BY <1>1, <1>3, <1>5 DEF Alive
  <1>7. \A n \in DOMAIN operations : operations[n] \in Ops
    BY EntriesAre DEF EntriesOK
  <1>8. \A n \in DOMAIN operations : Alive(operations[n])'
    BY <1>6, <1>7 DEF EntriesOK, Alive
  <1>9. \A m, n \in DOMAIN operations : ops'[operations[m]].key = ops'[operations[n]].key => m = n
    BY <1>6, <1>7 DEF EntriesOK
  <1>10. \A p \in Ops : Alive(p)' /\ ops'[p].key \notin evicted => p \in Remembered
    BY <1>6 DEF EntriesOK
  <1> QED BY <1>5, <1>8, <1>9, <1>10 DEF EntriesOK, Remembered

(* What the relayer's own steps are to its operations. *)
LEMMA EntriesStep ==
    ASSUME EntriesOK, signed \subseteq Intents, [Next]_vars
    PROVE  EntriesOK'
  <1>1. ASSUME NEW i \in signed, NEW o \in Ops, NEW k \in Keys, NEW genuine \in BOOLEAN,
               Relay(o, k, i, genuine)
        PROVE  EntriesOK'
    BY <1>1, RelayKeeps
  <1>2. ASSUME NEW o \in Ops, StatusRead(o) PROVE EntriesOK'
    <2>1. Alive(o)
      BY <1>2 DEF StatusRead, Alive
    <2>2. UNCHANGED <<operations, evicted>> /\ (Goes(o, "active") \/ Goes(o, "submit"))
      BY <1>2 DEF StatusRead
    <2> QED BY <2>1, <2>2, GoesKeeps
  <1>3. ASSUME NEW o \in Ops, Submit(o) PROVE EntriesOK'
    <2>1. Alive(o)
      BY <1>3 DEF Submit, Alive
    <2>2. UNCHANGED <<operations, evicted>> /\ Goes(o, "submitted")
      BY <1>3 DEF Submit
    <2> QED BY <2>1, <2>2, GoesKeeps
  <1>4. ASSUME NEW o \in Ops, StatusFails(o) \/ SubmitFails(o) PROVE EntriesOK'
    <2>1. Alive(o)
      BY <1>4 DEF StatusFails, SubmitFails, Alive
    <2>2. evicted' = evicted /\ Fails(o)
      BY <1>4 DEF StatusFails, SubmitFails
    <2> QED BY <2>1, <2>2, FailsKeeps
  <1>5. CASE Restart
    <2>1. ops' = [o \in Ops |-> NoOp] /\ operations' = <<>>
      BY <1>5 DEF Restart
    <2> QED BY <2>1, EmptySeq DEF EntriesOK, NoOp, Operation, Alive
  <1>6. ASSUME UNCHANGED <<ops, operations, evicted>> PROVE EntriesOK'
    BY <1>6 DEF EntriesOK, Alive, Remembered
  <1>7. CASE Mine \/ Gone \/ UNCHANGED vars
    BY <1>6, <1>7 DEF Mine, Gone, vars, relayerVars
  <1>8. ASSUME NEW i \in signed, RegisterSelf(i) PROVE EntriesOK'
    BY <1>6, <1>8 DEF RegisterSelf, relayerVars
  <1>9. CASE Environment /\ UNCHANGED relayerVars
    BY <1>6, <1>9 DEF relayerVars
  <1> QED BY <1>1, <1>2, <1>3, <1>4, <1>5, <1>7, <1>8, <1>9 DEF Next

-----------------------------------------------------------------------------
(* A token was minted for its owner's intent. *)
OwnersSigned == \A t \in Tokens : owners[t] # NoHolder => intentOf[t].holder = owners[t]

LedgerInv == SbtTypeOK /\ OneActiveCredential /\ IntentInvariant /\ OwnersSigned

(* Whoever signs, and whatever is registered, revoked or burned. *)
LedgerMoves ==
    \/ [SbtNext]_sbtVars
    \/ /\ UNCHANGED <<now, earlyPolicies, tokenVars>>
       /\ signed \subseteq signed' /\ signed' \subseteq Intents

(* The contract and its history start so. *)
LEMMA LedgerStart == SbtInit => LedgerInv
  <1> SUFFICES ASSUME SbtInit PROVE LedgerInv
    OBVIOUS
  <1>1. SbtTypeOK
    BY TypeInit
  <1>2. OneActiveCredential
    BY SupporterAssumption DEF SbtInit, OneActiveCredential, NoCredential, Tokens
  <1>3. IntentInvariant
    BY DEF SbtInit, IntentInvariant, NoncesAreSpent, IntentMintsOnce, CredentialsWereSigned
  <1>4. OwnersSigned
    BY DEF SbtInit, OwnersSigned
  <1> QED BY <1>1, <1>2, <1>3, <1>4 DEF LedgerInv

LEMMA OwnersStep == SbtTypeOK /\ OwnersSigned /\ [SbtNext]_sbtVars => OwnersSigned'
  <1> SUFFICES ASSUME SbtTypeOK, OwnersSigned, [SbtNext]_sbtVars, NEW u \in Tokens, owners'[u] # NoHolder
               PROVE  intentOf'[u].holder = owners'[u]
    BY DEF OwnersSigned
  <1>1. CASE UNCHANGED tokenVars
    BY <1>1 DEF tokenVars, OwnersSigned
  <1>2. ASSUME NEW t \in Tokens, Revoke(t) \/ Burn(t) PROVE intentOf'[u].holder = owners'[u]
    <2>1. intentOf' = intentOf /\ owners' \in {owners, [owners EXCEPT ![t] = NoHolder]}
      BY <1>2, EndWrites
    <2>2. owners'[u] = owners[u]
      BY <2>1 DEF SbtTypeOK
    <2> QED BY <2>1, <2>2 DEF OwnersSigned
  <1>3. ASSUME NEW i \in signed, RegisterSupporterWithSignature(i) PROVE intentOf'[u].holder = owners'[u]
    <2>1. CASE u = nextTokenId
      BY <1>3, <2>1, RegisterWrites
    <2>2. CASE u # nextTokenId
      BY <1>3, <2>2, RegisterWrites DEF OwnersSigned
    <2> QED BY <2>1, <2>2
  <1> QED BY <1>1, <1>2, <1>3, StepKinds

(* Signatures made anywhere change nothing but what may be registered.      *)
LEMMA LedgerStep == LedgerInv /\ LedgerMoves => LedgerInv'
  <1> SUFFICES ASSUME LedgerInv, LedgerMoves PROVE LedgerInv'
    OBVIOUS
  <1>1. CASE [SbtNext]_sbtVars
    BY <1>1, TypeStep, ActiveStep, IntentStep, OwnersStep DEF LedgerInv
  <1>2. CASE /\ UNCHANGED <<now, earlyPolicies, tokenVars>>
             /\ signed \subseteq signed' /\ signed' \subseteq Intents
    <2>1. SbtTypeOK'
      BY <1>2 DEF LedgerInv, SbtTypeOK, tokenVars
    <2>2. OneActiveCredential'
      BY <1>2 DEF LedgerInv, OneActiveCredential, tokenVars
    <2>3. IntentInvariant'
      BY <1>2 DEF LedgerInv, IntentInvariant, NoncesAreSpent, IntentMintsOnce, CredentialsWereSigned, tokenVars
    <2>4. OwnersSigned'
      BY <1>2 DEF LedgerInv, OwnersSigned, tokenVars
    <2> QED BY <2>1, <2>2, <2>3, <2>4 DEF LedgerInv
  <1> QED BY <1>1, <1>2 DEF LedgerMoves

(* Only a token that was minted has an intent. *)
LEMMA MintedTokens ==
    ASSUME LedgerInv, NEW t \in Tokens, intentOf[t].holder \in Holders
    PROVE  /\ t \in 1..(nextTokenId - 1) /\ intentOf[t] \in signed
           /\ credentials[t].creator = intentOf[t].creator
  <1>1. t < nextTokenId
    BY SupporterAssumption DEF LedgerInv, SbtTypeOK, NoIntent, Tokens
  <1>2. t \in 1..(nextTokenId - 1)
    BY <1>1 DEF LedgerInv, SbtTypeOK, Tokens
  <1> QED BY <1>2 DEF LedgerInv, IntentInvariant, CredentialsWereSigned

(* What activeTokenOf answers was minted for that holder and creator.       *)
LEMMA ActiveTokens ==
    ASSUME LedgerInv, NEW c \in Creators, NEW h \in Holders, activeTokenOf[c][h] # 0
    PROVE  /\ activeTokenOf[c][h] \in Tokens
           /\ intentOf[activeTokenOf[c][h]] \in signed
           /\ intentOf[activeTokenOf[c][h]].holder = h /\ intentOf[activeTokenOf[c][h]].creator = c
  <1>1. PICK t \in Tokens : t = activeTokenOf[c][h]
    BY DEF LedgerInv, SbtTypeOK
  <1>2. credentials[t].creator = c /\ owners[t] = h
    BY <1>1 DEF LedgerInv, OneActiveCredential
  <1>3. intentOf[t].holder = h
    BY <1>2, SupporterAssumption DEF LedgerInv, OwnersSigned
  <1>4. intentOf[t] \in signed /\ intentOf[t].creator = c
    BY <1>2, <1>3, MintedTokens
  <1> QED BY <1>1, <1>3, <1>4

(* The intent of a token stays. *)
LEMMA IntentsStay ==
    ASSUME LedgerInv, LedgerMoves, NEW t \in Tokens, intentOf[t] \in signed
    PROVE  intentOf'[t] = intentOf[t] /\ intentOf[t] \in signed'
  <1>1. intentOf[t].holder \in Holders
    BY DEF LedgerInv, SbtTypeOK, Intents
  <1>2. t # nextTokenId
    BY <1>1, MintedTokens DEF LedgerInv, SbtTypeOK
  <1>3. CASE UNCHANGED tokenVars /\ signed \subseteq signed'
    BY <1>3 DEF tokenVars
  <1>4. ASSUME NEW u \in Tokens, Revoke(u) \/ Burn(u) PROVE intentOf' = intentOf /\ signed' = signed
    BY <1>4, EndWrites DEF LedgerInv
  <1>5. ASSUME NEW i \in signed, RegisterSupporterWithSignature(i)
        PROVE  intentOf'[t] = intentOf[t] /\ signed' = signed
    <2>1. signed' = signed
      BY <1>5 DEF RegisterSupporterWithSignature
    <2> QED BY <1>2, <1>5, <2>1, RegisterWrites DEF LedgerInv
  <1>6. CASE [SbtNext]_sbtVars
    BY <1>3, <1>4, <1>5, <1>6, StepKinds
  <1> QED BY <1>3, <1>6 DEF LedgerMoves

-----------------------------------------------------------------------------
(* What was sent to the chain was signed by its holder. *)
OpsOK ==
    \A o \in Ops :
        \/ ops[o].pc = "status" /\ ops[o].genuine
        \/ ops[o].pc \in {"active", "submit", "submitted"}
        => ops[o].intent \in signed

(* A request arrives genuine only with what its holder signed.              *)
LEMMA OpsRelay ==
    ASSUME EntriesOK, OpsOK, NEW o \in Ops, NEW k, NEW i, NEW genuine, Relay(o, k, i, genuine),
           genuine => i \in signed
    PROVE  OpsOK'
  <1>1. signed' = signed
    BY DEF Relay, sbtVars
  <1>2. PICK op : op = [pc |-> "status", key |-> <<i.holder, k>>, intent |-> i, genuine |-> genuine]
    OBVIOUS
  <1>3. op.pc = "status" /\ op.intent = i /\ op.genuine = genuine
    BY <1>2
  <1>4. ops' = [ops EXCEPT ![o] = op]
    BY <1>2 DEF Relay
  <1>5. ops'[o] = op /\ \A p \in Ops : p # o => ops'[p] = ops[p]
    BY <1>4 DEF EntriesOK
  <1>6. ASSUME NEW p \in Ops, \/ ops'[p].pc = "status" /\ ops'[p].genuine
                              \/ ops'[p].pc \in {"active", "submit", "submitted"}
        PROVE  ops'[p].intent \in signed
    <2>1. CASE p = o
      BY <1>3, <1>5, <1>6, <2>1
    <2>2. CASE p # o
      BY <1>5, <1>6, <2>2 DEF OpsOK
    <2> QED BY <2>1, <2>2
  <1> QED BY <1>1, <1>6 DEF OpsOK

(* Only a genuine request goes on. *)
LEMMA OpsGo ==
    ASSUME EntriesOK, OpsOK, signed' = signed, NEW o \in Ops, NEW pc, Goes(o, pc),
           \/ pc = "failed"
           \/ ops[o].pc = "status" /\ ops[o].genuine
           \/ ops[o].pc = "submit"
    PROVE  OpsOK'
  <1>1. PICK old \in Operation : old = ops[o]
    BY DEF EntriesOK
  <1>2. PICK op : op = [old EXCEPT !.pc = pc]
    OBVIOUS
  <1>3. op.pc = pc /\ op.intent = old.intent
    BY <1>1, <1>2 DEF Operation
  <1>4. ops' = [ops EXCEPT ![o] = op]
    BY <1>1, <1>2 DEF Goes
  <1>5. ops'[o] = op /\ \A p \in Ops : p # o => ops'[p] = ops[p]
    BY <1>4 DEF EntriesOK
  <1>6. pc = "failed" \/ old.intent \in signed
    BY <1>1 DEF OpsOK
  <1>7. ASSUME NEW p \in Ops, \/ ops'[p].pc = "status" /\ ops'[p].genuine
                              \/ ops'[p].pc \in {"active", "submit", "submitted"}
        PROVE  ops'[p].intent \in signed
    <2>1. CASE p = o
      BY <1>3, <1>5, <1>6, <1>7, <2>1
    <2>2. CASE p # o
      BY <1>5, <1>7, <2>2 DEF OpsOK
    <2> QED BY <2>1, <2>2
  <1> QED BY <1>7 DEF OpsOK

(* No step of the relayer, of a client or of the contract makes it false.   *)
LEMMA OpsStep ==
    ASSUME EntriesOK, OpsOK, LedgerInv, [Next]_vars
    PROVE  OpsOK' /\ LedgerMoves
  <1>1. [SbtNext]_sbtVars
    BY RelayerMoves
  <1>2. signed \subseteq signed'
    <2>1. ASSUME NEW t \in Tokens, Revoke(t) \/ Burn(t) PROVE signed' = signed
      BY <2>1 DEF Revoke, Burn
    <2>2. ASSUME NEW i \in signed, RegisterSupporterWithSignature(i) PROVE signed' = signed
      BY <2>2 DEF RegisterSupporterWithSignature
    <2> QED BY <1>1, <2>1, <2>2, StepKinds
  <1>3. ASSUME ops' = ops PROVE OpsOK'
    BY <1>2, <1>3 DEF OpsOK
  <1>4. ASSUME NEW i \in signed, NEW o \in Ops, NEW k \in Keys, NEW genuine \in BOOLEAN,
               Relay(o, k, i, genuine)
        PROVE  OpsOK'
    BY <1>4, OpsRelay
  <1>5. ASSUME NEW o \in Ops, StatusRead(o) PROVE OpsOK'
    <2>1. signed' = signed /\ ops[o].pc = "status" /\ ops[o].genuine /\ (Goes(o, "active") \/ Goes(o, "submit"))
      BY <1>5 DEF StatusRead, sbtVars
    <2> QED BY <2>1, OpsGo
  <1>6. ASSUME NEW o \in Ops, Submit(o) PROVE OpsOK'
    <2>1. signed' = signed /\ ops[o].pc = "submit" /\ Goes(o, "submitted")
      BY <1>6 DEF Submit, sbtVars
    <2> QED BY <2>1, OpsGo
  <1>7. ASSUME NEW o \in Ops, StatusFails(o) \/ SubmitFails(o) PROVE OpsOK'
    <2>1. signed' = signed /\ Goes(o, "failed")
      BY <1>7 DEF StatusFails, SubmitFails, Fails, sbtVars
    <2> QED BY <2>1, OpsGo
  <1>8. ASSUME Restart PROVE OpsOK'
    <2>1. ops' = [o \in Ops |-> NoOp]
      BY <1>8 DEF Restart
    <2>2. \A o \in Ops : ops'[o].pc = "idle"
      BY <2>1 DEF NoOp
    <2> QED BY <2>2 DEF OpsOK
  <1>9. ASSUME Mine \/ Gone \/ UNCHANGED vars PROVE OpsOK'
    BY <1>3, <1>9 DEF Mine, Gone, vars, relayerVars
  <1>10. ASSUME NEW i \in signed, RegisterSelf(i) PROVE OpsOK'
    BY <1>3, <1>10 DEF RegisterSelf, relayerVars
  <1>11. ASSUME UNCHANGED relayerVars PROVE OpsOK'
    BY <1>3, <1>11 DEF relayerVars
  <1> QED BY <1>1, <1>4, <1>5, <1>6, <1>7, <1>8, <1>9, <1>10, <1>11 DEF Next, LedgerMoves

-----------------------------------------------------------------------------
(* A token that the page shows, or has read, was minted for one of its     *)
(* wallets and one of its creators.                                         *)
TokenOK(t) == t # 0 => /\ t \in Tokens /\ intentOf[t] \in signed
                       /\ intentOf[t].holder \in met /\ intentOf[t].creator \in met

LookOK(l) ==
    l # NoLook => /\ l.then \in {"nothing", "receipt", "active"}
                  /\ l.pc = "start" => l.holder \in Holders /\ l.holder \in met
                  /\ l.pc = "read" => TokenOK(l.token)

LooksOK == looks = [f \in Looks |-> looks[f]] /\ \A f \in Looks : LookOK(looks[f])

ChoiceOK ==
    /\ holder \in Holders \cup {NoHolder} /\ (holder # NoHolder => holder \in met)
    /\ target \in Creators \cup {NoCreator} /\ (target # NoCreator => target \in met)

SubmittedOK == submitted # NoIntent => submitted \in signed /\ submitted.holder \in met

RequestOK ==
    /\ RequestIs("nonce") => /\ request.holder \in Holders /\ request.creator \in Creators
                             /\ request.creator \in met
    /\ \A pc \in {"signing", "signed", "relayed", "receipt"} : RequestIs(pc) =>
           /\ request.intent \in Intents
           /\ request.intent.holder \in met /\ request.intent.creator \in met
    /\ RequestIs("signed") => request.genuine \in BOOLEAN /\ (request.genuine => request.intent \in signed)
    /\ RequestIs("relayed") => request.op \in Ops

PageOK == ChoiceOK /\ TokenOK(token) /\ SubmittedOK /\ LooksOK /\ RequestOK

RegistrationInv == LedgerInv /\ EntriesOK /\ OpsOK /\ PageOK

(* The page starts with nothing to tell. *)
LEMMA RegistrationStart == Init /\ SupporterPageInit => RegistrationInv
  <1> SUFFICES ASSUME Init, SupporterPageInit PROVE RegistrationInv
    OBVIOUS
  <1>1. LedgerInv /\ EntriesOK
    BY LedgerStart, EntriesStart DEF Init
  <1>2. OpsOK
    BY DEF Init, OpsOK, NoOp
  <1>3. PageOK
    BY DEF SupporterPageInit, PageOK, ChoiceOK, TokenOK, SubmittedOK, LooksOK, LookOK, RequestOK, RequestIs
  <1> QED BY <1>1, <1>2, <1>3 DEF RegistrationInv

(* What a step leaves true of a token, a look and a request.                *)
LEMMA TokensStay ==
    ASSUME LedgerInv, LedgerMoves, met \subseteq met', NEW t, TokenOK(t)
    PROVE  TokenOK(t)'
  BY IntentsStay DEF TokenOK

(* What was signed stays signed. *)
LEMMA SignedGrows == ASSUME LedgerMoves PROVE signed \subseteq signed'
  <1>1. ASSUME NEW t \in Tokens, Revoke(t) \/ Burn(t) PROVE signed' = signed
    BY <1>1 DEF Revoke, Burn
  <1>2. ASSUME NEW i \in signed, RegisterSupporterWithSignature(i) PROVE signed' = signed
    BY <1>2 DEF RegisterSupporterWithSignature
  <1> QED BY <1>1, <1>2, StepKinds DEF LedgerMoves

LEMMA LooksStay ==
    ASSUME LedgerInv, LedgerMoves, met \subseteq met', NEW l, LookOK(l)
    PROVE  LookOK(l)'
  <1>1. l # NoLook /\ l.pc = "read" => TokenOK(l.token)'
    BY TokensStay DEF LookOK
  <1> QED BY <1>1 DEF LookOK

LEMMA AllLooksStay ==
    ASSUME LedgerInv, LedgerMoves, met \subseteq met', LooksOK, looks' = looks
    PROVE  LooksOK'
  <1>1. ASSUME NEW f \in Looks PROVE LookOK(looks[f])'
    <2>1. PICK l : l = looks[f]
      OBVIOUS
    <2>2. LookOK(l)'
      BY <2>1, LooksStay DEF LooksOK
    <2> QED BY <2>1, <2>2 DEF LookOK, TokenOK
  <1> QED BY <1>1 DEF LooksOK

(* A step that changes one look keeps the others. *)
LEMMA LookSet ==
    ASSUME LedgerInv, LedgerMoves, met \subseteq met', LooksOK, NEW f \in Looks, NEW l, Look(f, l), LookOK(l)'
    PROVE  LooksOK'
  <1>1. /\ looks' = [g \in Looks |-> looks'[g]] /\ looks'[f] = l
        /\ \A g \in Looks : g # f => looks'[g] = looks[g]
    BY DEF Look, LooksOK
  <1>2. ASSUME NEW g \in Looks PROVE LookOK(looks[g])'
    <2>1. PICK m : m = looks'[g]
      OBVIOUS
    <2>2. LookOK(m)'
      <3>1. CASE g = f
        BY <1>1, <2>1, <3>1
      <3>2. CASE g # f
        BY <1>1, <2>1, <3>2, LooksStay DEF LooksOK
      <3> QED BY <3>1, <3>2
    <2> QED BY <2>1, <2>2 DEF LookOK, TokenOK
  <1> QED BY <1>1, <1>2 DEF LooksOK

(* A request under way stays what it was. *)
LEMMA RequestStays ==
    ASSUME LedgerMoves, met \subseteq met', RequestOK, request' = request
    PROVE  RequestOK'
  <1>1. signed \subseteq signed'
    BY SignedGrows
  <1>2. \A pc : RequestIs(pc)' = RequestIs(pc)
    BY DEF RequestIs
  <1>3. \A pc \in {"signing", "signed", "relayed", "receipt"} : RequestIs(pc)' =>
           /\ request'.intent \in Intents
           /\ request'.intent.holder \in met' /\ request'.intent.creator \in met'
    BY <1>2 DEF RequestOK
  <1>4. RequestIs("nonce")' => request'.holder \in Holders /\ request'.creator \in Creators /\ request'.creator \in met'
    BY <1>2 DEF RequestOK
  <1>5. RequestIs("signed")' => request'.genuine \in BOOLEAN /\ (request'.genuine => request'.intent \in signed')
    BY <1>1, <1>2 DEF RequestOK
  <1>6. RequestIs("relayed")' => request'.op \in Ops
    BY <1>2 DEF RequestOK
  <1> QED BY <1>3, <1>4, <1>5, <1>6 DEF RequestOK

LEMMA NoRequest == ASSUME request' = NoLook PROVE RequestOK'
  BY DEF RequestOK, RequestIs

LEMMA LookingRequest == ASSUME request' = [pc |-> "looking"] PROVE RequestOK'
  <1>1. request'.pc = "looking"
    OBVIOUS
  <1> QED BY <1>1 DEF RequestOK, RequestIs

LEMMA SubmittedStays ==
    ASSUME LedgerMoves, met \subseteq met', SubmittedOK, submitted' = submitted
    PROVE  SubmittedOK'
  BY SignedGrows DEF SubmittedOK

(* A step of the relayer, of the contract or of another client.            *)
LEMMA OthersKeep ==
    ASSUME RegistrationInv, [Next]_vars, UNCHANGED supporterPageVars
    PROVE  RegistrationInv'
  <1>1. LedgerMoves /\ OpsOK'
    BY OpsStep DEF RegistrationInv
  <1>2. LedgerInv'
    BY <1>1, LedgerStep DEF RegistrationInv
  <1>3. EntriesOK'
    BY EntriesStep DEF RegistrationInv, LedgerInv, SbtTypeOK
  <1>4. UNCHANGED <<holder, target, token, submitted, looks, request, met>>
    BY DEF supporterPageVars
  <1>5. ChoiceOK'
    BY <1>4 DEF RegistrationInv, PageOK, ChoiceOK
  <1>6. TokenOK(token)'
    <2>1. PICK t : t = token
      OBVIOUS
    <2>2. TokenOK(t)'
      BY <1>1, <1>4, <2>1, TokensStay DEF RegistrationInv, PageOK
    <2> QED BY <1>4, <2>1, <2>2 DEF TokenOK
  <1>7. SubmittedOK'
    BY <1>1, <1>4, SubmittedStays DEF RegistrationInv, PageOK
  <1>8. LooksOK'
    BY <1>1, <1>4, AllLooksStay DEF RegistrationInv, PageOK
  <1>9. RequestOK'
    BY <1>1, <1>4, RequestStays DEF RegistrationInv, PageOK
  <1> QED BY <1>1, <1>2, <1>3, <1>5, <1>6, <1>7, <1>8, <1>9 DEF RegistrationInv, PageOK

(* A step of the page that leaves the rest alone.                           *)
LEMMA PageAlone ==
    ASSUME RegistrationInv, UNCHANGED vars
    PROVE  LedgerInv' /\ EntriesOK' /\ OpsOK' /\ LedgerMoves
  <1>1. [Next]_vars
    OBVIOUS
  <1>2. LedgerMoves /\ OpsOK'
    BY <1>1, OpsStep DEF RegistrationInv
  <1>3. LedgerInv'
    BY <1>2, LedgerStep DEF RegistrationInv
  <1>4. EntriesOK'
    BY <1>1, EntriesStep DEF RegistrationInv, LedgerInv, SbtTypeOK
  <1> QED BY <1>2, <1>3, <1>4

(* What the page's step does to what it shows. *)
LEMMA TokenStays ==
    ASSUME LedgerInv, LedgerMoves, met \subseteq met', TokenOK(token), token' \in {token, 0}
    PROVE  TokenOK(token)'
  <1>1. CASE token' = 0
    BY <1>1 DEF TokenOK
  <1>2. CASE token' = token
    <2>1. PICK t : t = token
      OBVIOUS
    <2>2. TokenOK(t)'
      BY <2>1, TokensStay
    <2> QED BY <1>2, <2>1, <2>2 DEF TokenOK
  <1> QED BY <1>1, <1>2

(* A look is started for a wallet of the page. *)
LEMMA NewLook ==
    ASSUME LedgerInv, LedgerMoves, met \subseteq met', LooksOK, NEW f \in Looks, NEW h \in Holders, h \in met',
           NEW then \in {"nothing", "receipt", "active"}, StartLook(f, h, then)
    PROVE  LooksOK'
  <1>1. PICK l : l = [pc |-> "start", holder |-> h, then |-> then]
    OBVIOUS
  <1>2. l.pc = "start" /\ l.holder = h /\ l.then = then
    BY <1>1
  <1>3. LookOK(l)'
    BY <1>2 DEF LookOK
  <1>4. Look(f, l)
    BY <1>1 DEF StartLook
  <1> QED BY <1>3, <1>4, LookSet

(* The wallet or the choice changes, or the page looks again. *)
LEMMA ChoiceKeeps ==
    ASSUME RegistrationInv, NEW f \in Looks,
           \/ \E h \in Holders \cup {NoHolder} : HolderChanged(f, h)
           \/ \E c \in Creators : SelectSupportTarget(f, c)
           \/ LookAgain(f)
    PROVE  RegistrationInv'
  <1> USE DEF RegistrationInv, PageOK
  <1>1. UNCHANGED vars
    BY DEF HolderChanged, SelectSupportTarget, LookAgain
  <1>2. LedgerInv' /\ EntriesOK' /\ OpsOK' /\ LedgerMoves
    BY <1>1, PageAlone
  <1>3. ASSUME NEW h \in Holders \cup {NoHolder}, HolderChanged(f, h) PROVE PageOK'
    <2>1. holder' = h /\ target' = target /\ met' = met \cup ({h, target} \ {NoHolder, NoCreator})
      BY <1>3 DEF HolderChanged, Meets
    <2>2. met \subseteq met' /\ (h # NoHolder => h \in Holders /\ h \in met')
      BY <2>1, SupporterAssumption, SupporterPageAssumption
    <2>3. ChoiceOK'
      BY <2>1, <2>2 DEF ChoiceOK
    <2>4. token' \in {token, 0} /\ request' = request /\ submitted' \in {submitted, NoIntent}
      BY <1>3 DEF HolderChanged, SupporterCleared
    <2>5. TokenOK(token)'
      BY <1>2, <2>2, <2>4, TokenStays
    <2>6. SubmittedOK'
      BY <1>2, <2>2, <2>4, SubmittedStays DEF SubmittedOK
    <2>7. RequestOK'
      BY <1>2, <2>2, <2>4, RequestStays
    <2>8. LooksOK'
      <3>1. CASE h # NoHolder
        BY <1>2, <1>3, <2>2, <3>1, NewLook DEF HolderChanged
      <3>2. CASE h = NoHolder
        BY <1>2, <1>3, <2>2, <3>2, AllLooksStay DEF HolderChanged
      <3> QED BY <3>1, <3>2
    <2> QED BY <2>3, <2>5, <2>6, <2>7, <2>8
  <1>4. ASSUME NEW c \in Creators, SelectSupportTarget(f, c) PROVE PageOK'
    <2>1. holder' = holder /\ target' = c /\ met' = met \cup ({holder, c} \ {NoHolder, NoCreator})
      BY <1>4 DEF SelectSupportTarget, Meets
    <2>2. met \subseteq met' /\ c \in met'
      BY <2>1, SupporterAssumption, SupporterPageAssumption
    <2>3. ChoiceOK'
      BY <2>1, <2>2 DEF ChoiceOK
    <2>4. token' = 0 /\ request' = request /\ submitted' = NoIntent
      BY <1>4 DEF SelectSupportTarget, SupporterCleared
    <2>5. TokenOK(token)' /\ SubmittedOK'
      BY <2>4 DEF TokenOK, SubmittedOK
    <2>6. RequestOK'
      BY <1>2, <2>2, <2>4, RequestStays
    <2>7. LooksOK'
      <3>1. CASE holder # NoHolder
        <4>1. holder \in Holders /\ holder \in met' /\ StartLook(f, holder, "nothing")
          BY <1>4, <2>2, <3>1 DEF ChoiceOK, SelectSupportTarget
        <4> QED BY <1>2, <2>2, <4>1, NewLook
      <3>2. CASE holder = NoHolder
        BY <1>2, <1>4, <2>2, <3>2, AllLooksStay DEF SelectSupportTarget
      <3> QED BY <3>1, <3>2
    <2> QED BY <2>3, <2>5, <2>6, <2>7
  <1>5. CASE LookAgain(f)
    <2>1. UNCHANGED <<holder, target, token, submitted, request, met>>
      BY <1>5 DEF LookAgain
    <2>2. holder \in Holders /\ holder \in met' /\ StartLook(f, holder, "nothing")
      BY <1>5, <2>1 DEF LookAgain, ChoiceOK
    <2>3. LooksOK'
      BY <1>2, <2>1, <2>2, NewLook
    <2>4. ChoiceOK' /\ TokenOK(token)' /\ SubmittedOK' /\ RequestOK'
      BY <1>2, <2>1, TokenStays, SubmittedStays, RequestStays DEF ChoiceOK
    <2> QED BY <1>2, <2>3, <2>4
  <1> QED BY <1>2, <1>3, <1>4, <1>5

(* A look reads the chain or ends, for a choice that may be another by now. *)
LEMMA LooksKeep ==
    ASSUME RegistrationInv, NEW f \in Looks, TokenRead(f) \/ TokenShown(f) \/ LookFails(f)
    PROVE  RegistrationInv'
  <1> USE DEF RegistrationInv, PageOK
  <1>1. UNCHANGED vars /\ UNCHANGED <<holder, target, submitted, met>> /\ looks[f] # NoLook
    BY DEF TokenRead, TokenShown, LookFails
  <1>2. LedgerInv' /\ EntriesOK' /\ OpsOK' /\ LedgerMoves
    BY <1>1, PageAlone
  <1>3. ChoiceOK' /\ SubmittedOK'
    BY <1>1, <1>2, SubmittedStays DEF ChoiceOK
  <1>4. PICK l : l = looks[f] /\ LookOK(l) /\ l # NoLook
    BY <1>1 DEF LooksOK
  <1>5. LookOK(NoLook)'
    BY DEF LookOK
  <1>6. request' = request \/ request' = NoLook => RequestOK'
    BY <1>1, <1>2, RequestStays, NoRequest
  <1>7. CASE TokenRead(f)
    <2>1. UNCHANGED <<token, request>> /\ target # NoCreator /\ l.pc = "start"
      BY <1>4, <1>7 DEF TokenRead
    <2>2. l.holder \in Holders /\ l.holder \in met /\ target \in Creators /\ target \in met
      BY <1>4, <2>1 DEF LookOK, ChoiceOK
    <2>3. PICK t : t = activeTokenOf[target][l.holder]
      OBVIOUS
    <2>4. TokenOK(t)
      BY <2>2, <2>3, ActiveTokens DEF TokenOK
    <2>5. TokenOK(t)'
      BY <1>1, <1>2, <2>4, TokensStay
    <2>6. PICK new : new = [pc |-> "read", then |-> l.then, token |-> t]
      OBVIOUS
    <2>7. new.pc = "read" /\ new.then = l.then /\ new.token = t
      BY <2>6
    <2>8. LookOK(new)'
      BY <1>4, <2>5, <2>7 DEF LookOK, TokenOK
    <2>9. Look(f, new)
      BY <1>4, <1>7, <2>3, <2>6 DEF TokenRead
    <2>10. LooksOK'
      BY <1>1, <1>2, <2>8, <2>9, LookSet
    <2>11. TokenOK(token)'
      BY <1>1, <1>2, <2>1, TokenStays
    <2> QED BY <1>2, <1>3, <1>6, <2>1, <2>10, <2>11
  <1>8. CASE TokenShown(f)
    <2>1. l.pc = "read" /\ token' = l.token /\ Look(f, NoLook)
      BY <1>4, <1>8 DEF TokenShown
    <2>2. PICK t : t = l.token /\ TokenOK(t)
      BY <1>4, <2>1 DEF LookOK
    <2>3. TokenOK(t)'
      BY <1>1, <1>2, <2>2, TokensStay
    <2>4. TokenOK(token)'
      BY <2>1, <2>2, <2>3 DEF TokenOK
    <2>5. LooksOK'
      BY <1>1, <1>2, <1>5, <2>1, LookSet
    <2>6. request' = request \/ request' = NoLook
      <3>1. CASE l.then = "nothing"
        BY <1>4, <1>8, <3>1 DEF TokenShown, Ended
      <3>2. CASE l.then = "receipt"
        BY <1>4, <1>8, <3>2 DEF TokenShown, Ended
      <3>3. CASE l.then = "active"
        BY <1>4, <1>8, <3>3 DEF TokenShown, Ended
      <3> QED BY <1>4, <3>1, <3>2, <3>3 DEF LookOK
    <2> QED BY <1>2, <1>3, <1>6, <2>4, <2>5, <2>6
  <1>9. CASE LookFails(f)
    <2>1. Look(f, NoLook) /\ token' = token
      BY <1>9 DEF LookFails
    <2>2. LooksOK'
      BY <1>1, <1>2, <1>5, <2>1, LookSet
    <2>3. TokenOK(token)'
      BY <1>1, <1>2, <2>1, TokenStays
    <2>4. request' = request \/ request' = NoLook
      <3>1. CASE l.then = "nothing"
        BY <1>4, <1>9, <3>1 DEF LookFails, Ended
      <3>2. CASE l.then = "receipt"
        BY <1>4, <1>9, <3>2 DEF LookFails, Ended
      <3>3. CASE l.then = "active"
        BY <1>4, <1>9, <3>3 DEF LookFails, Ended
      <3> QED BY <1>4, <3>1, <3>2, <3>3 DEF LookOK
    <2> QED BY <1>2, <1>3, <1>6, <2>2, <2>3, <2>4
  <1> QED BY <1>7, <1>8, <1>9

(* A step of the registration that leaves the relayer and the chain alone. *)
LEMMA RequestKeeps ==
    ASSUME RegistrationInv,
           \/ RegisterAsSupporter \/ SubmittedAnswer \/ NoReceipt \/ RequestFails
           \/ \E lifetime \in Lifetimes : NonceRead(lifetime)
    PROVE  RegistrationInv'
  <1> USE DEF RegistrationInv, PageOK
  <1>1. UNCHANGED vars /\ UNCHANGED <<holder, target, token, looks, met>>
    BY DEF RegisterAsSupporter, SubmittedAnswer, NoReceipt, RequestFails, NonceRead
  <1>2. LedgerInv' /\ EntriesOK' /\ OpsOK' /\ LedgerMoves
    BY <1>1, PageAlone
  <1>3. ChoiceOK' /\ TokenOK(token)' /\ LooksOK'
    BY <1>1, <1>2, TokenStays, AllLooksStay DEF ChoiceOK
  <1>4. submitted' = submitted => SubmittedOK'
    BY <1>1, <1>2, SubmittedStays
  <1>5. CASE RegisterAsSupporter
    <2>1. PICK r : r = [pc |-> "nonce", holder |-> holder, creator |-> target]
      OBVIOUS
    <2>2. request' = r /\ submitted' = submitted /\ holder # NoHolder /\ target # NoCreator
      BY <1>5, <2>1 DEF RegisterAsSupporter
    <2>3. r.pc = "nonce" /\ r.holder = holder /\ r.creator = target
      BY <2>1
    <2>4. holder \in Holders /\ target \in Creators /\ target \in met
      BY <2>2 DEF ChoiceOK
    <2>5. RequestOK'
      BY <1>1, <2>2, <2>3, <2>4 DEF RequestOK, RequestIs
    <2> QED BY <1>2, <1>3, <1>4, <2>2, <2>5
  <1>6. ASSUME NEW lifetime \in Lifetimes, NonceRead(lifetime) PROVE RegistrationInv'
    <2>1. RequestIs("nonce") /\ holder # NoHolder /\ submitted' = submitted
      BY <1>6 DEF NonceRead
    <2>2. /\ request.holder \in Holders /\ request.creator \in Creators /\ request.creator \in met
          /\ holder \in Holders /\ holder \in met
      BY <2>1 DEF RequestOK, ChoiceOK
    <2>3. PICK i : i = [creator |-> request.creator, holder |-> holder, nonce |-> nonces[request.holder],
                        deadline |-> now + lifetime]
      OBVIOUS
    <2>4. nonces[request.holder] \in Nat /\ now + lifetime \in Nat
      BY <2>2, SupporterAssumption DEF LedgerInv, SbtTypeOK
    <2>5. i \in Intents /\ i.holder = holder /\ i.creator = request.creator
      BY <2>2, <2>3, <2>4 DEF Intents
    <2>6. PICK r : r = [pc |-> "signing", intent |-> i]
      OBVIOUS
    <2>7. r.pc = "signing" /\ r.intent = i /\ request' = r
      BY <1>6, <2>3, <2>6 DEF NonceRead
    <2>8. RequestOK'
      BY <1>1, <2>2, <2>5, <2>7 DEF RequestOK, RequestIs
    <2> QED BY <1>2, <1>3, <1>4, <2>1, <2>8
  <1>7. CASE SubmittedAnswer
    <2>1. RequestIs("relayed") /\ ops[request.op].pc = "submitted" /\ ops[request.op].intent = request.intent
      BY <1>7 DEF SubmittedAnswer, Answered
    <2>2. PICK i : i = request.intent
      OBVIOUS
    <2>3. i \in Intents /\ i.holder \in met /\ i.creator \in met /\ i \in signed
      BY <2>1, <2>2 DEF RequestOK, OpsOK
    <2>4. PICK r : r = [pc |-> "receipt", intent |-> i]
      OBVIOUS
    <2>5. r.pc = "receipt" /\ r.intent = i /\ request' = r /\ submitted' = i
      BY <1>7, <2>2, <2>4 DEF SubmittedAnswer
    <2>6. RequestOK'
      BY <1>1, <2>3, <2>5 DEF RequestOK, RequestIs
    <2>7. signed' = signed
      BY <1>1 DEF vars, sbtVars
    <2>8. SubmittedOK'
      BY <1>1, <2>3, <2>5, <2>7 DEF SubmittedOK
    <2> QED BY <1>2, <1>3, <2>6, <2>8
  <1>8. CASE NoReceipt \/ RequestFails
    <2>1. request' = NoLook /\ submitted' = submitted
      BY <1>8 DEF NoReceipt, RequestFails, Ended
    <2> QED BY <1>2, <1>3, <1>4, <2>1, NoRequest
  <1> QED BY <1>5, <1>6, <1>7, <1>8

(* The answer that there is a token already, and the receipt.               *)
LEMMA AnswerKeeps ==
    ASSUME RegistrationInv, NEW f \in Looks, ReceiptRead(f) \/ ActiveAnswer(f)
    PROVE  RegistrationInv'
  <1> USE DEF RegistrationInv, PageOK
  <1>1. UNCHANGED vars /\ UNCHANGED <<holder, target, submitted, met>> /\ request' = [pc |-> "looking"]
    BY DEF ReceiptRead, ActiveAnswer
  <1>2. LedgerInv' /\ EntriesOK' /\ OpsOK' /\ LedgerMoves
    BY <1>1, PageAlone
  <1>3. ChoiceOK' /\ SubmittedOK' /\ RequestOK'
    BY <1>1, <1>2, SubmittedStays, LookingRequest DEF ChoiceOK
  <1>4. LooksOK'
    <2>1. holder \in Holders /\ holder \in met'
      BY <1>1 DEF ReceiptRead, ActiveAnswer, ChoiceOK
    <2>2. StartLook(f, holder, "receipt") \/ StartLook(f, holder, "active")
      BY DEF ReceiptRead, ActiveAnswer
    <2> QED BY <1>1, <1>2, <2>1, <2>2, NewLook
  <1>5. TokenOK(token)'
    <2>1. CASE ReceiptRead(f)
      BY <1>1, <1>2, <2>1, TokenStays DEF ReceiptRead
    <2>2. CASE ActiveAnswer(f)
      <3>1. RequestIs("relayed") /\ token' \in IssuedTo(request.intent.holder, request.intent.creator)
        BY <2>2 DEF ActiveAnswer, Answered
      <3>2. /\ request.intent.holder \in Holders
            /\ request.intent.holder \in met /\ request.intent.creator \in met
        BY <3>1 DEF RequestOK, Intents
      <3>3. PICK t \in Tokens : /\ t = token' /\ intentOf[t].holder = request.intent.holder
                                /\ intentOf[t].creator = request.intent.creator
        BY <3>1 DEF IssuedTo
      <3>4. intentOf[t] \in signed
        BY <3>2, <3>3, MintedTokens
      <3>5. TokenOK(t)
        BY <3>2, <3>3, <3>4 DEF TokenOK
      <3>6. TokenOK(t)'
        BY <1>1, <1>2, <3>5, TokensStay
      <3> QED BY <3>3, <3>6 DEF TokenOK
    <2> QED BY <2>1, <2>2
  <1> QED BY <1>2, <1>3, <1>4, <1>5

(* The request names the wallet of now; it is genuine if that one signed.   *)
LEMMA SigningKeeps ==
    ASSUME RegistrationInv, IntentSigned
    PROVE  RegistrationInv'
  <1> USE DEF RegistrationInv, PageOK
  <1>1. /\ RequestIs("signing") /\ holder # NoHolder
        /\ signed' = signed \cup {request.intent}
        /\ UNCHANGED <<now, earlyPolicies, tokenVars>>
        /\ UNCHANGED <<ops, operations, evicted>>
        /\ UNCHANGED <<holder, target, token, submitted, looks, met>>
    BY DEF IntentSigned, relayerVars
  <1>2. PICK i \in Intents : i = request.intent /\ i.holder \in met /\ i.creator \in met
    BY <1>1 DEF RequestOK
  <1>3. signed \subseteq signed' /\ signed' \subseteq Intents /\ i \in signed'
    BY <1>1, <1>2 DEF LedgerInv, SbtTypeOK
  <1>4. LedgerMoves
    BY <1>1, <1>3 DEF LedgerMoves
  <1>5. LedgerInv'
    BY <1>4, LedgerStep
  <1>6. EntriesOK'
    BY <1>1 DEF EntriesOK, Alive, Remembered
  <1>7. OpsOK'
    BY <1>1, <1>3 DEF OpsOK
  <1>8. ChoiceOK' /\ TokenOK(token)' /\ LooksOK' /\ SubmittedOK'
    BY <1>1, <1>4, TokenStays, AllLooksStay, SubmittedStays DEF ChoiceOK
  <1>9. RequestOK'
    <2>1. PICK asked : asked = [i EXCEPT !.holder = holder]
      OBVIOUS
    <2>2. holder \in Holders /\ holder \in met
      BY <1>1 DEF ChoiceOK
    <2>3. asked \in Intents /\ asked.holder = holder /\ asked.creator = i.creator
      BY <2>1, <2>2 DEF Intents
    <2>4. holder = i.holder => asked = i
      BY <2>1 DEF Intents
    <2>5. PICK r : r = [pc |-> "signed", intent |-> asked, genuine |-> SignedByHolder(i)]
      OBVIOUS
    <2>6. /\ r.pc = "signed" /\ r.intent = asked /\ r.genuine = SignedByHolder(i)
      BY <2>5
    <2>7. request' = r
      BY <1>2, <2>1, <2>5 DEF IntentSigned
    <2>8. r.genuine \in BOOLEAN /\ (r.genuine => r.intent \in signed')
      BY <1>3, <2>4, <2>6 DEF SignedByHolder
    <2> QED BY <1>1, <1>2, <2>2, <2>3, <2>6, <2>7, <2>8 DEF RequestOK, RequestIs
  <1> QED BY <1>5, <1>6, <1>7, <1>8, <1>9

(* The request becomes an operation of the relayer. *)
LEMMA ArrivalKeeps ==
    ASSUME RegistrationInv, NEW o \in Ops, NEW k \in Keys, RequestArrives(o, k)
    PROVE  RegistrationInv'
  <1> USE DEF RegistrationInv, PageOK
  <1>1. PICK i \in Intents : i = request.intent /\ i.holder \in met /\ i.creator \in met
    BY DEF RequestArrives, RequestOK
  <1>2. PICK genuine \in BOOLEAN : genuine = request.genuine /\ (genuine => i \in signed)
    BY <1>1 DEF RequestArrives, RequestOK
  <1>3. Relay(o, k, i, genuine) /\ UNCHANGED <<holder, target, token, submitted, looks, met>>
    BY <1>1, <1>2 DEF RequestArrives
  <1>4. UNCHANGED sbtVars
    BY <1>3 DEF Relay
  <1>5. LedgerMoves
    BY <1>4 DEF LedgerMoves
  <1>6. LedgerInv'
    BY <1>5, LedgerStep
  <1>7. EntriesOK'
    BY <1>3, RelayKeeps
  <1>8. OpsOK'
    BY <1>2, <1>3, OpsRelay
  <1>9. ChoiceOK' /\ TokenOK(token)' /\ LooksOK' /\ SubmittedOK'
    BY <1>3, <1>5, TokenStays, AllLooksStay, SubmittedStays DEF ChoiceOK
  <1>10. RequestOK'
    <2>1. PICK r : r = [pc |-> "relayed", intent |-> i, op |-> o]
      OBVIOUS
    <2>2. r.pc = "relayed" /\ r.intent = i /\ r.op = o /\ request' = r
      BY <1>1, <2>1 DEF RequestArrives
    <2> QED BY <1>1, <1>3, <2>2 DEF RequestOK, RequestIs
  <1> QED BY <1>6, <1>7, <1>8, <1>9, <1>10

(* Every step of the page or of anyone beside it. *)
LEMMA RegistrationStep ==
    RegistrationInv /\ [SupporterPageNext \/ (Next /\ UNCHANGED supporterPageVars)]_<<vars, supporterPageVars>>
        => RegistrationInv'
  <1> SUFFICES ASSUME RegistrationInv,
                      [SupporterPageNext \/ (Next /\ UNCHANGED supporterPageVars)]_<<vars, supporterPageVars>>
               PROVE  RegistrationInv'
    OBVIOUS
  <1>1. CASE (Next \/ UNCHANGED vars) /\ UNCHANGED supporterPageVars
    BY <1>1, OthersKeep
  <1>2. CASE SupporterPageNext
    <2>1. ASSUME NEW f \in Looks, NEW h \in Holders \cup {NoHolder}, HolderChanged(f, h) PROVE RegistrationInv'
      BY <2>1, ChoiceKeeps
    <2>2. ASSUME NEW f \in Looks, NEW c \in Creators, SelectSupportTarget(f, c) PROVE RegistrationInv'
      BY <2>2, ChoiceKeeps
    <2>3. ASSUME NEW f \in Looks, LookAgain(f) PROVE RegistrationInv'
      BY <2>3, ChoiceKeeps
    <2>4. ASSUME NEW f \in Looks, TokenRead(f) \/ TokenShown(f) \/ LookFails(f) PROVE RegistrationInv'
      BY <2>4, LooksKeep
    <2>5. ASSUME NEW f \in Looks, ReceiptRead(f) \/ ActiveAnswer(f) PROVE RegistrationInv'
      BY <2>5, AnswerKeeps
    <2>6. ASSUME NEW o \in Ops, NEW k \in Keys, RequestArrives(o, k) PROVE RegistrationInv'
      BY <2>6, ArrivalKeeps
    <2>7. ASSUME NEW lifetime \in Lifetimes, NonceRead(lifetime) PROVE RegistrationInv'
      BY <2>7, RequestKeeps
    <2>8. CASE IntentSigned
      BY <2>8, SigningKeeps
    <2>9. CASE RegisterAsSupporter \/ SubmittedAnswer \/ NoReceipt \/ RequestFails
      BY <2>9, RequestKeeps
    <2> QED BY <1>2, <2>1, <2>2, <2>3, <2>4, <2>5, <2>6, <2>7, <2>8, <2>9 DEF SupporterPageNext
  <1>3. UNCHANGED <<vars, supporterPageVars>> => UNCHANGED vars /\ UNCHANGED supporterPageVars
    OBVIOUS
  <1> QED BY <1>1, <1>2, <1>3

LEMMA PageTells == PageOK => SupporterPageTellsTheTruth
  BY DEF PageOK, TokenOK, SubmittedOK, SupporterPageTellsTheTruth

(* Whatever anyone else signs, asks and registers: the relayer runs a key    *)
(* once, the page shows its own tokens and what was signed, and signing with  *)
(* the page's intents keeps the credential's own promises.                   *)
THEOREM SupporterPageCorrect ==
    SupporterPageSpec => [](KeyRunsOnce /\ SupporterPageTellsTheTruth /\ OneActiveCredential /\ IntentsAreHonoured)
  <1>1. RegistrationInv =>
            KeyRunsOnce /\ SupporterPageTellsTheTruth /\ OneActiveCredential /\ IntentsAreHonoured
    BY KeyRuns, PageTells DEF RegistrationInv, LedgerInv, IntentInvariant, IntentsAreHonoured
  <1> QED BY <1>1, RegistrationStart, RegistrationStep, PTL DEF SupporterPageSpec

-----------------------------------------------------------------------------
Creator == [account : CreatorAccounts, payoutAddress : CreatorAccounts, profileCommitment : Commitments,
            releaseCount : Nat, active : BOOLEAN]
Release == [creatorId : Nat, work : Works, state : {"DECLARED_UNVERIFIED", "WITHDRAWN"}]

RegistryTypeOK ==
    /\ creators \in Seq(Creator) /\ releases \in Seq(Release)
    /\ creatorIdByAccount \in [CreatorAccounts -> {0} \cup CreatorIds]
    /\ creatorIdByProfileCommitment \in [Commitments -> {0} \cup CreatorIds]
    /\ \A r \in DOMAIN releases : releases[r].creatorId \in CreatorIds

ReleasesOf(i) == {r \in DOMAIN releases : releases[r].creatorId = i}

RegistryInv == RegistryTypeOK /\ IndexesFollowRecords

(* The indexes after a step, part by part. *)
LEMMA IndexesAre ==
    ASSUME \A a \in CreatorAccounts, i \in CreatorIds' : creatorIdByAccount'[a] = i <=> creators'[i].account = a,
           \A c \in Commitments, i \in CreatorIds' :
               creatorIdByProfileCommitment'[c] = i <=> creators'[i].profileCommitment = c,
           \A i \in CreatorIds' : creators'[i].releaseCount = Cardinality(ReleasesOf(i)')
    PROVE  IndexesFollowRecords'
  BY DEF IndexesFollowRecords, ReleasesOf

(* The registry starts empty. *)
LEMMA RegistryStart == RegistryInit => RegistryInv
  BY EmptySeq DEF RegistryInit, RegistryInv, RegistryTypeOK, IndexesFollowRecords, CreatorIds

(* Ids are numbers from 1 to the number of creators. *)
LEMMA IdsAreNumbers ==
    ASSUME RegistryTypeOK
    PROVE  Len(creators) \in Nat /\ CreatorIds = 1..Len(creators)
  BY LenProperties DEF RegistryTypeOK, CreatorIds

(* A creator's releases can be counted. *)
LEMMA ReleasesOfFinite ==
    ASSUME RegistryTypeOK, NEW i
    PROVE  IsFiniteSet(ReleasesOf(i)) /\ Cardinality(ReleasesOf(i)) \in Nat
  <1>1. Len(releases) \in Nat /\ DOMAIN releases = 1..Len(releases)
    BY LenProperties DEF RegistryTypeOK
  <1>2. IsFiniteSet(1..Len(releases))
    BY <1>1, FS_Interval
  <1> QED BY <1>1, <1>2, FS_Subset, FS_CardinalityType DEF ReleasesOf

(* A new creator takes a new number, its account and its commitment.        *)
LEMMA RegisterCreatorKeeps ==
    ASSUME RegistryInv, NEW a \in CreatorAccounts, NEW c \in Commitments, NEW payout \in CreatorAccounts,
           RegisterCreator(a, c, payout)
    PROVE  RegistryInv'
  <1> USE DEF RegistryInv
  <1>size. PICK n \in Nat : n = Len(creators) /\ CreatorIds = 1..n
    BY IdsAreNumbers
  <1>0. PICK e : e = [account |-> a, payoutAddress |-> payout, profileCommitment |-> c,
                       releaseCount |-> 0, active |-> TRUE]
    OBVIOUS
  <1>1. /\ e \in Creator /\ creators' = Append(creators, e)
        /\ e.account = a /\ e.profileCommitment = c /\ e.releaseCount = 0
    <2>1. e \in Creator /\ e.account = a /\ e.profileCommitment = c /\ e.releaseCount = 0
      BY <1>0 DEF Creator
    <2>2. creators' = Append(creators, e)
      BY <1>0 DEF RegisterCreator
    <2> QED BY <2>1, <2>2
  <1>2. /\ creators' \in Seq(Creator) /\ Len(creators') = n + 1
        /\ \A i \in 1..n : creators'[i] = creators[i]
        /\ creators'[n + 1] = e
    BY <1>size, <1>1, AppendProperties DEF RegistryTypeOK
  <1>3. CreatorIds' = 1..(n + 1)
    BY <1>2, LenProperties DEF CreatorIds
  <1>4. /\ creatorIdByAccount' = [creatorIdByAccount EXCEPT ![a] = n + 1]
        /\ creatorIdByProfileCommitment' = [creatorIdByProfileCommitment EXCEPT ![c] = n + 1]
        /\ releases' = releases /\ creatorIdByAccount[a] = 0 /\ creatorIdByProfileCommitment[c] = 0
    BY <1>size DEF RegisterCreator, MayRegister
  <1>5. /\ creatorIdByAccount \in [CreatorAccounts -> 0..n]
        /\ creatorIdByProfileCommitment \in [Commitments -> 0..n]
    BY <1>size DEF RegistryTypeOK
  <1>6. /\ creatorIdByAccount' \in [CreatorAccounts -> 0..(n + 1)]
        /\ creatorIdByProfileCommitment' \in [Commitments -> 0..(n + 1)]
    BY <1>4, <1>5
  <1>7. \A r \in DOMAIN releases : releases[r].creatorId \in 1..n
    BY <1>size DEF RegistryTypeOK
  <1>8. RegistryTypeOK'
    <2>1. 0..(n + 1) = {0} \cup 1..(n + 1) /\ 1..n \subseteq 1..(n + 1)
      OBVIOUS
    <2>2. releases' \in Seq(Release)
      BY <1>4 DEF RegistryTypeOK
    <2> QED BY <1>2, <1>3, <1>4, <1>6, <1>7, <2>1, <2>2 DEF RegistryTypeOK
  <1>9. ASSUME NEW b \in CreatorAccounts, NEW i \in 1..(n + 1)
        PROVE  creatorIdByAccount'[b] = i <=> creators'[i].account = b
    <2>1. \A j \in 1..n : creatorIdByAccount[b] = j <=> creators[j].account = b
      BY <1>size DEF IndexesFollowRecords
    <2>2. CASE i = n + 1
      BY <1>1, <1>2, <1>4, <1>5, <2>2
    <2>3. CASE i \in 1..n
      BY <1>2, <1>4, <1>5, <2>1, <2>3
    <2> QED BY <2>2, <2>3
  <1>10. ASSUME NEW d \in Commitments, NEW i \in 1..(n + 1)
         PROVE  creatorIdByProfileCommitment'[d] = i <=> creators'[i].profileCommitment = d
    <2>1. \A j \in 1..n : creatorIdByProfileCommitment[d] = j <=> creators[j].profileCommitment = d
      BY <1>size DEF IndexesFollowRecords
    <2>2. CASE i = n + 1
      BY <1>1, <1>2, <1>4, <1>5, <2>2
    <2>3. CASE i \in 1..n
      BY <1>2, <1>4, <1>5, <2>1, <2>3
    <2> QED BY <2>2, <2>3
  <1>11. ASSUME NEW i \in 1..(n + 1)
         PROVE  creators'[i].releaseCount = Cardinality(ReleasesOf(i))
    <2>1. CASE i = n + 1
      <3>1. ReleasesOf(i) = {}
        BY <1>7, <2>1 DEF ReleasesOf
      <3> QED BY <3>1, <2>1, <1>1, <1>2, FS_EmptySet
    <2>2. CASE i \in 1..n
      <3>1. creators[i].releaseCount = Cardinality(ReleasesOf(i))
        BY <1>size, <2>2 DEF IndexesFollowRecords, ReleasesOf
      <3> QED BY <3>1, <1>2, <2>2
    <2> QED BY <2>1, <2>2
  <1>12. IndexesFollowRecords'
    BY <1>3, <1>4, <1>9, <1>10, <1>11 DEF IndexesFollowRecords, ReleasesOf
  <1> QED BY <1>8, <1>12

(* What a change of one creator's record leaves as it was. *)
LEMMA RecordChanges ==
    ASSUME RegistryInv, NEW i \in CreatorIds, NEW e \in Creator, creators' = [creators EXCEPT ![i] = e]
    PROVE  /\ creators' \in Seq(Creator) /\ CreatorIds' = CreatorIds
           /\ \A j \in CreatorIds : creators'[j] = IF j = i THEN e ELSE creators[j]
  <1>1. creators \in Seq(Creator) /\ i \in 1..Len(creators)
    BY IdsAreNumbers DEF RegistryInv, RegistryTypeOK
  <1>2. /\ creators' \in Seq(Creator) /\ Len(creators') = Len(creators)
        /\ \A j \in 1..Len(creators) : creators'[j] = IF j = i THEN e ELSE creators[j]
    BY <1>1, ExceptSeq
  <1>3. CreatorIds = 1..Len(creators) /\ CreatorIds' = 1..Len(creators)
    BY <1>1, <1>2, LenProperties DEF CreatorIds
  <1> QED BY <1>2, <1>3

(* Each number has a creator. *)
LEMMA CreatorIs ==
    ASSUME RegistryTypeOK, NEW i \in CreatorIds
    PROVE  creators[i] \in Creator
  BY LenProperties DEF RegistryTypeOK, CreatorIds

(* The index forgets the previous commitment, unless it is the new one.     *)
LEMMA UpdateCommitmentKeeps ==
    ASSUME RegistryInv, NEW a \in CreatorAccounts, NEW c \in Commitments, UpdateProfileCommitment(a, c)
    PROVE  RegistryInv'
  <1>1. PICK i : i = creatorIdByAccount[a]
    OBVIOUS
  <1>2. /\ i \in CreatorIds /\ creatorIdByProfileCommitment[c] \in {0, i}
        /\ creatorIdByProfileCommitment' = Recommitted(i, c)
        /\ creators' = [creators EXCEPT ![i].profileCommitment = c]
        /\ releases' = releases /\ creatorIdByAccount' = creatorIdByAccount
    BY <1>1 DEF UpdateProfileCommitment, RegistryInv, RegistryTypeOK
  <1>3. PICK old \in Creator : old = creators[i]
    BY <1>2, CreatorIs DEF RegistryInv
  <1>4. PICK e \in Creator : e = [old EXCEPT !.profileCommitment = c]
    BY DEF Creator
  <1>5. /\ e.profileCommitment = c /\ e.account = old.account /\ e.releaseCount = old.releaseCount
        /\ old.profileCommitment \in Commitments
    BY <1>4 DEF Creator
  <1>6. creators' = [creators EXCEPT ![i] = e]
    BY <1>2, <1>3, <1>4
  <1>7. /\ creators' \in Seq(Creator) /\ CreatorIds' = CreatorIds
        /\ \A j \in CreatorIds : creators'[j] = IF j = i THEN e ELSE creators[j]
    BY <1>2, <1>6, RecordChanges
  <1>8. creatorIdByProfileCommitment' =
            [creatorIdByProfileCommitment EXCEPT ![old.profileCommitment] = 0, ![c] = i]
    BY <1>2, <1>3 DEF Recommitted
  <1>9. RegistryTypeOK'
    <2>1. creatorIdByProfileCommitment' \in [Commitments -> {0} \cup CreatorIds]
      BY <1>2, <1>8 DEF RegistryInv, RegistryTypeOK
    <2>2. /\ releases' \in Seq(Release)
          /\ creatorIdByAccount' \in [CreatorAccounts -> {0} \cup CreatorIds]
          /\ \A r \in DOMAIN releases' : releases'[r].creatorId \in CreatorIds
      BY <1>2 DEF RegistryInv, RegistryTypeOK
    <2> QED BY <1>7, <2>1, <2>2 DEF RegistryTypeOK
  <1>10. ASSUME NEW d \in Commitments, NEW j \in CreatorIds
         PROVE  creatorIdByProfileCommitment'[d] = j <=> creators'[j].profileCommitment = d
    <2>1. \A k \in CreatorIds : creatorIdByProfileCommitment[d] = k <=> creators[k].profileCommitment = d
      BY DEF RegistryInv, IndexesFollowRecords
    <2>2. creatorIdByProfileCommitment \in [Commitments -> {0} \cup CreatorIds] /\ 0 \notin CreatorIds
      BY IdsAreNumbers DEF RegistryInv, RegistryTypeOK
    <2>3. creatorIdByProfileCommitment'[d] =
              IF d = c THEN i ELSE IF d = old.profileCommitment THEN 0 ELSE creatorIdByProfileCommitment[d]
      BY <1>8, <1>5, <2>2
    <2>4. \A k \in CreatorIds : creatorIdByProfileCommitment[c] = k <=> creators[k].profileCommitment = c
      BY DEF RegistryInv, IndexesFollowRecords
    <2>5. CASE d = c
      BY <2>5, <2>3, <2>2, <2>4, <1>2, <1>5, <1>7
    <2>6. CASE d # c /\ d = old.profileCommitment
      BY <2>6, <2>3, <2>2, <2>1, <1>2, <1>3, <1>5, <1>7
    <2>7. CASE d # c /\ d # old.profileCommitment
      BY <2>7, <2>3, <2>1, <1>2, <1>3, <1>5, <1>7
    <2> QED BY <2>5, <2>6, <2>7
  <1>11. \A b \in CreatorAccounts, j \in CreatorIds : creatorIdByAccount'[b] = j <=> creators'[j].account = b
    BY <1>2, <1>3, <1>5, <1>7 DEF RegistryInv, IndexesFollowRecords
  <1>12. \A j \in CreatorIds : creators'[j].releaseCount = creators[j].releaseCount
    BY <1>3, <1>5, <1>7
  <1>13. \A j \in CreatorIds : creators'[j].releaseCount = Cardinality(ReleasesOf(j)')
    BY <1>2, <1>12 DEF RegistryInv, IndexesFollowRecords, ReleasesOf
  <1>14. IndexesFollowRecords'
    BY <1>7, <1>10, <1>11, <1>13, IndexesAre
  <1> QED BY <1>9, <1>14 DEF RegistryInv

(* A record keeps what the indexes and the releases say of it. *)
LEMMA OtherFieldsKeep ==
    ASSUME RegistryInv, NEW i \in CreatorIds, NEW e \in Creator, creators' = [creators EXCEPT ![i] = e],
           /\ e.account = creators[i].account /\ e.profileCommitment = creators[i].profileCommitment
           /\ e.releaseCount = creators[i].releaseCount,
           UNCHANGED <<releases, creatorIdByAccount, creatorIdByProfileCommitment>>
    PROVE  RegistryInv'
  <1>1. /\ creators' \in Seq(Creator) /\ CreatorIds' = CreatorIds
        /\ \A j \in CreatorIds : creators'[j] = IF j = i THEN e ELSE creators[j]
    BY RecordChanges
  <1>2. RegistryTypeOK'
    BY <1>1 DEF RegistryInv, RegistryTypeOK
  <1>3. \A j \in CreatorIds : /\ creators'[j].account = creators[j].account
                              /\ creators'[j].profileCommitment = creators[j].profileCommitment
                              /\ creators'[j].releaseCount = creators[j].releaseCount
    BY <1>1
  <1>4. IndexesFollowRecords'
    BY <1>1, <1>3 DEF RegistryInv, IndexesFollowRecords
  <1> QED BY <1>2, <1>4 DEF RegistryInv

(* An address to pay and the active flag are in no index. *)
LEMMA UpdatesKeep ==
    ASSUME RegistryInv, NEW a \in CreatorAccounts, NEW payout \in CreatorAccounts, NEW active \in BOOLEAN,
           UpdatePayoutAddress(a, payout) \/ SetActive(a, active)
    PROVE  RegistryInv'
  <1>1. PICK i : i = creatorIdByAccount[a]
    OBVIOUS
  <1>2. /\ i \in CreatorIds
        /\ UNCHANGED <<releases, creatorIdByAccount, creatorIdByProfileCommitment>>
    BY <1>1 DEF UpdatePayoutAddress, SetActive, RegistryInv, RegistryTypeOK
  <1>3. PICK old \in Creator : old = creators[i]
    BY <1>2, CreatorIs DEF RegistryInv
  <1>4. CASE UpdatePayoutAddress(a, payout)
    <2>1. PICK e \in Creator : e = [old EXCEPT !.payoutAddress = payout]
      BY DEF Creator
    <2>2. /\ e.account = old.account /\ e.profileCommitment = old.profileCommitment
          /\ e.releaseCount = old.releaseCount
      BY <2>1 DEF Creator
    <2>3. creators' = [creators EXCEPT ![i] = e]
      BY <1>1, <1>3, <1>4, <2>1 DEF UpdatePayoutAddress
    <2> QED BY <1>2, <1>3, <2>2, <2>3, OtherFieldsKeep
  <1>5. CASE SetActive(a, active)
    <2>1. PICK e \in Creator : e = [old EXCEPT !.active = active]
      BY DEF Creator
    <2>2. /\ e.account = old.account /\ e.profileCommitment = old.profileCommitment
          /\ e.releaseCount = old.releaseCount
      BY <2>1 DEF Creator
    <2>3. creators' = [creators EXCEPT ![i] = e]
      BY <1>1, <1>3, <1>5, <2>1 DEF SetActive
    <2> QED BY <1>2, <1>3, <2>2, <2>3, OtherFieldsKeep
  <1> QED BY <1>4, <1>5

(* A release is counted as it is declared. *)
LEMMA DeclareKeeps ==
    ASSUME RegistryInv, NEW a \in CreatorAccounts, NEW work \in Works, DeclareRelease(a, work)
    PROVE  RegistryInv'
  <1>1. PICK i : i = creatorIdByAccount[a]
    OBVIOUS
  <1>2. /\ i \in CreatorIds
        /\ creators' = [creators EXCEPT ![i].releaseCount = @ + 1]
        /\ UNCHANGED <<creatorIdByAccount, creatorIdByProfileCommitment>>
    BY <1>1 DEF DeclareRelease, MayDeclare, RegistryInv, RegistryTypeOK
  <1>3. PICK old \in Creator : old = creators[i]
    BY <1>2, CreatorIs DEF RegistryInv
  <1>4. PICK e \in Creator : e = [old EXCEPT !.releaseCount = old.releaseCount + 1]
    <2>1. old.releaseCount + 1 \in Nat
      BY DEF Creator
    <2> QED BY <2>1 DEF Creator
  <1>5. /\ e.account = old.account /\ e.profileCommitment = old.profileCommitment
        /\ e.releaseCount = old.releaseCount + 1
    BY <1>4 DEF Creator
  <1>6. creators' = [creators EXCEPT ![i] = e]
    BY <1>2, <1>3, <1>4
  <1>7. /\ creators' \in Seq(Creator) /\ CreatorIds' = CreatorIds
        /\ \A j \in CreatorIds : creators'[j] = IF j = i THEN e ELSE creators[j]
    BY <1>2, <1>6, RecordChanges
  <1>8. PICK rel \in Release : releases' = Append(releases, rel) /\ rel.creatorId = i
    <2>1. i \in Nat
      BY <1>2, IdsAreNumbers DEF RegistryInv
    <2> QED BY <1>1, <2>1 DEF DeclareRelease, Release
  <1>9. PICK n \in Nat : n = Len(releases) /\ DOMAIN releases = 1..n
    BY LenProperties DEF RegistryInv, RegistryTypeOK
  <1>10. /\ releases' \in Seq(Release) /\ Len(releases') = n + 1
         /\ \A r \in 1..n : releases'[r] = releases[r]
         /\ releases'[n + 1] = rel
    BY <1>8, <1>9, AppendProperties DEF RegistryInv, RegistryTypeOK
  <1>11. DOMAIN releases' = 1..(n + 1)
    BY <1>10, LenProperties
  <1>12. RegistryTypeOK'
    <2>1. ASSUME NEW r \in 1..(n + 1) PROVE releases'[r].creatorId \in CreatorIds
      <3>1. CASE r = n + 1
        BY <3>1, <1>2, <1>8, <1>10
      <3>2. CASE r \in 1..n
        BY <3>2, <1>9, <1>10 DEF RegistryInv, RegistryTypeOK
      <3> QED BY <3>1, <3>2
    <2> QED BY <1>2, <1>7, <1>10, <1>11, <2>1 DEF RegistryInv, RegistryTypeOK
  <1>13. ASSUME NEW j \in CreatorIds
         PROVE  creators'[j].releaseCount = Cardinality(ReleasesOf(j)')
    <2>1. creators[j].releaseCount = Cardinality(ReleasesOf(j))
      BY DEF RegistryInv, IndexesFollowRecords, ReleasesOf
    <2>2. CASE j # i
      <3>1. ReleasesOf(j)' = ReleasesOf(j)
        BY <1>8, <1>9, <1>10, <1>11, <2>2 DEF ReleasesOf
      <3> QED BY <3>1, <2>1, <2>2, <1>7
    <2>3. CASE j = i
      <3>1. ReleasesOf(j)' = ReleasesOf(j) \cup {n + 1}
        BY <1>8, <1>9, <1>10, <1>11, <2>3 DEF ReleasesOf
      <3>2. n + 1 \notin ReleasesOf(j)
        BY <1>9 DEF ReleasesOf
      <3>3. IsFiniteSet(ReleasesOf(j))
        BY ReleasesOfFinite DEF RegistryInv
      <3>4. Cardinality(ReleasesOf(j) \cup {n + 1}) = Cardinality(ReleasesOf(j)) + 1
        BY <3>2, <3>3, FS_AddElement
      <3> QED BY <3>1, <3>4, <2>1, <2>3, <1>3, <1>5, <1>7
    <2> QED BY <2>2, <2>3
  <1>14. \A j \in CreatorIds : /\ creators'[j].account = creators[j].account
                               /\ creators'[j].profileCommitment = creators[j].profileCommitment
    BY <1>3, <1>5, <1>7
  <1>15. /\ \A b \in CreatorAccounts, j \in CreatorIds : creatorIdByAccount'[b] = j <=> creators'[j].account = b
         /\ \A d \in Commitments, j \in CreatorIds :
                creatorIdByProfileCommitment'[d] = j <=> creators'[j].profileCommitment = d
    BY <1>2, <1>14 DEF RegistryInv, IndexesFollowRecords
  <1>16. IndexesFollowRecords'
    BY <1>7, <1>13, <1>15, IndexesAre
  <1> QED BY <1>12, <1>16 DEF RegistryInv

(* A withdrawn release still counts. *)
LEMMA WithdrawKeeps ==
    ASSUME RegistryInv, NEW a \in CreatorAccounts, NEW r \in DOMAIN releases, WithdrawRelease(a, r)
    PROVE  RegistryInv'
  <1>1. PICK rel \in Release : rel = releases[r]
    BY LenProperties DEF RegistryInv, RegistryTypeOK
  <1>2. PICK new \in Release : new = [rel EXCEPT !.state = "WITHDRAWN"]
    BY DEF Release
  <1>3. new.creatorId = rel.creatorId
    BY <1>2 DEF Release
  <1>4. releases' = [releases EXCEPT ![r] = new]
    BY <1>1, <1>2 DEF WithdrawRelease
  <1>5. DOMAIN releases = 1..Len(releases) /\ Len(releases) \in Nat
    BY LenProperties DEF RegistryInv, RegistryTypeOK
  <1>6. /\ releases' \in Seq(Release) /\ Len(releases') = Len(releases)
        /\ \A s \in 1..Len(releases) : releases'[s] = IF s = r THEN new ELSE releases[s]
    BY <1>4, <1>5, ExceptSeq DEF RegistryInv, RegistryTypeOK
  <1>7. DOMAIN releases' = DOMAIN releases
    BY <1>5, <1>6, LenProperties
  <1>8. \A s \in DOMAIN releases : releases'[s].creatorId = releases[s].creatorId
    BY <1>1, <1>3, <1>5, <1>6
  <1>9. UNCHANGED <<creators, CreatorIds, creatorIdByAccount, creatorIdByProfileCommitment>>
    BY DEF WithdrawRelease, CreatorIds
  <1>10. \A j : ReleasesOf(j)' = ReleasesOf(j)
    BY <1>7, <1>8 DEF ReleasesOf
  <1>11. RegistryTypeOK'
    BY <1>6, <1>7, <1>8, <1>9 DEF RegistryInv, RegistryTypeOK
  <1>12. /\ \A b \in CreatorAccounts, j \in CreatorIds : creatorIdByAccount[b] = j <=> creators[j].account = b
         /\ \A d \in Commitments, j \in CreatorIds :
                creatorIdByProfileCommitment[d] = j <=> creators[j].profileCommitment = d
         /\ \A j \in CreatorIds : creators[j].releaseCount = Cardinality(ReleasesOf(j))
    BY DEF RegistryInv, IndexesFollowRecords, ReleasesOf
  <1>13. IndexesFollowRecords'
    BY <1>9, <1>10, <1>12, IndexesAre
  <1> QED BY <1>11, <1>13 DEF RegistryInv

(* Every transaction of an owner, of the pauser or of the mapper.           *)
LEMMA RegistryStep == RegistryInv /\ [RegistryNext]_registryVars => RegistryInv'
  <1> SUFFICES ASSUME RegistryInv, [RegistryNext]_registryVars PROVE RegistryInv'
    OBVIOUS
  <1>1. ASSUME NEW a \in CreatorAccounts, NEW c \in Commitments, UpdateProfileCommitment(a, c)
        PROVE  RegistryInv'
    BY <1>1, UpdateCommitmentKeeps
  <1>2. ASSUME NEW a \in CreatorAccounts, NEW payout \in CreatorAccounts, UpdatePayoutAddress(a, payout)
        PROVE  RegistryInv'
    BY <1>2, UpdatesKeep
  <1>3. ASSUME NEW a \in CreatorAccounts, NEW payout \in CreatorAccounts, NEW c \in Commitments,
               RegisterCreator(a, c, payout)
        PROVE  RegistryInv'
    BY <1>3, RegisterCreatorKeeps
  <1>4. ASSUME NEW a \in CreatorAccounts, NEW active \in BOOLEAN, SetActive(a, active)
        PROVE  RegistryInv'
    BY <1>4, UpdatesKeep
  <1>5. ASSUME NEW a \in CreatorAccounts, NEW w \in Works, DeclareRelease(a, w)
        PROVE  RegistryInv'
    BY <1>5, DeclareKeeps
  <1>6. ASSUME NEW a \in CreatorAccounts, NEW r \in DOMAIN releases, WithdrawRelease(a, r)
        PROVE  RegistryInv'
    BY <1>6, WithdrawKeeps
  <1>7. ASSUME UNCHANGED <<creators, releases, creatorIdByAccount, creatorIdByProfileCommitment>>
        PROVE  RegistryInv'
    <2>1. RegistryTypeOK'
      BY <1>7 DEF RegistryInv, RegistryTypeOK, CreatorIds
    <2>2. IndexesFollowRecords'
      BY <1>7 DEF RegistryInv, IndexesFollowRecords, CreatorIds
    <2> QED BY <2>1, <2>2 DEF RegistryInv
  <1>8. ASSUME NEW p \in BOOLEAN, PauseRegistry(p) PROVE RegistryInv'
    BY <1>7, <1>8 DEF PauseRegistry
  <1>9. ASSUME NEW s \in Scopes, NEW i \in CreatorIds, LinkCreatorScope(s, i) PROVE RegistryInv'
    BY <1>7, <1>9 DEF LinkCreatorScope
  <1>10. CASE UNCHANGED registryVars
    BY <1>7, <1>10 DEF registryVars
  <1> QED BY <1>1, <1>2, <1>3, <1>4, <1>5, <1>6, <1>8, <1>9, <1>10 DEF RegistryNext

(* The indexes of creators by account and by commitment name the creators    *)
(* that have them, and a creator's count is that of its releases.            *)
THEOREM IndexesCorrect == RegistrySpec => []IndexesFollowRecords
  <1>1. RegistryInv => IndexesFollowRecords
    BY DEF RegistryInv
  <1> QED BY <1>1, RegistryStart, RegistryStep, PTL DEF RegistrySpec

-----------------------------------------------------------------------------
(* A listing and a check under way, the answers remembered. *)
Listing == [since : Int, unread : SUBSET CreatorIds, value : SUBSET CreatorIds]
Check == [since : Int, value : BOOLEAN]

(* The last time a creator of the registry was active; the last time the   *)
(* relayer could relay, or could not or was not reached.                    *)
WasActive(i) == wasActive[creators[i].account]
WasSo(ready) == IF ready THEN wasReady ELSE wasNotReady

HistoryOK ==
    /\ clock \in Int /\ hasRole \in BOOLEAN
    /\ wasActive \in [CreatorAccounts -> Int] /\ wasReady \in Int /\ wasNotReady \in Int
    /\ \A a \in CreatorAccounts : wasActive[a] <= clock
    /\ wasReady <= clock /\ wasNotReady <= clock
    /\ \A i \in CreatorIds : creators[i].active => WasActive(i) = clock
    /\ WasSo(hasRole) = clock

Recent(since) == since <= clock /\ clock - since <= ReadTime
ListingOK(r) == Recent(r.since) /\ \A i \in r.value : r.since <= WasActive(i)
CheckOK(r) == Recent(r.since) /\ r.since <= WasSo(r.value)

ListingsOK ==
    /\ listings \in [Listings -> Listing \cup {NoRead}]
    /\ \A l \in Listings : listings[l] # NoRead => ListingOK(listings[l])
ChecksOK ==
    /\ checks \in [Checks -> Check \cup {NoRead}]
    /\ \A c \in Checks : checks[c] # NoRead => CheckOK(checks[c])

DirectoryOK ==
    /\ directory \in [checkedAt : Int, value : SUBSET CreatorIds]
    /\ \A i \in directory.value : directory.checkedAt - WasActive(i) <= ReadTime

AvailabilityOK ==
    /\ availability \in [checkedAt : Int, value : BOOLEAN]
    /\ availability.checkedAt - WasSo(availability.value) <= ReadTime

DirectoryInv == RegistryInv /\ HistoryOK /\ ListingsOK /\ ChecksOK /\ DirectoryOK /\ AvailabilityOK

(* An answer from decades ago is not given. *)
LEMMA DirectoryStart == RegistryInit /\ DirectoryInit => DirectoryInv
  <1> SUFFICES ASSUME RegistryInit, DirectoryInit PROVE DirectoryInv
    OBVIOUS
  <1>1. RegistryInv
    BY RegistryStart
  <1>2. CreatorIds = {}
    BY DEF RegistryInit, CreatorIds
  <1>3. HistoryOK
    BY <1>2 DEF DirectoryInit, HistoryOK, LongAgo, WasSo
  <1>4. ListingsOK /\ ChecksOK
    BY DEF DirectoryInit, ListingsOK, ChecksOK
  <1>5. DirectoryOK
    BY <1>2 DEF DirectoryInit, DirectoryOK, LongAgo
  <1>6. AvailabilityOK
    BY DirectoryAssumption DEF DirectoryInit, AvailabilityOK, LongAgo, WasSo
  <1> QED BY <1>1, <1>3, <1>4, <1>5, <1>6 DEF DirectoryInv

(* A creator keeps its account and its number. *)
LEMMA AccountsStay ==
    ASSUME RegistryInv, RegistryInv', [RegistryNext]_registryVars
    PROVE  CreatorIds \subseteq CreatorIds' /\ \A i \in CreatorIds : creators'[i].account = creators[i].account
  <1>1. /\ CreatorIds = 1..Len(creators) /\ Len(creators) \in Nat
        /\ CreatorIds' = 1..Len(creators') /\ Len(creators') \in Nat
    BY LenProperties DEF RegistryInv, RegistryTypeOK, CreatorIds
  <1>2. /\ CreatorIds \subseteq CreatorIds'
        /\ \A a \in CreatorAccounts : creatorIdByAccount[a] # 0 => creatorIdByAccount'[a] = creatorIdByAccount[a]
    <2>1. ASSUME NEW a \in CreatorAccounts, NEW c \in Commitments, NEW payout \in CreatorAccounts,
                 RegisterCreator(a, c, payout)
          PROVE  <1>2!1 /\ <1>2!2
      <3>1. Len(creators') = Len(creators) + 1
        <4>1. PICK e : e = [account |-> a, payoutAddress |-> payout, profileCommitment |-> c,
                            releaseCount |-> 0, active |-> TRUE]
          OBVIOUS
        <4>2. e \in Creator
          BY <4>1 DEF Creator
        <4>3. creators' = Append(creators, e)
          BY <4>1, <2>1 DEF RegisterCreator
        <4> QED BY <4>2, <4>3, AppendProperties DEF RegistryInv, RegistryTypeOK
      <3>2. \A b \in CreatorAccounts : creatorIdByAccount[b] # 0 => creatorIdByAccount'[b] = creatorIdByAccount[b]
        BY <2>1 DEF RegisterCreator, MayRegister, RegistryInv, RegistryTypeOK
      <3> QED BY <3>1, <3>2, <1>1
    <2>2. ASSUME NEW a \in CreatorAccounts, NEW c \in Commitments, UpdateProfileCommitment(a, c)
          PROVE  DOMAIN creators' = DOMAIN creators /\ creatorIdByAccount' = creatorIdByAccount
      BY <2>2 DEF UpdateProfileCommitment
    <2>3. ASSUME NEW a \in CreatorAccounts, NEW payout \in CreatorAccounts, UpdatePayoutAddress(a, payout)
          PROVE  DOMAIN creators' = DOMAIN creators /\ creatorIdByAccount' = creatorIdByAccount
      BY <2>3 DEF UpdatePayoutAddress
    <2>4. ASSUME NEW a \in CreatorAccounts, NEW active \in BOOLEAN, SetActive(a, active)
          PROVE  DOMAIN creators' = DOMAIN creators /\ creatorIdByAccount' = creatorIdByAccount
      BY <2>4 DEF SetActive
    <2>5. ASSUME NEW a \in CreatorAccounts, NEW w \in Works, DeclareRelease(a, w)
          PROVE  DOMAIN creators' = DOMAIN creators /\ creatorIdByAccount' = creatorIdByAccount
      BY <2>5 DEF DeclareRelease
    <2>6. ASSUME NEW a \in CreatorAccounts, NEW r \in DOMAIN releases, WithdrawRelease(a, r)
          PROVE  DOMAIN creators' = DOMAIN creators /\ creatorIdByAccount' = creatorIdByAccount
      BY <2>6 DEF WithdrawRelease
    <2>7. ASSUME NEW p \in BOOLEAN, PauseRegistry(p)
          PROVE  DOMAIN creators' = DOMAIN creators /\ creatorIdByAccount' = creatorIdByAccount
      BY <2>7 DEF PauseRegistry
    <2>8. ASSUME NEW s \in Scopes, NEW i \in CreatorIds, LinkCreatorScope(s, i)
          PROVE  DOMAIN creators' = DOMAIN creators /\ creatorIdByAccount' = creatorIdByAccount
      BY <2>8 DEF LinkCreatorScope
    <2>9. CASE UNCHANGED registryVars
      BY <2>9 DEF registryVars, CreatorIds
    <2>10. ASSUME DOMAIN creators' = DOMAIN creators, creatorIdByAccount' = creatorIdByAccount
           PROVE  <1>2!1 /\ <1>2!2
      BY <2>10 DEF CreatorIds
    <2> QED BY <2>1, <2>2, <2>3, <2>4, <2>5, <2>6, <2>7, <2>8, <2>9, <2>10 DEF RegistryNext
  <1>3. ASSUME NEW i \in CreatorIds PROVE creators'[i].account = creators[i].account
    <2>1. PICK a \in CreatorAccounts : a = creators[i].account
      BY CreatorIs DEF RegistryInv, Creator
    <2>2. creatorIdByAccount[a] = i /\ i # 0
      BY <1>1, <2>1 DEF RegistryInv, IndexesFollowRecords
    <2>3. creatorIdByAccount'[a] = i
      BY <1>2, <2>2
    <2>4. i \in CreatorIds'
      BY <1>2
    <2>5. \A b \in CreatorAccounts, j \in CreatorIds' : creatorIdByAccount'[b] = j <=> creators'[j].account = b
      BY DEF RegistryInv, IndexesFollowRecords
    <2> QED BY <2>1, <2>3, <2>4, <2>5
  <1> QED BY <1>2, <1>3

(* A step of the directory or of the chain: time passes, the history grows. *)
LEMMA HistoryGrows ==
    ASSUME DirectoryInv,
           \/ DirectoryNext
           \/ ChainMoves
    PROVE  /\ RegistryInv' /\ HistoryOK'
           /\ clock <= clock' /\ CreatorIds \subseteq CreatorIds'
           /\ \A i \in CreatorIds : WasActive(i) <= WasActive(i)' /\ WasActive(i)' \in Int
           /\ \A ready \in BOOLEAN : WasSo(ready) <= WasSo(ready)' /\ WasSo(ready)' \in Int
  <1>1. [RegistryNext]_registryVars
    BY DEF DirectoryNext, ChainMoves
  <1>2. RegistryInv /\ RegistryInv'
    BY <1>1, RegistryStep DEF DirectoryInv
  <1>3. CreatorIds \subseteq CreatorIds' /\ \A i \in CreatorIds : creators'[i].account = creators[i].account
    BY <1>1, <1>2, AccountsStay
  <1>4. Seen
    BY DEF DirectoryNext, ChainMoves
  <1>5. /\ clock' \in Int /\ clock <= clock' /\ hasRole' \in BOOLEAN
        /\ wasNotReady' \in Int /\ wasNotReady <= wasNotReady' /\ wasNotReady' <= clock'
        /\ ~hasRole' => wasNotReady' = clock'
    <2> USE DEF DirectoryInv, HistoryOK, WasSo
    <2>1. CASE Later
      BY <2>1 DEF Later
    <2>2. CASE RoleChanges
      BY <2>2 DEF RoleChanges
    <2>3. ASSUME NEW c \in Checks, ReadinessKnown(c) PROVE <1>5
      BY <2>3 DEF ReadinessKnown
    <2>4. ASSUME UNCHANGED <<clock, hasRole, wasNotReady>> PROVE <1>5
      BY <2>4
    <2>5. ASSUME NEW l \in Listings, ListTargets(l) \/ Listed(l) \/ ListingFails(l) \/ \E i \in CreatorIds : CreatorRead(l, i)
          PROVE  UNCHANGED <<clock, hasRole, wasNotReady>>
      BY <2>5 DEF ListTargets, Listed, ListingFails, CreatorRead
    <2>6. ASSUME NEW c \in Checks, CheckReadiness(c) PROVE UNCHANGED <<clock, hasRole, wasNotReady>>
      BY <2>6 DEF CheckReadiness
    <2>7. CASE ChainMoves
      BY <2>7, <2>4 DEF ChainMoves
    <2> QED BY <2>1, <2>2, <2>3, <2>4, <2>5, <2>6, <2>7 DEF DirectoryNext
  <1>6. /\ wasReady' \in Int /\ wasReady <= wasReady' /\ wasReady' <= clock'
        /\ hasRole' => wasReady' = clock'
    BY <1>4, <1>5 DEF Seen, DirectoryInv, HistoryOK
  <1>7. ASSUME NEW a \in CreatorAccounts
        PROVE  /\ wasActive'[a] \in Int /\ wasActive[a] <= wasActive'[a] /\ wasActive'[a] <= clock'
               /\ wasActive'[a] \in {wasActive[a], clock'}
    BY <1>4, <1>5 DEF Seen, DirectoryInv, HistoryOK
  <1>8. wasActive' \in [CreatorAccounts -> Int]
    BY <1>4, <1>7 DEF Seen
  <1>9. ASSUME NEW i \in CreatorIds', creators'[i].active
        PROVE  WasActive(i)' = clock'
    <2>0. creators'[i] \in Creator
      BY <1>2, LenProperties DEF RegistryInv, RegistryTypeOK, CreatorIds
    <2>1. PICK a \in CreatorAccounts : a = creators'[i].account
      BY <2>0 DEF Creator
    <2>2. creatorIdByAccount'[a] = i /\ i # 0
      BY <1>2, <2>1, LenProperties DEF RegistryInv, RegistryTypeOK, IndexesFollowRecords, CreatorIds
    <2>3. wasActive'[a] = clock'
      BY <1>4, <1>9, <2>2 DEF Seen
    <2> QED BY <2>1, <2>3 DEF WasActive
  <1>10. ASSUME NEW i \in CreatorIds PROVE WasActive(i) <= WasActive(i)' /\ WasActive(i)' \in Int
    <2>1. PICK a \in CreatorAccounts : a = creators[i].account
      BY <1>2, CreatorIs DEF RegistryInv, Creator
    <2>2. WasActive(i) = wasActive[a] /\ WasActive(i)' = wasActive'[a]
      BY <1>3, <2>1 DEF WasActive
    <2> QED BY <1>7, <2>2
  <1>11. HistoryOK'
    BY <1>5, <1>6, <1>7, <1>8, <1>9 DEF HistoryOK, WasSo
  <1>12. ASSUME NEW ready \in BOOLEAN PROVE WasSo(ready) <= WasSo(ready)' /\ WasSo(ready)' \in Int
    BY <1>5, <1>6 DEF WasSo
  <1> QED BY <1>2, <1>3, <1>5, <1>10, <1>11, <1>12

(* What a growing history keeps. *)
LEMMA ListingKept ==
    ASSUME DirectoryInv, CreatorIds \subseteq CreatorIds',
           \A i \in CreatorIds : WasActive(i) <= WasActive(i)' /\ WasActive(i)' \in Int,
           NEW r \in Listing, ListingOK(r),
           clock' \in Int, clock <= clock', clock' - r.since <= ReadTime
    PROVE  r \in Listing' /\ ListingOK(r)'
  <1>1. r.since \in Int /\ r.value \subseteq CreatorIds /\ clock \in Int
    BY DEF Listing, DirectoryInv, HistoryOK
  <1>2. \A i \in CreatorIds : WasActive(i) \in Int
    BY CreatorIs DEF WasActive, DirectoryInv, HistoryOK, RegistryInv, Creator
  <1>3. r \in Listing'
    BY DEF Listing
  <1>4. Recent(r.since)'
    BY <1>1 DEF Recent, ListingOK
  <1>5. \A i \in r.value : r.since <= WasActive(i)'
    BY <1>1, <1>2 DEF ListingOK
  <1> QED BY <1>3, <1>4, <1>5 DEF ListingOK

LEMMA CheckKept ==
    ASSUME DirectoryInv, \A ready \in BOOLEAN : WasSo(ready) <= WasSo(ready)' /\ WasSo(ready)' \in Int,
           NEW r \in Check, CheckOK(r),
           clock' \in Int, clock <= clock', clock' - r.since <= ReadTime
    PROVE  CheckOK(r)'
  <1>1. r.since \in Int /\ r.value \in BOOLEAN /\ clock \in Int
    BY DEF Check, DirectoryInv, HistoryOK
  <1>2. WasSo(r.value) \in Int /\ WasSo(r.value) <= WasSo(r.value)' /\ WasSo(r.value)' \in Int
    BY <1>1 DEF WasSo, DirectoryInv, HistoryOK
  <1>3. Recent(r.since)'
    BY <1>1 DEF Recent, CheckOK
  <1> QED BY <1>1, <1>2, <1>3 DEF CheckOK

(* The directory and the answer remembered only get older. *)
LEMMA DirectoryKept ==
    ASSUME DirectoryInv, CreatorIds \subseteq CreatorIds', directory' = directory,
           \A i \in CreatorIds : WasActive(i) <= WasActive(i)' /\ WasActive(i)' \in Int
    PROVE  DirectoryOK'
  <1>1. \A i \in CreatorIds : WasActive(i) \in Int
    BY CreatorIs DEF WasActive, DirectoryInv, HistoryOK, RegistryInv, Creator
  <1>2. directory.checkedAt \in Int /\ directory.value \subseteq CreatorIds
    BY DEF DirectoryInv, DirectoryOK
  <1>3. directory' \in [checkedAt : Int, value : SUBSET CreatorIds']
    BY DEF DirectoryInv, DirectoryOK
  <1>4. \A i \in directory.value : directory.checkedAt - WasActive(i)' <= ReadTime
    BY <1>1, <1>2, DirectoryAssumption DEF DirectoryInv, DirectoryOK
  <1> QED BY <1>3, <1>4 DEF DirectoryOK

LEMMA AvailabilityKept ==
    ASSUME DirectoryInv, availability' = availability,
           \A ready \in BOOLEAN : WasSo(ready) <= WasSo(ready)' /\ WasSo(ready)' \in Int
    PROVE  AvailabilityOK'
  <1>1. availability.checkedAt \in Int /\ availability.value \in BOOLEAN
    BY DEF DirectoryInv, AvailabilityOK
  <1>2. PICK v \in BOOLEAN : v = availability.value
    BY <1>1
  <1>3. WasSo(v) \in Int /\ WasSo(v) <= WasSo(v)' /\ WasSo(v)' \in Int
    BY DEF WasSo, DirectoryInv, HistoryOK
  <1>4. availability.checkedAt - WasSo(v) <= ReadTime
    BY <1>2 DEF DirectoryInv, AvailabilityOK
  <1>5. availability.checkedAt - WasSo(v)' <= ReadTime
    BY <1>1, <1>3, <1>4, DirectoryAssumption
  <1> QED BY <1>2, <1>5 DEF DirectoryInv, AvailabilityOK

(* The readings of a step that starts and ends none. *)
LEMMA ListingsKept ==
    ASSUME DirectoryInv, DirectoryNext \/ ChainMoves, listings' = listings,
           clock' = clock \/ \A r \in Underway : clock' - r.since <= ReadTime
    PROVE  ListingsOK'
  <1>1. /\ clock <= clock' /\ clock' \in Int /\ CreatorIds \subseteq CreatorIds'
        /\ \A i \in CreatorIds : WasActive(i) <= WasActive(i)' /\ WasActive(i)' \in Int
    BY HistoryGrows DEF HistoryOK
  <1>2. ASSUME NEW l \in Listings, listings[l] # NoRead
        PROVE  listings'[l] \in Listing' /\ ListingOK(listings[l])'
    <2>1. PICK r \in Listing : r = listings[l] /\ ListingOK(r)
      BY <1>2 DEF DirectoryInv, ListingsOK
    <2>2. r \in Underway
      BY <1>2, <2>1 DEF Underway
    <2>3. clock' - r.since <= ReadTime
      BY <2>1, <2>2 DEF ListingOK, Recent
    <2>4. r \in Listing' /\ ListingOK(r)'
      BY <1>1, <2>1, <2>3, ListingKept
    <2> QED BY <2>1, <2>4
  <1>3. listings' \in [Listings -> Listing' \cup {NoRead}]
    BY <1>2 DEF DirectoryInv, ListingsOK
  <1> QED BY <1>2, <1>3 DEF ListingsOK

LEMMA ChecksKept ==
    ASSUME DirectoryInv, DirectoryNext \/ ChainMoves, checks' = checks,
           clock' = clock \/ \A r \in Underway : clock' - r.since <= ReadTime
    PROVE  ChecksOK'
  <1>1. /\ clock <= clock' /\ clock' \in Int
        /\ \A ready \in BOOLEAN : WasSo(ready) <= WasSo(ready)' /\ WasSo(ready)' \in Int
    BY HistoryGrows DEF HistoryOK
  <1>2. ASSUME NEW c \in Checks, checks[c] # NoRead
        PROVE  CheckOK(checks[c])'
    <2>1. PICK r \in Check : r = checks[c] /\ CheckOK(r)
      BY <1>2 DEF DirectoryInv, ChecksOK
    <2>2. r \in Underway
      BY <1>2, <2>1 DEF Underway
    <2>3. clock' - r.since <= ReadTime
      BY <2>1, <2>2 DEF CheckOK, Recent
    <2>4. CheckOK(r)'
      BY <1>1, <2>1, <2>3, CheckKept
    <2> QED BY <2>1, <2>4
  <1> QED BY <1>2 DEF DirectoryInv, ChecksOK

(* A step that changes one listing keeps the others. *)
LEMMA ListingSet ==
    ASSUME DirectoryInv, DirectoryNext \/ ChainMoves, clock' = clock,
           NEW l \in Listings, NEW new, listings' = [listings EXCEPT ![l] = new],
           new # NoRead => new \in Listing' /\ ListingOK(new)'
    PROVE  ListingsOK'
  <1>1. /\ clock <= clock' /\ clock' \in Int /\ CreatorIds \subseteq CreatorIds'
        /\ \A i \in CreatorIds : WasActive(i) <= WasActive(i)' /\ WasActive(i)' \in Int
    BY HistoryGrows DEF HistoryOK
  <1>2. /\ DOMAIN listings' = Listings /\ listings'[l] = new
        /\ \A m \in Listings : m # l => listings'[m] = listings[m]
        /\ listings' = [m \in Listings |-> listings'[m]]
    BY DEF DirectoryInv, ListingsOK
  <1>3. ASSUME NEW m \in Listings, listings'[m] # NoRead
        PROVE  listings'[m] \in Listing' /\ ListingOK(listings[m])'
    <2>1. CASE m = l
      BY <1>2, <1>3, <2>1
    <2>2. CASE m # l
      <3>1. PICK r \in Listing : r = listings[m] /\ ListingOK(r)
        BY <1>2, <1>3, <2>2 DEF DirectoryInv, ListingsOK
      <3>2. clock' - r.since <= ReadTime
        BY <3>1 DEF ListingOK, Recent
      <3>3. r \in Listing' /\ ListingOK(r)'
        BY <1>1, <3>1, <3>2, ListingKept
      <3> QED BY <1>2, <2>2, <3>1, <3>3
    <2> QED BY <2>1, <2>2
  <1>4. listings' \in [Listings -> Listing' \cup {NoRead}]
    BY <1>2, <1>3
  <1> QED BY <1>3, <1>4 DEF ListingsOK

LEMMA CheckSet ==
    ASSUME DirectoryInv, DirectoryNext \/ ChainMoves, clock' = clock,
           NEW c \in Checks, NEW new, checks' = [checks EXCEPT ![c] = new],
           new # NoRead => new \in Check /\ CheckOK(new)'
    PROVE  ChecksOK'
  <1>1. /\ clock <= clock' /\ clock' \in Int
        /\ \A ready \in BOOLEAN : WasSo(ready) <= WasSo(ready)' /\ WasSo(ready)' \in Int
    BY HistoryGrows DEF HistoryOK
  <1>2. /\ DOMAIN checks' = Checks /\ checks'[c] = new
        /\ \A m \in Checks : m # c => checks'[m] = checks[m]
        /\ checks' = [m \in Checks |-> checks'[m]]
    BY DEF DirectoryInv, ChecksOK
  <1>3. ASSUME NEW m \in Checks, checks'[m] # NoRead
        PROVE  checks'[m] \in Check /\ CheckOK(checks[m])'
    <2>1. CASE m = c
      BY <1>2, <1>3, <2>1
    <2>2. CASE m # c
      <3>1. PICK r \in Check : r = checks[m] /\ CheckOK(r)
        BY <1>2, <1>3, <2>2 DEF DirectoryInv, ChecksOK
      <3>2. clock' - r.since <= ReadTime
        BY <3>1 DEF CheckOK, Recent
      <3>3. CheckOK(r)'
        BY <1>1, <3>1, <3>2, CheckKept
      <3> QED BY <1>2, <2>2, <3>1, <3>3
    <2> QED BY <2>1, <2>2
  <1>4. checks' \in [Checks -> Check \cup {NoRead}]
    BY <1>2, <1>3
  <1> QED BY <1>3, <1>4 DEF ChecksOK

(* Every reading, arrival and failure, and every change of the chain.       *)
LEMMA DirectoryStep == DirectoryInv /\ (DirectoryNext \/ ChainMoves) => DirectoryInv'
  <1> SUFFICES ASSUME DirectoryInv, DirectoryNext \/ ChainMoves PROVE DirectoryInv'
    OBVIOUS
  <1>1. /\ RegistryInv' /\ HistoryOK' /\ CreatorIds \subseteq CreatorIds'
        /\ \A i \in CreatorIds : WasActive(i) <= WasActive(i)' /\ WasActive(i)' \in Int
        /\ \A ready \in BOOLEAN : WasSo(ready) <= WasSo(ready)' /\ WasSo(ready)' \in Int
    BY HistoryGrows
  <1>2. directory' = directory => DirectoryOK'
    BY <1>1, DirectoryKept
  <1>3. availability' = availability => AvailabilityOK'
    BY <1>1, AvailabilityKept
  <1>4. listings' = listings /\ clock' = clock => ListingsOK'
    BY ListingsKept
  <1>5. checks' = checks /\ clock' = clock => ChecksOK'
    BY ChecksKept
  <1>6. \A i \in CreatorIds : WasActive(i) \in Int
    BY CreatorIs DEF WasActive, DirectoryInv, HistoryOK, RegistryInv, Creator
  <1>7. clock \in Int /\ 0 <= ReadTime /\ ReadTime \in Nat
    BY DirectoryAssumption DEF DirectoryInv, HistoryOK
  <1>8. CASE ChainMoves \/ RoleChanges
    <2>1. UNCHANGED <<clock, directory, availability, listings, checks>>
      BY <1>8 DEF ChainMoves, RoleChanges
    <2> QED BY <1>1, <1>2, <1>3, <1>4, <1>5, <2>1 DEF DirectoryInv
  <1>9. CASE Later
    <2>1. UNCHANGED <<directory, availability, listings, checks>> /\ clock' = clock + 1
      BY <1>9 DEF Later
    <2>2. ASSUME NEW r \in Underway PROVE clock' - r.since <= ReadTime
      <3>1. r.since \in Int
        BY DEF Underway, DirectoryInv, ListingsOK, ChecksOK, Listing, Check
      <3>2. clock + 1 - r.since <= ReadTime
        BY <1>9 DEF Later
      <3> QED BY <1>7, <2>1, <3>1, <3>2
    <2>3. ListingsOK' /\ ChecksOK'
      BY <2>1, <2>2, ListingsKept, ChecksKept
    <2> QED BY <1>1, <1>2, <1>3, <2>1, <2>3 DEF DirectoryInv
  <1>10. ASSUME NEW l \in Listings, ListTargets(l) PROVE DirectoryInv'
    <2>1. /\ UNCHANGED <<clock, directory, availability, checks>>
      BY <1>10 DEF ListTargets
    <2>2. PICK new : new = [since |-> clock, unread |-> CreatorIds, value |-> {}]
      OBVIOUS
    <2>3. listings' = [listings EXCEPT ![l] = new]
      BY <1>10, <2>2 DEF ListTargets
    <2>4. new \in Listing'
      BY <1>1, <1>7, <2>2 DEF Listing
    <2>5. ListingOK(new)'
      BY <1>7, <2>1, <2>2 DEF ListingOK, Recent
    <2>6. ListingsOK'
      BY <2>1, <2>3, <2>4, <2>5, ListingSet
    <2> QED BY <1>1, <1>2, <1>3, <1>5, <2>1, <2>6 DEF DirectoryInv
  <1>11. ASSUME NEW l \in Listings, NEW i \in CreatorIds, CreatorRead(l, i), DirectoryNext PROVE DirectoryInv'
    <2>1. /\ UNCHANGED <<clock, directory, availability, checks>> /\ UNCHANGED registryVars
      BY <1>11 DEF CreatorRead, DirectoryNext
    <2>2. PICK r \in Listing : r = listings[l] /\ ListingOK(r)
      BY <1>11 DEF CreatorRead, DirectoryInv, ListingsOK
    <2>3. PICK new : new = [r EXCEPT !.unread = r.unread \ {i},
                                     !.value = IF creators[i].active THEN r.value \cup {i} ELSE r.value]
      OBVIOUS
    <2>4. listings' = [listings EXCEPT ![l] = new]
      BY <1>11, <2>2, <2>3 DEF CreatorRead, DirectoryInv, ListingsOK
    <2>5. /\ new \in Listing /\ new.since = r.since
          /\ new.value = IF creators[i].active THEN r.value \cup {i} ELSE r.value
      BY <2>3 DEF Listing
    <2>6. creators[i].active => WasActive(i) = clock
      BY DEF DirectoryInv, HistoryOK
    <2>7. ListingOK(new)
      BY <2>2, <2>5, <2>6 DEF ListingOK, Recent
    <2>8. r.since \in Int /\ clock' - new.since <= ReadTime
      BY <2>1, <2>2, <2>5 DEF ListingOK, Recent, Listing
    <2>9. new \in Listing' /\ ListingOK(new)'
      BY <1>1, <1>7, <2>1, <2>5, <2>7, <2>8, ListingKept
    <2>10. ListingsOK'
      BY <2>1, <2>4, <2>9, ListingSet
    <2> QED BY <1>1, <1>2, <1>3, <1>5, <2>1, <2>10 DEF DirectoryInv
  <1>12. ASSUME NEW l \in Listings, Listed(l) PROVE DirectoryInv'
    <2>1. UNCHANGED <<clock, availability, checks>> /\ listings' = [listings EXCEPT ![l] = NoRead]
      BY <1>12 DEF Listed
    <2>2. PICK r \in Listing : r = listings[l] /\ ListingOK(r)
      BY <1>12 DEF Listed, DirectoryInv, ListingsOK
    <2>3. directory' = [checkedAt |-> clock, value |-> r.value]
      BY <1>12, <2>2 DEF Listed, Directory
    <2>4. ListingsOK'
      BY <2>1, ListingSet
    <2>5. ASSUME NEW i \in r.value PROVE clock - WasActive(i)' <= ReadTime
      <3>1. i \in CreatorIds /\ r.since \in Int
        BY <2>2 DEF Listing
      <3>2. r.since <= WasActive(i) /\ clock - r.since <= ReadTime
        BY <2>2 DEF ListingOK, Recent
      <3> QED BY <1>1, <1>6, <1>7, <3>1, <3>2
    <2>6. r.value \subseteq CreatorIds'
      BY <1>1, <2>2 DEF Listing
    <2>7. DirectoryOK'
      BY <1>7, <2>3, <2>5, <2>6 DEF DirectoryOK
    <2> QED BY <1>1, <1>3, <1>5, <2>1, <2>4, <2>7 DEF DirectoryInv
  <1>13. ASSUME NEW l \in Listings, ListingFails(l) PROVE DirectoryInv'
    <2>1. UNCHANGED <<clock, directory, availability, checks>> /\ listings' = [listings EXCEPT ![l] = NoRead]
      BY <1>13 DEF ListingFails
    <2>2. ListingsOK'
      BY <2>1, ListingSet
    <2> QED BY <1>1, <1>2, <1>3, <1>5, <2>1, <2>2 DEF DirectoryInv
  <1>14. ASSUME NEW c \in Checks, CheckReadiness(c) PROVE DirectoryInv'
    <2>1. UNCHANGED <<clock, hasRole, directory, availability, listings>>
      BY <1>14 DEF CheckReadiness
    <2>2. PICK new : new = [since |-> clock, value |-> hasRole]
      OBVIOUS
    <2>3. checks' = [checks EXCEPT ![c] = new]
      BY <1>14, <2>2 DEF CheckReadiness
    <2>4. new \in Check
      BY <1>7, <2>2 DEF Check, DirectoryInv, HistoryOK
    <2>5. WasSo(hasRole)' = clock
      BY <1>1, <2>1 DEF HistoryOK
    <2>6. CheckOK(new)'
      BY <1>7, <2>1, <2>2, <2>5 DEF CheckOK, Recent
    <2>7. ChecksOK'
      BY <2>1, <2>3, <2>4, <2>6, CheckSet
    <2> QED BY <1>1, <1>2, <1>3, <1>4, <2>1, <2>7 DEF DirectoryInv
  <1>15. ASSUME NEW c \in Checks, ReadinessKnown(c) PROVE DirectoryInv'
    <2>1. UNCHANGED <<clock, directory, listings>> /\ checks' = [checks EXCEPT ![c] = NoRead]
      BY <1>15 DEF ReadinessKnown
    <2>2. PICK r \in Check : r = checks[c] /\ CheckOK(r)
      BY <1>15 DEF ReadinessKnown, DirectoryInv, ChecksOK
    <2>3. ChecksOK'
      BY <2>1, CheckSet
    <2>4. r.since \in Int /\ r.value \in BOOLEAN /\ r.since <= WasSo(r.value) /\ clock - r.since <= ReadTime
      BY <2>2 DEF CheckOK, Recent, Check
    <2>5. CASE availability' = [checkedAt |-> clock, value |-> r.value]
      <3>1. PICK v \in BOOLEAN : v = r.value
        BY <2>4
      <3>2. WasSo(v) \in Int /\ WasSo(v) <= WasSo(v)' /\ WasSo(v)' \in Int
        BY <1>1 DEF WasSo, DirectoryInv, HistoryOK
      <3>3. clock - WasSo(v)' <= ReadTime
        BY <1>7, <2>4, <3>1, <3>2
      <3>4. availability' \in [checkedAt : Int, value : BOOLEAN]
        BY <1>7, <2>4, <2>5
      <3>5. availability'.checkedAt = clock /\ availability'.value = v
        BY <2>5, <3>1
      <3> QED BY <1>1, <1>2, <1>4, <2>1, <2>3, <3>3, <3>4, <3>5 DEF DirectoryInv, AvailabilityOK
    <2>6. CASE availability' = [checkedAt |-> clock, value |-> FALSE] /\ wasNotReady' = clock
      <3>1. AvailabilityOK'
        BY <1>7, <2>6 DEF AvailabilityOK, WasSo
      <3> QED BY <1>1, <1>2, <1>4, <2>1, <2>3, <3>1 DEF DirectoryInv
    <2>7. \/ availability' = [checkedAt |-> clock, value |-> r.value]
          \/ availability' = [checkedAt |-> clock, value |-> FALSE] /\ wasNotReady' = clock
      BY <1>15, <2>2 DEF ReadinessKnown
    <2> QED BY <2>5, <2>6, <2>7
  <1> QED BY <1>8, <1>9, <1>10, <1>11, <1>12, <1>13, <1>14, <1>15 DEF DirectoryNext

LEMMA DirectoryStutters == DirectoryInv /\ UNCHANGED <<registryVars, directoryVars>> => DirectoryInv'
  <1> SUFFICES ASSUME DirectoryInv, UNCHANGED <<registryVars, directoryVars>> PROVE DirectoryInv'
    OBVIOUS
  <1>1. UNCHANGED registryVars /\ UNCHANGED directoryVars
    OBVIOUS
  <1>2. RegistryInv'
    BY <1>1, RegistryStep DEF DirectoryInv
  <1>3. UNCHANGED <<CreatorIds, clock, hasRole, directory, availability, listings, checks, creators>>
    BY <1>1 DEF CreatorIds, registryVars, directoryVars
  <1>4. \A i : WasActive(i)' = WasActive(i)
    BY <1>1, <1>3 DEF WasActive, directoryVars
  <1>5. \A ready : WasSo(ready)' = WasSo(ready)
    BY <1>1 DEF WasSo, directoryVars
  <1>6. HistoryOK'
    BY <1>1, <1>3, <1>4, <1>5 DEF DirectoryInv, HistoryOK, directoryVars
  <1>7. ListingsOK'
    BY <1>3, <1>4 DEF DirectoryInv, ListingsOK, Listing, ListingOK, Recent
  <1>8. ChecksOK'
    BY <1>3, <1>5 DEF DirectoryInv, ChecksOK, Check, CheckOK, Recent
  <1>9. DirectoryOK' /\ AvailabilityOK'
    BY <1>3, <1>4, <1>5 DEF DirectoryInv, DirectoryOK, AvailabilityOK
  <1> QED BY <1>2, <1>6, <1>7, <1>8, <1>9 DEF DirectoryInv

(* Within the period what is remembered is a period and a reading old.      *)
LEMMA DirectoryAnswers == DirectoryInv => AnswersAreRecent
  <1> SUFFICES ASSUME DirectoryInv PROVE AnswersAreRecent
    OBVIOUS
  <1>1. clock \in Int /\ DirectoryTTL \in Nat /\ ReadinessTTL \in Nat /\ ReadTime \in Nat
    BY DirectoryAssumption DEF DirectoryInv, HistoryOK
  <1>2. ASSUME DirectoryFresh, NEW i \in directory.value
        PROVE  clock - wasActive[creators[i].account] < DirectoryTTL + ReadTime
    <2>1. i \in CreatorIds /\ directory.checkedAt \in Int /\ directory.checkedAt - WasActive(i) <= ReadTime
      BY DEF DirectoryInv, DirectoryOK
    <2>2. WasActive(i) \in Int
      BY <2>1, CreatorIs DEF WasActive, DirectoryInv, HistoryOK, RegistryInv, Creator
    <2>3. clock - directory.checkedAt < DirectoryTTL
      BY <1>2 DEF DirectoryFresh
    <2>4. clock - WasActive(i) < DirectoryTTL + ReadTime
      BY <1>1, <2>1, <2>2, <2>3
    <2> QED BY <2>4 DEF WasActive
  <1>3. ASSUME ReadinessFresh
        PROVE  clock - (IF availability.value THEN wasReady ELSE wasNotReady) < ReadinessTTL + ReadTime
    <2>1. PICK t \in Int : t = IF availability.value THEN wasReady ELSE wasNotReady
      BY DEF DirectoryInv, HistoryOK
    <2>2. availability.checkedAt \in Int /\ availability.checkedAt - t <= ReadTime
      BY <2>1 DEF DirectoryInv, AvailabilityOK, WasSo
    <2>3. clock - availability.checkedAt < ReadinessTTL
      BY <1>3 DEF ReadinessFresh
    <2>4. clock - t < ReadinessTTL + ReadTime
      BY <1>1, <2>2, <2>3
    <2> QED BY <2>1, <2>4
  <1> QED BY <1>2, <1>3 DEF AnswersAreRecent

(* However readings overlap and overwrite one another, what a caller is      *)
(* given without one was so at most a period and a reading ago.              *)
THEOREM AnswersRecent == DirectorySpec => [](AnswersAreRecent /\ IndexesFollowRecords)
  <1>1. DirectoryInv /\ [DirectoryNext \/ ChainMoves]_<<registryVars, directoryVars>> => DirectoryInv'
    BY DirectoryStep, DirectoryStutters
  <1>2. DirectoryInv => AnswersAreRecent /\ IndexesFollowRecords
    BY DirectoryAnswers DEF DirectoryInv, RegistryInv
  <1> QED BY <1>1, <1>2, DirectoryStart, PTL DEF DirectorySpec

-----------------------------------------------------------------------------
(* Side by side the page, the relayer and the registry it asks, with every  *)
(* step of either.                                                           *)
THEOREM RelayIsTold == SupporterRegistrationSpec => []RelayIsToldTruly
  <1> QED BY SupporterPageCorrect, AnswersRecent, IndexesCorrect, PTL
      DEF SupporterRegistrationSpec, RelayIsToldTruly
=============================================================================
