---------------------------- MODULE CreatorRegistry ----------------------------
(***************************************************************************)
(* CreatorFirstCreatorRegistry: pseudonymous creators and the releases     *)
(* they declare, with two indexes kept beside the records, and the adapter *)
(* that links the scope of a supporter credential to a creator.  A profile *)
(* and a release are commitments; zero commitments and addresses are       *)
(* refused and left out, as are the holders of roles.                      *)
(***************************************************************************)
EXTENDS Integers, Sequences, FiniteSets

CONSTANTS
    CreatorAccounts, Commitments, Works, Scopes,
    MaxReleases                 \* bound of the model

VARIABLES
    creators, releases,         \* by id, from 1
    creatorIdByAccount, creatorIdByProfileCommitment,
    registryPaused,
    creatorIdByScope            \* the adapter

registryVars == <<creators, releases, creatorIdByAccount, creatorIdByProfileCommitment,
                  registryPaused, creatorIdByScope>>

RegistryInit ==
    /\ creators = <<>> /\ releases = <<>>
    /\ creatorIdByAccount = [a \in CreatorAccounts |-> 0]
    /\ creatorIdByProfileCommitment = [c \in Commitments |-> 0]
    /\ registryPaused = FALSE
    /\ creatorIdByScope = [s \in Scopes |-> 0]

CreatorIds == DOMAIN creators

MayRegister(a, c) ==
    ~registryPaused /\ creatorIdByAccount[a] = 0 /\ creatorIdByProfileCommitment[c] = 0

RegisterCreator(a, c, payout) ==
    /\ MayRegister(a, c)
    /\ creators' = Append(creators, [account |-> a, payoutAddress |-> payout, profileCommitment |-> c,
                                     releaseCount |-> 0, active |-> TRUE])
    /\ creatorIdByAccount' = [creatorIdByAccount EXCEPT ![a] = Len(creators) + 1]
    /\ creatorIdByProfileCommitment' = [creatorIdByProfileCommitment EXCEPT ![c] = Len(creators) + 1]
    /\ UNCHANGED <<releases, registryPaused, creatorIdByScope>>

(* The previous commitment may be the new one. *)
Recommitted(i, c) == [creatorIdByProfileCommitment EXCEPT ![creators[i].profileCommitment] = 0, ![c] = i]

UpdateProfileCommitment(a, c) ==
    LET i == creatorIdByAccount[a] IN
    /\ ~registryPaused /\ i # 0 /\ creatorIdByProfileCommitment[c] \in {0, i}
    /\ creatorIdByProfileCommitment' = Recommitted(i, c)
    /\ creators' = [creators EXCEPT ![i].profileCommitment = c]
    /\ UNCHANGED <<releases, creatorIdByAccount, registryPaused, creatorIdByScope>>

UpdatePayoutAddress(a, payout) ==
    /\ ~registryPaused /\ creatorIdByAccount[a] # 0
    /\ creators' = [creators EXCEPT ![creatorIdByAccount[a]].payoutAddress = payout]
    /\ UNCHANGED <<releases, creatorIdByAccount, creatorIdByProfileCommitment, registryPaused, creatorIdByScope>>

SetActive(a, active) ==
    /\ ~registryPaused /\ creatorIdByAccount[a] # 0
    /\ creators' = [creators EXCEPT ![creatorIdByAccount[a]].active = active]
    /\ UNCHANGED <<releases, creatorIdByAccount, creatorIdByProfileCommitment, registryPaused, creatorIdByScope>>

MayDeclare(a) ==
    ~registryPaused /\ creatorIdByAccount[a] # 0 /\ creators[creatorIdByAccount[a]].active

DeclareRelease(a, work) ==
    LET i == creatorIdByAccount[a] IN
    /\ MayDeclare(a) /\ Len(releases) < MaxReleases
    /\ releases' = Append(releases, [creatorId |-> i, work |-> work, state |-> "DECLARED_UNVERIFIED"])
    /\ creators' = [creators EXCEPT ![i].releaseCount = @ + 1]
    /\ UNCHANGED <<creatorIdByAccount, creatorIdByProfileCommitment, registryPaused, creatorIdByScope>>

WithdrawRelease(a, r) ==
    /\ ~registryPaused /\ creatorIdByAccount[a] # 0
    /\ releases[r].state = "DECLARED_UNVERIFIED" /\ releases[r].creatorId = creatorIdByAccount[a]
    /\ releases' = [releases EXCEPT ![r].state = "WITHDRAWN"]
    /\ UNCHANGED <<creators, creatorIdByAccount, creatorIdByProfileCommitment, registryPaused, creatorIdByScope>>

PauseRegistry(p) ==
    /\ registryPaused # p /\ registryPaused' = p
    /\ UNCHANGED <<creators, releases, creatorIdByAccount, creatorIdByProfileCommitment, creatorIdByScope>>

LinkCreatorScope(s, i) ==
    /\ creatorIdByScope' = [creatorIdByScope EXCEPT ![s] = i]
    /\ UNCHANGED <<creators, releases, creatorIdByAccount, creatorIdByProfileCommitment, registryPaused>>

(* The owners of accounts, the pauser and the mapper. *)
RegistryNext ==
    \/ \E a \in CreatorAccounts :
        \/ \E c \in Commitments : UpdateProfileCommitment(a, c)
        \/ \E payout \in CreatorAccounts :
               UpdatePayoutAddress(a, payout) \/ \E c \in Commitments : RegisterCreator(a, c, payout)
        \/ \E active \in BOOLEAN : SetActive(a, active)
        \/ \E w \in Works : DeclareRelease(a, w)
        \/ \E r \in DOMAIN releases : WithdrawRelease(a, r)
    \/ \E p \in BOOLEAN : PauseRegistry(p)
    \/ \E s \in Scopes, i \in CreatorIds : LinkCreatorScope(s, i)

RegistrySpec == RegistryInit /\ [][RegistryNext]_registryVars

------------------------------------------------------------------------------
(* After registrations and changes of profile in any order each index names  *)
(* the creator that has the account or the commitment, and only that one; a  *)
(* creator's count is that of its releases, the withdrawn ones included.     *)
IndexesFollowRecords ==
    /\ \A a \in CreatorAccounts, i \in CreatorIds : creatorIdByAccount[a] = i <=> creators[i].account = a
    /\ \A c \in Commitments, i \in CreatorIds :
           creatorIdByProfileCommitment[c] = i <=> creators[i].profileCommitment = c
    /\ \A i \in CreatorIds :
           creators[i].releaseCount = Cardinality({r \in DOMAIN releases : releases[r].creatorId = i})
=============================================================================
