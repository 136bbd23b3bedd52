------------------------- MODULE VerifiableSortition -------------------------
(***************************************************************************)
(* CreatorFirstVerifiableSortition: a round per governance session draws   *)
(* an order of candidates for each house by a partial Fisher-Yates shuffle *)
(* over a committed roster, and the drawn candidates claim their seats.    *)
(*                                                                         *)
(* One action is one external function; a call that reverts is a stutter.  *)
(* A random word stands for the hashes the contract derives from it, and a *)
(* Merkle root for the roster it commits to.  The governor's sessions and  *)
(* its membership mapping are the interface the contract calls; other      *)
(* registrars of the governor may register members too.                    *)
(***************************************************************************)
EXTENDS Integers, FiniteSets

CONSTANTS
    Sessions,         \* ids of sessions that exist in the governor
    StartsAt,         \* [Sessions -> Nat], their start
    Requests,         \* randomness request ids
    Identities, Wallets,
    Schedules,        \* [closesAt, claimDeadline] the round manager submits
    Sizes,            \* [house -> [population, primary, alternates]] it submits
    Rosters,          \* [house -> [index -> [id, wallet]]] it commits to
    Words,            \* random words, [house -> [rank -> hash]]
    MaxPopulation, MaxTime    \* bounds of the model

Houses == {"CREATOR", "USER"}
Positions == 0..(MaxPopulation - 1)
None == "none"

ASSUME SortitionAssumption ==
    /\ MaxPopulation \in Nat /\ MaxTime \in Nat
    /\ StartsAt \in [Sessions -> Nat] /\ None \notin Sessions
    /\ Schedules \subseteq [closesAt : Nat, claimDeadline : Nat]
    /\ Sizes \subseteq [Houses -> [population : 0..MaxPopulation, primary : Nat, alternates : Nat]]
    /\ Rosters \subseteq [Houses -> [Positions -> [id : Identities, wallet : Wallets]]]
    /\ Words \subseteq [Houses -> [Positions -> Nat]]

VARIABLES
    now,              \* block.timestamp
    rounds,           \* struct Round
    config,           \* struct HouseConfig
    requestSession,   \* requestSessionId
    shuffle,          \* _shuffleValues, encoded: 0 or value + 1
    selected,         \* selectedIndexPlusOne
    rankClaimed,      \* ranks claimed, per house
    identityUsed,     \* governanceIdentityUsed
    memberHouse,      \* the governor's membership mapping
    claims            \* history: the seats claimed, and when

vars == <<now, rounds, config, requestSession, shuffle, selected, rankClaimed, identityUsed,
          memberHouse, claims>>

NoRound == [exists |-> FALSE, closesAt |-> 0, claimDeadline |-> 0, fulfilled |-> FALSE]
NoConfig == [population |-> 0, primary |-> 0, alternates |-> 0, selectedCount |-> 0,
             activeRankLimit |-> 0]

Init ==
    /\ now = 0
    /\ rounds = [s \in Sessions |-> NoRound]
    /\ config = [s \in Sessions |-> [h \in Houses |-> NoConfig]]
    /\ requestSession = [r \in Requests |-> None]
    /\ shuffle = [s \in Sessions |-> [h \in Houses |-> [p \in Positions |-> 0]]]
    /\ selected = [s \in Sessions |-> [h \in Houses |-> [k \in Positions |-> 0]]]
    /\ rankClaimed = [s \in Sessions |-> [h \in Houses |-> {}]]
    /\ identityUsed = [s \in Sessions |-> {}]
    /\ memberHouse = [s \in Sessions |-> [w \in Wallets |-> None]]
    /\ claims = [s \in Sessions |-> {}]

Tick ==
    /\ now < MaxTime
    /\ now' = now + 1
    /\ UNCHANGED <<rounds, config, requestSession, shuffle, selected, rankClaimed, identityUsed,
                   memberHouse, claims>>

------------------------------------------------------------------------------
(* The round manager commits the rosters; the provider delivers the word. *)

ValidSize(z) == z.population # 0 /\ z.primary # 0 /\ z.primary + z.alternates <= z.population

(* RandomnessRequestAlreadyUsed *)
RequestFree(r) == requestSession[r] = None

CreateRound(s, r, schedule, sizes, roster) ==
    /\ ~rounds[s].exists
    /\ RequestFree(r)
    /\ schedule.closesAt > now /\ schedule.claimDeadline > schedule.closesAt
    /\ schedule.claimDeadline < StartsAt[s]
    /\ \A h \in Houses : ValidSize(sizes[h])
    /\ rounds' = [rounds EXCEPT ![s] =
            [exists |-> TRUE, closesAt |-> schedule.closesAt,
             claimDeadline |-> schedule.claimDeadline, fulfilled |-> FALSE,
             request |-> r, roster |-> roster]]
    /\ config' = [config EXCEPT ![s] = [h \in Houses |->
            [population |-> sizes[h].population, primary |-> sizes[h].primary,
             alternates |-> sizes[h].alternates, selectedCount |-> 0,
             activeRankLimit |-> sizes[h].primary]]]
    /\ requestSession' = [requestSession EXCEPT ![r] = s]
    /\ UNCHANGED <<now, shuffle, selected, rankClaimed, identityUsed, memberHouse, claims>>

Mut_Redeliver(s) == now >= rounds[s].closesAt /\ now < rounds[s].claimDeadline
(* After the applications closed, before the claim deadline, once. *)
AwaitingWord(s) ==
    /\ now >= rounds[s].closesAt /\ now < rounds[s].claimDeadline
    /\ ~rounds[s].fulfilled

FulfillRandomness(r, word) ==
    LET s == requestSession[r] IN
    /\ s \in Sessions /\ rounds[s].exists /\ rounds[s].request = r
    /\ AwaitingWord(s)
    /\ rounds' = [rounds EXCEPT ![s] =
            [exists |-> TRUE, closesAt |-> @.closesAt, claimDeadline |-> @.claimDeadline,
             fulfilled |-> TRUE, request |-> r, roster |-> @.roster, word |-> word]]
    /\ UNCHANGED <<now, config, requestSession, shuffle, selected, rankClaimed, identityUsed,
                   memberHouse, claims>>

------------------------------------------------------------------------------
(* The draw. *)

TotalSelections(s, h) == config[s][h].primary + config[s][h].alternates

(* _shuffleValue: a position never written holds itself. *)
ShuffleValue(s, h, p) ==
    IF shuffle[s][h][p] = 0 THEN p ELSE shuffle[s][h][p] - 1

Mut_FromTheStart(s, h) ==
    rounds[s].word[h][config[s][h].selectedCount]
        % (config[s][h].population - config[s][h].selectedCount)
(* A position not drawn yet: the rank plus the hash modulo what remains. *)
RandomPosition(s, h) ==
    LET rank == config[s][h].selectedCount IN
    rank + (rounds[s].word[h][rank] % (config[s][h].population - rank))

(* What takes the drawn candidate's place: the value at the rank's position. *)
Replacement(s, h) == ShuffleValue(s, h, config[s][h].selectedCount)

Mut_PrimariesOnly(s, h) == config[s][h].selectedCount < config[s][h].primary
SelectionsRemain(s, h) == config[s][h].selectedCount < TotalSelections(s, h)

(* Anyone may call it, at any time once the word is there. *)
FinalizeNextSelection(s, h) ==
    LET rank == config[s][h].selectedCount
        position == RandomPosition(s, h)
    IN
    /\ rounds[s].exists /\ rounds[s].fulfilled
    /\ SelectionsRemain(s, h)
    /\ shuffle' = [shuffle EXCEPT ![s][h][position] = Replacement(s, h) + 1]
    /\ selected' = [selected EXCEPT ![s][h][rank] = ShuffleValue(s, h, position) + 1]
    /\ config' = [config EXCEPT ![s][h].selectedCount = rank + 1]
    /\ UNCHANGED <<now, rounds, requestSession, rankClaimed, identityUsed, memberHouse, claims>>

------------------------------------------------------------------------------
(* Claims. *)

(* A primary seat is claimed by the claim deadline; an alternate one later. *)
ClaimInTime(s, h, rank) == rank < config[s][h].primary => now <= rounds[s].claimDeadline

Mut_ForgetIdentity(s, id) == id \in Identities
(* GovernanceIdentityAlreadyUsed, in either house. *)
IdentityFree(s, id) == id \notin identityUsed[s]

(* The Merkle proof of the leaf at the drawn index. *)
ProofHolds(s, h, rank, entry) ==
    /\ selected[s][h][rank] # 0
    /\ rounds[s].roster[h][selected[s][h][rank] - 1] = entry

Mut_MoveHouse(s, w) == now < StartsAt[s]
(* governor.registerMember: MembershipClosed and MemberAlreadyRegistered. *)
MembershipOpen(s, w) == now < StartsAt[s] /\ memberHouse[s][w] = None

(* The caller is the wallet of the entry. *)
ClaimSeat(s, h, rank, entry) ==
    /\ rounds[s].exists
    /\ now < StartsAt[s]
    /\ ClaimInTime(s, h, rank)
    /\ rank < config[s][h].activeRankLimit
    /\ rank \notin rankClaimed[s][h]
    /\ IdentityFree(s, entry.id)
    /\ ProofHolds(s, h, rank, entry)
    /\ MembershipOpen(s, entry.wallet)
    /\ rankClaimed' = [rankClaimed EXCEPT ![s][h] = @ \cup {rank}]
    /\ identityUsed' = [identityUsed EXCEPT ![s] = @ \cup {entry.id}]
    /\ memberHouse' = [memberHouse EXCEPT ![s][entry.wallet] = h]
    /\ claims' = [claims EXCEPT ![s] = @ \cup
            {[house |-> h, rank |-> rank, entry |-> entry, at |-> now]}]
    /\ UNCHANGED <<now, rounds, config, requestSession, shuffle, selected>>

AlternateDrawn(s, h) ==
    /\ config[s][h].activeRankLimit < TotalSelections(s, h)
    /\ config[s][h].activeRankLimit < config[s][h].selectedCount

(* The vacancy evidence is a hash; the contract asks that it is not zero. *)
ActivateNextAlternate(s, h) ==
    /\ rounds[s].exists /\ now > rounds[s].claimDeadline
    /\ AlternateDrawn(s, h)
    /\ config' = [config EXCEPT ![s][h].activeRankLimit = @ + 1]
    /\ UNCHANGED <<now, rounds, requestSession, shuffle, selected, rankClaimed, identityUsed,
                   memberHouse, claims>>

(* Another holder of the governor's registrar role registers a wallet. *)
RegisterByOther(s, w, h) ==
    /\ MembershipOpen(s, w)
    /\ memberHouse' = [memberHouse EXCEPT ![s][w] = h]
    /\ UNCHANGED <<now, rounds, config, requestSession, shuffle, selected, rankClaimed,
                   identityUsed, claims>>

Next ==
    \/ Tick
    \/ \E s \in Sessions, r \in Requests, schedule \in Schedules, sizes \in Sizes,
          roster \in Rosters : CreateRound(s, r, schedule, sizes, roster)
    \/ \E r \in Requests, word \in Words : FulfillRandomness(r, word)
    \/ \E s \in Sessions, h \in Houses :
        \/ FinalizeNextSelection(s, h)
        \/ ActivateNextAlternate(s, h)
        \/ \E rank \in Positions :
              \E entry \in [id : Identities, wallet : Wallets] : ClaimSeat(s, h, rank, entry)
        \/ \E w \in Wallets : RegisterByOther(s, w, h)

Spec == Init /\ [][Next]_vars

(* Anyone may call finalizeNextSelection. *)
LiveSpec == Spec /\ \A s \in Sessions, h \in Houses : WF_vars(FinalizeNextSelection(s, h))

------------------------------------------------------------------------------
(* Properties. *)

Round == [exists : {FALSE}, closesAt : Nat, claimDeadline : Nat, fulfilled : {FALSE}]
    \cup [exists : {TRUE}, closesAt : Nat, claimDeadline : Nat, fulfilled : {FALSE},
          request : Requests, roster : Rosters]
    \cup [exists : {TRUE}, closesAt : Nat, claimDeadline : Nat, fulfilled : {TRUE},
          request : Requests, roster : Rosters, word : Words]
HouseConfig == [population : 0..MaxPopulation, primary : Nat, alternates : Nat,
                selectedCount : 0..MaxPopulation, activeRankLimit : 0..MaxPopulation]
Entry == [id : Identities, wallet : Wallets]

(* Every mapping of the contract holds values of its declared type. *)
TypeOK ==
    /\ now \in Nat
    /\ rounds \in [Sessions -> Round]
    /\ config \in [Sessions -> [Houses -> HouseConfig]]
    /\ requestSession \in [Requests -> Sessions \cup {None}]
    /\ shuffle \in [Sessions -> [Houses -> [Positions -> Nat]]]
    /\ selected \in [Sessions -> [Houses -> [Positions -> Nat]]]
    /\ rankClaimed \in [Sessions -> [Houses -> SUBSET Positions]]
    /\ identityUsed \in [Sessions -> SUBSET Identities]
    /\ memberHouse \in [Sessions -> [Wallets -> Houses \cup {None}]]
    /\ claims \in [Sessions ->
            SUBSET [house : Houses, rank : Positions, entry : Entry, at : Nat]]

Drawn(s, h) == 0..(config[s][h].selectedCount - 1)
Candidate(s, h, rank) == selected[s][h][rank] - 1

(* The sparse partial shuffle draws without replacement: the ranks drawn so  *)
(* far have distinct candidates of the committed population.                 *)
SelectionIsDuplicateFree ==
    \A s \in Sessions, h \in Houses : \A k \in Drawn(s, h) :
        /\ Candidate(s, h, k) \in 0..(config[s][h].population - 1)
        /\ \A j \in Drawn(s, h) : Candidate(s, h, j) = Candidate(s, h, k) => j = k

(* The positions still in play hold exactly the candidates not drawn yet, so *)
(* every one of them can still be drawn.                                     *)
PoolIsTheRest ==
    \A s \in Sessions, h \in Houses :
        {ShuffleValue(s, h, p) :
            p \in config[s][h].selectedCount..(config[s][h].population - 1)}
        = (0..(config[s][h].population - 1)) \ {Candidate(s, h, k) : k \in Drawn(s, h)}

(* One governance identity has at most one seat of the two houses, one rank  *)
(* at most one holder, and each holder is the candidate drawn for that rank. *)
HoldersWereDrawn ==
    \A s \in Sessions :
        /\ \A x, y \in claims[s] : x.entry.id = y.entry.id => x = y
        /\ \A x, y \in claims[s] : x.house = y.house /\ x.rank = y.rank => x = y
        /\ \A x \in claims[s] :
              /\ x.rank \in Drawn(s, x.house)
              /\ x.entry = rounds[s].roster[x.house][Candidate(s, x.house, x.rank)]

(* A seat's holder votes in the seat's house, whatever other registrars do.  *)
HoldersAreMembers ==
    \A s \in Sessions : \A x \in claims[s] : memberHouse[s][x.entry.wallet] = x.house

(* Alternates wait for the deadline of the primaries, who cannot come later: *)
(* the two groups never claim at the same time, and only drawn alternates    *)
(* are activated.                                                            *)
AlternatesFollowPrimaries ==
    \A s \in Sessions :
        /\ \A x \in claims[s] : x.rank < config[s][x.house].primary <=> x.at <= rounds[s].claimDeadline
        /\ \A h \in Houses : config[s][h].activeRankLimit > config[s][h].primary =>
              config[s][h].activeRankLimit <= config[s][h].selectedCount

(* However claims of both houses, deadlines and activations interleave, the  *)
(* seats are held by those drawn for them, primaries before alternates.      *)
SeatsFollowTheDraw == HoldersWereDrawn /\ AlternatesFollowPrimaries

(* What was drawn is never drawn again differently: neither the order, nor   *)
(* the roster and the word it came from, changes once it is known.           *)
DrawIsFinalStep ==
    \A s \in Sessions :
        /\ \A h \in Houses : \A k \in Drawn(s, h) : UNCHANGED selected[s][h][k]
        /\ rounds[s].fulfilled => UNCHANGED rounds[s]
DrawIsFinal == [][DrawIsFinalStep]_vars

(* A delivered word leads to a complete order, alternates included.          *)
DrawCompletes ==
    \A s \in Sessions, h \in Houses :
        rounds[s].fulfilled ~> config[s][h].selectedCount = TotalSelections(s, h)
=============================================================================
