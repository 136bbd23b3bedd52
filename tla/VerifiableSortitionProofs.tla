---------------------- MODULE VerifiableSortitionProofs ----------------------
(***************************************************************************)
(* Proofs about VerifiableSortition for every population, number of seats, *)
(* roster and random word.                                                 *)
(***************************************************************************)
EXTENDS VerifiableSortition, TLAPS

LEMMA TypeInit == Init => TypeOK
  BY SortitionAssumption DEF Init, TypeOK, NoRound, NoConfig, Round, HouseConfig


------------------------------------------------------------------------------
(* The inductive invariant of the draw. *)

Population(s, h) == config[s][h].population
Count(s, h) == config[s][h].selectedCount
Pool(s, h) == Count(s, h)..(Population(s, h) - 1)

(* No more ranks than candidates, and none drawn before the word is there. *)
SizesFit ==
    \A s \in Sessions, h \in Houses :
        /\ Count(s, h) <= TotalSelections(s, h) /\ TotalSelections(s, h) <= Population(s, h)
        /\ ~rounds[s].exists => config[s][h] = NoConfig
        /\ ~rounds[s].fulfilled => Count(s, h) = 0

(* The sparse shuffle is the identity before the first draw. *)
Untouched(s, h) == Count(s, h) = 0 => \A p \in Positions : shuffle[s][h][p] = 0

(* The pool and the drawn candidates partition the population. *)
DrawnApart(s, h) ==
    \A k \in Drawn(s, h) :
        /\ Candidate(s, h, k) \in 0..(Population(s, h) - 1)
        /\ \A j \in Drawn(s, h) : Candidate(s, h, j) = Candidate(s, h, k) => j = k
PoolApart(s, h) ==
    \A p \in Pool(s, h) :
        /\ ShuffleValue(s, h, p) \in 0..(Population(s, h) - 1)
        /\ \A q \in Pool(s, h) : ShuffleValue(s, h, p) = ShuffleValue(s, h, q) => p = q
        /\ \A k \in Drawn(s, h) : Candidate(s, h, k) # ShuffleValue(s, h, p)
NoneLost(s, h) ==
    \A c \in 0..(Population(s, h) - 1) :
        \/ \E k \in Drawn(s, h) : Candidate(s, h, k) = c
        \/ \E p \in Pool(s, h) : ShuffleValue(s, h, p) = c

Partition(s, h) == Untouched(s, h) /\ DrawnApart(s, h) /\ PoolApart(s, h) /\ NoneLost(s, h)
DrawInv == SizesFit /\ \A s \in Sessions, h \in Houses : Partition(s, h)

(* The next rank and the position the word gives it lie in the pool. *)
LEMMA PositionInPool ==
    ASSUME TypeOK, SizesFit, NEW s \in Sessions, NEW h \in Houses, FinalizeNextSelection(s, h)
    PROVE  /\ Count(s, h) \in Pool(s, h) /\ RandomPosition(s, h) \in Pool(s, h)
           /\ Pool(s, h) \subseteq Positions
           /\ Count(s, h) \in Nat /\ Population(s, h) \in Nat
  <1>1. config[s][h] \in HouseConfig /\ rounds[s] \in Round
    BY DEF TypeOK
  <1>2. /\ Count(s, h) \in Nat /\ Population(s, h) \in 0..MaxPopulation
        /\ TotalSelections(s, h) \in Nat
    BY <1>1 DEF HouseConfig, Count, Population, TotalSelections
  <1>3. Count(s, h) < Population(s, h)
    BY <1>2 DEF FinalizeNextSelection, SelectionsRemain, SizesFit, Count
  <1>4. Pool(s, h) \subseteq Positions /\ Count(s, h) \in Pool(s, h)
    BY <1>2, <1>3, SortitionAssumption DEF Pool, Positions
  <1>5. rounds[s].word[h][Count(s, h)] \in Nat
    <2>1. rounds[s].word \in Words
      BY <1>1 DEF FinalizeNextSelection, Round
    <2> QED BY <2>1, <1>4, SortitionAssumption
  <1>6. rounds[s].word[h][Count(s, h)] % (Population(s, h) - Count(s, h))
            \in 0..(Population(s, h) - Count(s, h) - 1)
    <2>1. \A a \in Nat, b \in Nat \ {0} : a % b \in 0..(b - 1)
      OBVIOUS
    <2>2. Population(s, h) - Count(s, h) \in Nat \ {0}
      BY <1>2, <1>3
    <2> QED BY <2>1, <2>2, <1>5
  <1>7. RandomPosition(s, h) =
            Count(s, h) + (rounds[s].word[h][Count(s, h)] % (Population(s, h) - Count(s, h)))
    BY DEF RandomPosition, Count, Population
  <1>8. RandomPosition(s, h) \in Pool(s, h)
    BY <1>2, <1>3, <1>6, <1>7 DEF Pool
  <1> QED BY <1>2, <1>4, <1>8

LEMMA ValueInNat ==
    ASSUME TypeOK, NEW s \in Sessions, NEW h \in Houses, NEW p \in Positions
    PROVE  ShuffleValue(s, h, p) \in Nat
  <1>1. shuffle[s][h][p] \in Nat /\ p \in Nat
    BY SortitionAssumption DEF TypeOK, Positions
  <1> QED BY <1>1 DEF ShuffleValue

LEMMA TypeStep == TypeOK /\ SizesFit /\ [Next]_vars => TypeOK'
  <1> SUFFICES ASSUME TypeOK, SizesFit, [Next]_vars PROVE TypeOK'
    OBVIOUS
  <1>1. CASE Tick
    BY <1>1 DEF Tick, TypeOK
  <1>2. ASSUME NEW s \in Sessions, NEW r \in Requests, NEW schedule \in Schedules,
               NEW sizes \in Sizes, NEW roster \in Rosters,
               CreateRound(s, r, schedule, sizes, roster)
        PROVE  TypeOK'
    <2>1. rounds' \in [Sessions -> Round]
      <3>1. [exists |-> TRUE, closesAt |-> schedule.closesAt,
             claimDeadline |-> schedule.claimDeadline, fulfilled |-> FALSE,
             request |-> r, roster |-> roster] \in Round
        BY SortitionAssumption DEF Round
      <3> QED BY <1>2, <3>1 DEF CreateRound, TypeOK
    <2>2. config' \in [Sessions -> [Houses -> HouseConfig]]
      <3>1. \A h \in Houses : sizes[h] \in [population : 0..MaxPopulation, primary : Nat,
                                            alternates : Nat]
        BY SortitionAssumption
      <3>2. [h \in Houses |->
                [population |-> sizes[h].population, primary |-> sizes[h].primary,
                 alternates |-> sizes[h].alternates, selectedCount |-> 0,
                 activeRankLimit |-> sizes[h].primary]] \in [Houses -> HouseConfig]
        <4>1. \A h \in Houses : sizes[h].primary \in 0..MaxPopulation /\ 0 \in 0..MaxPopulation
          BY <1>2, <3>1, SortitionAssumption DEF CreateRound, ValidSize
        <4> QED BY <3>1, <4>1 DEF HouseConfig
      <3> QED BY <1>2, <3>2 DEF CreateRound, TypeOK
    <2>3. requestSession' \in [Requests -> Sessions \cup {None}]
      BY <1>2 DEF CreateRound, TypeOK
    <2> QED BY <1>2, <2>1, <2>2, <2>3 DEF CreateRound, TypeOK
  <1>3. ASSUME NEW r \in Requests, NEW word \in Words, FulfillRandomness(r, word) PROVE TypeOK'
    <2> DEFINE s == requestSession[r]
    <2>1. /\ s \in Sessions /\ rounds[s] \in Round /\ rounds[s].exists /\ ~rounds[s].fulfilled
      BY <1>3 DEF FulfillRandomness, AwaitingWord, TypeOK
    <2>2. /\ rounds[s].closesAt \in Nat /\ rounds[s].claimDeadline \in Nat
          /\ rounds[s].roster \in Rosters
      BY <2>1 DEF Round
    <2>3. [exists |-> TRUE, closesAt |-> rounds[s].closesAt,
           claimDeadline |-> rounds[s].claimDeadline, fulfilled |-> TRUE, request |-> r,
           roster |-> rounds[s].roster, word |-> word] \in Round
      BY <2>2 DEF Round
    <2> QED BY <1>3, <2>1, <2>3 DEF FulfillRandomness, TypeOK
  <1>4. ASSUME NEW s \in Sessions, NEW h \in Houses, FinalizeNextSelection(s, h) PROVE TypeOK'
    <2> DEFINE rank == config[s][h].selectedCount
               position == RandomPosition(s, h)
    <2>1. /\ rank \in Nat /\ config[s] \in [Houses -> HouseConfig]
          /\ config[s][h] \in HouseConfig
      BY DEF TypeOK, HouseConfig
    <2>2. config' \in [Sessions -> [Houses -> HouseConfig]]
      <3>1. [config[s][h] EXCEPT !.selectedCount = rank + 1] \in HouseConfig
        <4>1. rank < Population(s, h)
          BY <1>4, PositionInPool DEF Pool, Count, Population
        <4>2. rank + 1 \in 0..MaxPopulation
          BY <2>1, <4>1, SortitionAssumption DEF HouseConfig, Population
        <4> QED BY <2>1, <4>2 DEF HouseConfig
      <3>2. config' = [config EXCEPT ![s] = [config[s] EXCEPT ![h] =
                            [config[s][h] EXCEPT !.selectedCount = rank + 1]]]
        BY <1>4 DEF FinalizeNextSelection, TypeOK
      <3> HIDE DEF rank
      <3> QED BY <2>1, <3>1, <3>2 DEF TypeOK
    <2>3. ShuffleValue(s, h, position) + 1 \in Nat /\ Replacement(s, h) + 1 \in Nat
      <3>1. ShuffleValue(s, h, position) \in Nat /\ Replacement(s, h) \in Nat
        BY <1>4, PositionInPool, ValueInNat DEF Replacement, Count
      <3> QED BY <3>1
    <2>4. shuffle' \in [Sessions -> [Houses -> [Positions -> Nat]]]
      <3> DEFINE row == [shuffle[s][h] EXCEPT ![position] = Replacement(s, h) + 1]
      <3>1. row \in [Positions -> Nat]
        <4>1. shuffle[s][h] \in [Positions -> Nat]
          BY DEF TypeOK
        <4> QED BY <2>3, <4>1
      <3>2. shuffle' = [shuffle EXCEPT ![s] = [shuffle[s] EXCEPT ![h] = row]]
        BY <1>4 DEF FinalizeNextSelection, TypeOK
      <3> HIDE DEF row
      <3> QED BY <3>1, <3>2 DEF TypeOK
    <2>5. selected' \in [Sessions -> [Houses -> [Positions -> Nat]]]
      <3> DEFINE row == [selected[s][h] EXCEPT ![rank] = ShuffleValue(s, h, position) + 1]
      <3>1. row \in [Positions -> Nat]
        <4>1. selected[s][h] \in [Positions -> Nat]
          BY DEF TypeOK
        <4> QED BY <2>3, <4>1
      <3>2. selected' = [selected EXCEPT ![s] = [selected[s] EXCEPT ![h] = row]]
        BY <1>4 DEF FinalizeNextSelection, TypeOK
      <3> HIDE DEF row
      <3> QED BY <3>1, <3>2 DEF TypeOK
    <2> QED BY <1>4, <2>2, <2>4, <2>5 DEF FinalizeNextSelection, TypeOK
  <1>5. ASSUME NEW s \in Sessions, NEW h \in Houses, NEW rank \in Positions, NEW entry \in Entry,
               ClaimSeat(s, h, rank, entry)
        PROVE  TypeOK'
    <2>1. entry.id \in Identities /\ entry.wallet \in Wallets
      BY DEF Entry
    <2>2. [house |-> h, rank |-> rank, entry |-> entry, at |-> now]
            \in [house : Houses, rank : Positions, entry : Entry, at : Nat]
      BY DEF TypeOK
    <2>3. /\ rankClaimed' \in [Sessions -> [Houses -> SUBSET Positions]]
          /\ identityUsed' \in [Sessions -> SUBSET Identities]
          /\ memberHouse' \in [Sessions -> [Wallets -> Houses \cup {None}]]
      BY <1>5, <2>1 DEF ClaimSeat, TypeOK
    <2>4. claims' \in [Sessions ->
                SUBSET [house : Houses, rank : Positions, entry : Entry, at : Nat]]
      BY <1>5, <2>2 DEF ClaimSeat, TypeOK
    <2> QED BY <1>5, <2>3, <2>4 DEF ClaimSeat, TypeOK
  <1>6. ASSUME NEW s \in Sessions, NEW h \in Houses, ActivateNextAlternate(s, h) PROVE TypeOK'
    <2>1. config[s] \in [Houses -> HouseConfig] /\ config[s][h] \in HouseConfig
      BY DEF TypeOK
    <2>2. [config[s][h] EXCEPT !.activeRankLimit = @ + 1] \in HouseConfig
      <3>1. /\ config[s][h].activeRankLimit < TotalSelections(s, h)
            /\ TotalSelections(s, h) <= config[s][h].population
        BY <1>6 DEF ActivateNextAlternate, AlternateDrawn, SizesFit, Population
      <3>2. /\ TotalSelections(s, h) \in Nat /\ config[s][h].population \in 0..MaxPopulation
            /\ config[s][h].activeRankLimit \in 0..MaxPopulation
        BY <2>1 DEF HouseConfig, TotalSelections
      <3>3. config[s][h].activeRankLimit + 1 \in 0..MaxPopulation
        BY <3>1, <3>2, SortitionAssumption
      <3> QED BY <2>1, <3>3 DEF HouseConfig
    <2>3. config' = [config EXCEPT ![s] = [config[s] EXCEPT ![h] =
                          [config[s][h] EXCEPT !.activeRankLimit = @ + 1]]]
      BY <1>6 DEF ActivateNextAlternate, TypeOK
    <2>4. config' \in [Sessions -> [Houses -> HouseConfig]]
      BY <2>1, <2>2, <2>3 DEF TypeOK
    <2> QED BY <1>6, <2>4 DEF ActivateNextAlternate, TypeOK
  <1>7. ASSUME NEW s \in Sessions, NEW w \in Wallets, NEW h \in Houses, RegisterByOther(s, w, h)
        PROVE  TypeOK'
    BY <1>7 DEF RegisterByOther, TypeOK
  <1>8. CASE UNCHANGED vars
    BY <1>8 DEF vars, TypeOK
  <1> QED
    BY <1>1, <1>2, <1>3, <1>4, <1>5, <1>6, <1>7, <1>8 DEF Next, Entry

------------------------------------------------------------------------------
(* The draw keeps its invariant. *)

LEMMA DrawInit == Init => DrawInv
  BY SortitionAssumption DEF Init, DrawInv, SizesFit, Partition, Untouched, DrawnApart, PoolApart,
     NoneLost, Count, Population, Pool, TotalSelections, Drawn, NoRound, NoConfig

(* A new round draws from the identity. *)
LEMMA FreshPartition ==
    ASSUME TypeOK, TypeOK', NEW s \in Sessions, NEW h \in Houses,
           \A p \in Positions : shuffle'[s][h][p] = 0,
           Count(s, h)' = 0
    PROVE  Partition(s, h)'
  <1>1. Population(s, h)' \in 0..MaxPopulation
    BY DEF TypeOK, Population, HouseConfig
  <1>2. Pool(s, h)' = 0..(Population(s, h)' - 1) /\ Drawn(s, h)' = {}
    BY DEF Pool, Drawn, Count
  <1>3. \A p \in 0..(Population(s, h)' - 1) : p \in Positions
    BY <1>1, SortitionAssumption DEF Positions
  <1>4. \A p \in Positions : ShuffleValue(s, h, p)' = p
    BY DEF ShuffleValue
  <1> QED
    BY <1>2, <1>3, <1>4 DEF Partition, Untouched, DrawnApart, PoolApart, NoneLost

(* The draw of a house that is left alone. *)
LEMMA SamePartition ==
    ASSUME NEW s \in Sessions, NEW h \in Houses, Partition(s, h),
           Count(s, h)' = Count(s, h), Population(s, h)' = Population(s, h),
           shuffle'[s][h] = shuffle[s][h], selected'[s][h] = selected[s][h]
    PROVE  Partition(s, h)'
  <1>1. Pool(s, h)' = Pool(s, h) /\ Drawn(s, h)' = Drawn(s, h)
    BY DEF Pool, Drawn, Count
  <1>2. \A p : ShuffleValue(s, h, p)' = ShuffleValue(s, h, p)
    BY DEF ShuffleValue
  <1>3. \A k : Candidate(s, h, k)' = Candidate(s, h, k)
    BY DEF Candidate
  <1> QED
    BY <1>1, <1>2, <1>3 DEF Partition, Untouched, DrawnApart, PoolApart, NoneLost

(* One draw moves one candidate from the pool to the order, and the value of *)
(* the rank's own position into the gap.                                     *)
LEMMA DrawPartition ==
    ASSUME TypeOK, SizesFit, NEW s \in Sessions, NEW h \in Houses, Partition(s, h),
           FinalizeNextSelection(s, h)
    PROVE  Partition(s, h)'
  <1> PICK n \in Nat : n = Count(s, h)
    BY PositionInPool
  <1> PICK N \in Nat : N = Population(s, h)
    BY PositionInPool
  <1>1. n \in n..(N - 1) /\ n..(N - 1) \subseteq Positions
    BY PositionInPool DEF Pool
  <1> PICK q \in n..(N - 1) : q = RandomPosition(s, h)
    BY PositionInPool DEF Pool
  <1> DEFINE V(p) == ShuffleValue(s, h, p)
             C(k) == Candidate(s, h, k)
  <1>2. n \in Positions /\ q \in Positions
    BY <1>1
  <1>3. \A p \in Positions : V(p) \in Nat
    BY ValueInNat
  <1>4. Count(s, h)' = n + 1 /\ Population(s, h)' = N
    BY DEF FinalizeNextSelection, TypeOK, HouseConfig, Count, Population
  <1>5. \A p \in Positions : ShuffleValue(s, h, p)' = IF p = q THEN V(n) ELSE V(p)
    <2>1. shuffle'[s][h] = [shuffle[s][h] EXCEPT ![q] = V(n) + 1]
      BY DEF FinalizeNextSelection, TypeOK, Replacement, Count
    <2>2. shuffle[s][h] \in [Positions -> Nat]
      BY DEF TypeOK
    <2>3. ShuffleValue(s, h, q)' = V(n)
      <3>1. shuffle'[s][h][q] = V(n) + 1
        BY <1>2, <2>1, <2>2
      <3>2. V(n) + 1 # 0 /\ (V(n) + 1) - 1 = V(n)
        BY <1>2, <1>3
      <3> HIDE DEF V
      <3> QED BY <3>1, <3>2 DEF ShuffleValue
    <2>4. \A p \in Positions : p # q => ShuffleValue(s, h, p)' = V(p)
      BY <2>1, <2>2 DEF ShuffleValue
    <2> QED BY <2>3, <2>4
  <1>6. \A k \in 0..n : Candidate(s, h, k)' = IF k = n THEN V(q) ELSE C(k)
    <2>1. selected'[s][h] = [selected[s][h] EXCEPT ![n] = V(q) + 1]
      BY DEF FinalizeNextSelection, TypeOK, Count
    <2>2. selected[s][h] \in [Positions -> Nat]
      BY DEF TypeOK
    <2>3. Candidate(s, h, n)' = V(q)
      <3>1. selected'[s][h][n] = V(q) + 1
        BY <1>2, <2>1, <2>2
      <3>2. (V(q) + 1) - 1 = V(q)
        BY <1>2, <1>3
      <3> HIDE DEF V
      <3> QED BY <3>1, <3>2 DEF Candidate
    <2>4. \A k \in 0..n : k \in Positions
      BY <1>1, SortitionAssumption DEF Positions
    <2>5. \A k \in 0..n : k # n => Candidate(s, h, k)' = C(k)
      BY <2>1, <2>2, <2>4 DEF Candidate
    <2> QED BY <2>3, <2>5
  <1>7. /\ Pool(s, h) = n..(N - 1) /\ Drawn(s, h) = 0..(n - 1)
        /\ Pool(s, h)' = (n + 1)..(N - 1) /\ Drawn(s, h)' = 0..n
    BY <1>4 DEF Pool, Drawn, Count
  <1>8. /\ \A k \in 0..(n - 1) : C(k) \in 0..(N - 1) /\ \A j \in 0..(n - 1) : C(j) = C(k) => j = k
        /\ \A p \in n..(N - 1) : /\ V(p) \in 0..(N - 1)
                                /\ \A r \in n..(N - 1) : V(p) = V(r) => p = r
                                /\ \A k \in 0..(n - 1) : C(k) # V(p)
        /\ \A c \in 0..(N - 1) : \/ \E k \in 0..(n - 1) : C(k) = c
                                \/ \E p \in n..(N - 1) : V(p) = c
    BY <1>7 DEF Partition, DrawnApart, PoolApart, NoneLost
  <1> HIDE DEF V, C
  <1>9. DrawnApart(s, h)'
    BY <1>1, <1>4, <1>6, <1>7, <1>8 DEF DrawnApart
  <1>10. PoolApart(s, h)'
    <2>1. \A p \in (n + 1)..(N - 1) : p \in n..(N - 1) /\ p \in Positions /\ p # n
      BY <1>1
    <2>2. \A p \in (n + 1)..(N - 1) : ShuffleValue(s, h, p)' \in 0..(N - 1)
      BY <1>1, <1>5, <1>8, <2>1
    <2>3. \A p, r \in (n + 1)..(N - 1) :
              ShuffleValue(s, h, p)' = ShuffleValue(s, h, r)' => p = r
      BY <1>1, <1>5, <1>8, <2>1
    <2>4. \A p \in (n + 1)..(N - 1), k \in 0..n : Candidate(s, h, k)' # ShuffleValue(s, h, p)'
      <3> SUFFICES ASSUME NEW p \in (n + 1)..(N - 1), NEW k \in 0..n
                   PROVE  Candidate(s, h, k)' # ShuffleValue(s, h, p)'
        OBVIOUS
      <3>1. CASE k = n
        BY <3>1, <1>1, <1>5, <1>6, <1>8, <2>1
      <3>2. CASE k # n
        <4>1. k \in 0..(n - 1)
          BY <3>2
        <4> QED BY <3>2, <4>1, <1>1, <1>5, <1>6, <1>8, <2>1
      <3> QED BY <3>1, <3>2
    <2> QED BY <1>4, <1>7, <2>2, <2>3, <2>4 DEF PoolApart
  <1>11. NoneLost(s, h)'
    <2> SUFFICES ASSUME NEW c \in 0..(N - 1)
                 PROVE  \/ \E k \in 0..n : Candidate(s, h, k)' = c
                        \/ \E p \in (n + 1)..(N - 1) : ShuffleValue(s, h, p)' = c
      BY <1>4, <1>7 DEF NoneLost
    <2>1. CASE \E k \in 0..(n - 1) : C(k) = c
      <3> PICK k \in 0..(n - 1) : C(k) = c
        BY <2>1
      <3>1. k \in 0..n /\ k # n
        OBVIOUS
      <3> QED BY <3>1, <1>6
    <2>2. CASE \E p \in n..(N - 1) : V(p) = c
      <3> PICK p \in n..(N - 1) : V(p) = c
        BY <2>2
      <3>1. CASE p = q
        BY <3>1, <1>6
      <3>2. CASE p # q /\ p = n
        <4>1. q \in (n + 1)..(N - 1)
          BY <3>2
        <4> QED BY <3>2, <4>1, <1>2, <1>5
      <3>3. CASE p # q /\ p # n
        <4>1. p \in (n + 1)..(N - 1) /\ p \in Positions
          BY <3>3, <1>1
        <4> QED BY <3>3, <4>1, <1>5
      <3> QED BY <3>1, <3>2, <3>3
    <2> QED BY <1>8, <2>1, <2>2
  <1>12. Untouched(s, h)'
    BY <1>4 DEF Untouched
  <1> QED BY <1>9, <1>10, <1>11, <1>12 DEF Partition

LEMMA DrawStep == TypeOK /\ TypeOK' /\ DrawInv /\ [Next]_vars => DrawInv'
  <1> SUFFICES ASSUME TypeOK, TypeOK', DrawInv, [Next]_vars PROVE DrawInv'
    OBVIOUS
  <1>1. SizesFit /\ \A x \in Sessions, h \in Houses : Partition(x, h)
    BY DEF DrawInv
  <1>2. ASSUME NEW s \in Sessions, NEW r \in Requests, NEW schedule \in Schedules,
               NEW sizes \in Sizes, NEW roster \in Rosters,
               CreateRound(s, r, schedule, sizes, roster)
        PROVE  DrawInv'
    <2>1. \A h \in Houses :
              /\ sizes[h].population \in 0..MaxPopulation
              /\ sizes[h].primary \in Nat /\ sizes[h].alternates \in Nat
      BY SortitionAssumption
    <2>2. \A x \in Sessions : x # s => rounds'[x] = rounds[x] /\ config'[x] = config[x]
      BY <1>2 DEF CreateRound, TypeOK
    <2>3. rounds'[s].exists
      BY <1>2 DEF CreateRound, TypeOK
    <2>3a. \A h \in Houses :
              /\ config'[s][h].population = sizes[h].population
              /\ config'[s][h].primary = sizes[h].primary
              /\ config'[s][h].alternates = sizes[h].alternates
              /\ config'[s][h].selectedCount = 0
      BY <1>2 DEF CreateRound, TypeOK
    <2>4. shuffle' = shuffle /\ selected' = selected
      BY <1>2 DEF CreateRound
    <2>5. SizesFit'
      <3> SUFFICES ASSUME NEW x \in Sessions, NEW h \in Houses
                   PROVE  /\ Count(x, h)' <= TotalSelections(x, h)'
                          /\ TotalSelections(x, h)' <= Population(x, h)'
                          /\ ~rounds'[x].exists => config'[x][h] = NoConfig
                          /\ ~rounds'[x].fulfilled => Count(x, h)' = 0
        BY DEF SizesFit
      <3>1. CASE x = s
        <4>1. sizes[h].primary + sizes[h].alternates <= sizes[h].population
          BY <1>2 DEF CreateRound, ValidSize
        <4> QED BY <3>1, <2>1, <2>3, <2>3a, <4>1 DEF Count, TotalSelections, Population
      <3>2. CASE x # s
        BY <3>2, <1>1, <2>2 DEF SizesFit, Count, TotalSelections, Population
      <3> QED BY <3>1, <3>2
    <2>6. ASSUME NEW h \in Houses PROVE Partition(s, h)'
      <3>1. Count(s, h) = 0
        BY <1>2, <1>1 DEF CreateRound, SizesFit, NoConfig, Count
      <3>2. \A p \in Positions : shuffle'[s][h][p] = 0
        BY <1>1, <2>4, <3>1 DEF Partition, Untouched
      <3>3. Count(s, h)' = 0
        BY <2>3a DEF Count
      <3> QED BY <3>2, <3>3, FreshPartition
    <2>7. ASSUME NEW x \in Sessions, x # s, NEW h \in Houses PROVE Partition(x, h)'
      <3>1. Count(x, h)' = Count(x, h) /\ Population(x, h)' = Population(x, h)
        BY <2>2, <2>7 DEF Count, Population
      <3> QED BY <1>1, <2>4, <3>1, SamePartition
    <2> QED BY <2>5, <2>6, <2>7 DEF DrawInv
  <1>3. ASSUME NEW s \in Sessions, NEW g \in Houses, FinalizeNextSelection(s, g) PROVE DrawInv'
    <2>1. \A x \in Sessions, h \in Houses : x # s \/ h # g =>
              config'[x][h] = config[x][h] /\ shuffle'[x][h] = shuffle[x][h]
              /\ selected'[x][h] = selected[x][h]
      BY <1>3 DEF FinalizeNextSelection, TypeOK
    <2>2. config'[s][g] = [config[s][g] EXCEPT !.selectedCount = @ + 1]
      BY <1>3 DEF FinalizeNextSelection, TypeOK
    <2>3. config[s][g] \in HouseConfig
      BY DEF TypeOK
    <2>4. SizesFit'
      <3> SUFFICES ASSUME NEW x \in Sessions, NEW h \in Houses
                   PROVE  /\ Count(x, h)' <= TotalSelections(x, h)'
                          /\ TotalSelections(x, h)' <= Population(x, h)'
                          /\ ~rounds'[x].exists => config'[x][h] = NoConfig
                          /\ ~rounds'[x].fulfilled => Count(x, h)' = 0
        BY DEF SizesFit
      <3>0. rounds' = rounds /\ rounds[s].exists /\ rounds[s].fulfilled
        BY <1>3 DEF FinalizeNextSelection
      <3>1. CASE x = s /\ h = g
        <4>1. Count(s, g) < TotalSelections(s, g)
          BY <1>3 DEF FinalizeNextSelection, SelectionsRemain, Count
        <4>2. /\ Count(s, g)' = Count(s, g) + 1 /\ Population(s, g)' = Population(s, g)
              /\ TotalSelections(s, g)' = TotalSelections(s, g)
          BY <2>2, <2>3 DEF Count, Population, TotalSelections, HouseConfig
        <4>3. /\ Count(s, g) \in Nat /\ TotalSelections(s, g) \in Nat
          BY <2>3 DEF Count, TotalSelections, HouseConfig
        <4>4. TotalSelections(s, g) <= Population(s, g)
          BY <1>1 DEF SizesFit
        <4> QED BY <3>0, <3>1, <4>1, <4>2, <4>3, <4>4
      <3>2. CASE ~(x = s /\ h = g)
        BY <3>0, <3>2, <1>1, <2>1 DEF SizesFit, Count, TotalSelections, Population
      <3> QED BY <3>1, <3>2
    <2>5. Partition(s, g)'
      BY <1>1, <1>3, DrawPartition
    <2>6. ASSUME NEW x \in Sessions, NEW h \in Houses, x # s \/ h # g PROVE Partition(x, h)'
      <3>1. Count(x, h)' = Count(x, h) /\ Population(x, h)' = Population(x, h)
        BY <2>1, <2>6 DEF Count, Population
      <3> QED BY <1>1, <2>1, <2>6, <3>1, SamePartition
    <2> QED BY <2>4, <2>5, <2>6 DEF DrawInv
  <1>4. ASSUME NEW s \in Sessions, NEW g \in Houses, ActivateNextAlternate(s, g) PROVE DrawInv'
    <2>1. \A x \in Sessions, h \in Houses :
              /\ config'[x][h].population = config[x][h].population
              /\ config'[x][h].primary = config[x][h].primary
              /\ config'[x][h].alternates = config[x][h].alternates
              /\ config'[x][h].selectedCount = config[x][h].selectedCount
      BY <1>4 DEF ActivateNextAlternate, TypeOK, HouseConfig
    <2>2. \A x \in Sessions, h \in Houses : x # s => config'[x][h] = config[x][h]
      BY <1>4 DEF ActivateNextAlternate, TypeOK
    <2>3. UNCHANGED <<rounds, shuffle, selected>> /\ rounds[s].exists
      BY <1>4 DEF ActivateNextAlternate
    <2>4. \A x \in Sessions, h \in Houses :
              /\ Count(x, h)' = Count(x, h) /\ Population(x, h)' = Population(x, h)
              /\ TotalSelections(x, h)' = TotalSelections(x, h)
      BY <2>1 DEF Count, Population, TotalSelections
    <2>5. SizesFit'
      BY <1>1, <2>2, <2>3, <2>4 DEF SizesFit
    <2>6. ASSUME NEW x \in Sessions, NEW h \in Houses PROVE Partition(x, h)'
      BY <1>1, <2>3, <2>4, SamePartition
    <2> QED BY <2>5, <2>6 DEF DrawInv
  <1>5. ASSUME UNCHANGED <<config, shuffle, selected>>,
               \A x \in Sessions : /\ rounds'[x].exists = rounds[x].exists
                                   /\ rounds[x].fulfilled => rounds'[x].fulfilled
        PROVE  DrawInv'
    <2>1. \A x \in Sessions, h \in Houses :
              /\ Count(x, h)' = Count(x, h) /\ Population(x, h)' = Population(x, h)
              /\ TotalSelections(x, h)' = TotalSelections(x, h)
      BY <1>5 DEF Count, Population, TotalSelections
    <2>2. SizesFit'
      BY <1>1, <1>5, <2>1 DEF SizesFit
    <2>3. ASSUME NEW x \in Sessions, NEW h \in Houses PROVE Partition(x, h)'
      BY <1>1, <1>5, <2>1, SamePartition
    <2> QED BY <2>2, <2>3 DEF DrawInv
  <1>6. ASSUME NEW r \in Requests, NEW word \in Words, FulfillRandomness(r, word) PROVE DrawInv'
    <2>1. \A x \in Sessions : rounds[x].exists \in BOOLEAN /\ rounds[x].fulfilled \in BOOLEAN
      BY DEF TypeOK, Round
    <2>2. \A x \in Sessions : /\ rounds'[x].exists = rounds[x].exists
                              /\ rounds[x].fulfilled => rounds'[x].fulfilled
      BY <1>6, <2>1 DEF FulfillRandomness, TypeOK
    <2> QED BY <1>5, <1>6, <2>2 DEF FulfillRandomness
  <1>7. CASE Tick
    BY <1>5, <1>7 DEF Tick
  <1>8. ASSUME NEW s \in Sessions, NEW h \in Houses, NEW rank \in Positions, NEW entry \in Entry,
               ClaimSeat(s, h, rank, entry)
        PROVE  DrawInv'
    BY <1>5, <1>8 DEF ClaimSeat
  <1>9. ASSUME NEW s \in Sessions, NEW w \in Wallets, NEW h \in Houses, RegisterByOther(s, w, h)
        PROVE  DrawInv'
    BY <1>5, <1>9 DEF RegisterByOther
  <1>10. CASE UNCHANGED vars
    BY <1>5, <1>10 DEF vars
  <1> QED
    BY <1>2, <1>3, <1>4, <1>6, <1>7, <1>8, <1>9, <1>10 DEF Next, Entry

LEMMA DrawCorrect == Spec => [](TypeOK /\ DrawInv)
  <1>1. TypeOK /\ DrawInv /\ [Next]_vars => TypeOK' /\ DrawInv'
    BY TypeStep, DrawStep DEF DrawInv
  <1> QED BY <1>1, TypeInit, DrawInit, PTL DEF Spec

------------------------------------------------------------------------------
(* The theorems. *)

(* Every mapping of the contract keeps its declared type: in particular the  *)
(* sparse shuffle never reads or writes a position outside the population.   *)
THEOREM TypeCorrect == Spec => []TypeOK
  BY DrawCorrect, PTL

(* finalizeNextSelection draws without replacement, for every population and *)
(* every word.                                                               *)
THEOREM DrawIsDuplicateFree == Spec => []SelectionIsDuplicateFree
  <1>1. DrawInv => SelectionIsDuplicateFree
    BY DEF DrawInv, Partition, DrawnApart, SelectionIsDuplicateFree, Population
  <1> QED BY <1>1, DrawCorrect, PTL

(* finalizeNextSelection loses no candidate: the pool is what is not drawn.  *)
THEOREM PoolKeepsTheRest == Spec => []PoolIsTheRest
  <1>1. ASSUME DrawInv, NEW s \in Sessions, NEW h \in Houses
        PROVE  {ShuffleValue(s, h, p) : p \in Pool(s, h)}
               = (0..(Population(s, h) - 1)) \ {Candidate(s, h, k) : k \in Drawn(s, h)}
    BY <1>1 DEF DrawInv, Partition, PoolApart, NoneLost
  <1>2. DrawInv => PoolIsTheRest
    BY <1>1 DEF PoolIsTheRest, Pool, Count, Population
  <1> QED BY <1>2, DrawCorrect, PTL

------------------------------------------------------------------------------
(* The seats. *)

(* What a step leaves of a round: once it exists its roster, its deadline    *)
(* and its primaries stay; the order drawn grows at its end; ranks and       *)
(* identities stay used, members stay in their house.                        *)
Advances(s) ==
    /\ rounds[s].exists =>
          /\ rounds'[s].exists /\ rounds'[s].roster = rounds[s].roster
          /\ rounds'[s].claimDeadline = rounds[s].claimDeadline
          /\ \A h \in Houses : config'[s][h].primary = config[s][h].primary
    /\ \A h \in Houses : config'[s][h].selectedCount >= config[s][h].selectedCount
    /\ \A h \in Houses : \A k \in Drawn(s, h) : selected'[s][h][k] = selected[s][h][k]
    /\ \A h \in Houses : rankClaimed[s][h] \subseteq rankClaimed'[s][h]
    /\ identityUsed[s] \subseteq identityUsed'[s]
    /\ \A w \in Wallets : memberHouse[s][w] # None => memberHouse'[s][w] = memberHouse[s][w]

Claim == [house : Houses, rank : Positions, entry : Entry, at : Nat]

(* What is true of each holder of a seat. *)
Holder(s, x) ==
    /\ rounds[s].exists /\ x.entry.id \in identityUsed[s] /\ x.rank \in rankClaimed[s][x.house]
    /\ x.rank \in Drawn(s, x.house)
    /\ x.entry = rounds[s].roster[x.house][Candidate(s, x.house, x.rank)]
    /\ memberHouse[s][x.entry.wallet] = x.house
    /\ x.rank < config[s][x.house].primary <=> x.at <= rounds[s].claimDeadline

HoldersHold == \A s \in Sessions : \A x \in claims[s] : Holder(s, x)
HoldersApart ==
    \A s \in Sessions : \A x, y \in claims[s] :
        x.entry.id = y.entry.id \/ (x.house = y.house /\ x.rank = y.rank) => x = y

(* The limit passes the primaries only after their deadline, and no further  *)
(* than the ranks drawn.                                                     *)
LimitFollows ==
    \A s \in Sessions, h \in Houses : config[s][h].activeRankLimit > config[s][h].primary =>
        /\ rounds[s].exists /\ now > rounds[s].claimDeadline
        /\ config[s][h].activeRankLimit <= config[s][h].selectedCount

OnlyDrawn ==
    \A s \in Sessions, h \in Houses, k \in Positions : selected[s][h][k] # 0 => k \in Drawn(s, h)

SeatInv == HoldersHold /\ HoldersApart /\ LimitFollows /\ OnlyDrawn

LEMMA SeatInit == Init => SeatInv
  BY DEF Init, SeatInv, HoldersHold, HoldersApart, LimitFollows, OnlyDrawn, NoConfig

(* The numbers of a round, where they are. *)
LEMMA RoundFacts ==
    ASSUME TypeOK, NEW s \in Sessions
    PROVE  /\ now \in Nat /\ rounds[s].exists \in BOOLEAN /\ rounds[s].fulfilled \in BOOLEAN
           /\ rounds[s].claimDeadline \in Nat
           /\ rounds[s].fulfilled => rounds[s].exists
           /\ \A h \in Houses : /\ config[s][h].primary \in Nat /\ config[s][h].alternates \in Nat
                                /\ config[s][h].selectedCount \in Nat
                                /\ config[s][h].activeRankLimit \in Nat
  <1>1. rounds[s] \in Round /\ now \in Nat /\ \A h \in Houses : config[s][h] \in HouseConfig
    BY DEF TypeOK
  <1>2. /\ rounds[s].exists \in BOOLEAN /\ rounds[s].fulfilled \in BOOLEAN
        /\ rounds[s].claimDeadline \in Nat
        /\ rounds[s].fulfilled => rounds[s].exists
    BY <1>1 DEF Round
  <1> QED BY <1>1, <1>2, SortitionAssumption DEF HouseConfig

(* Which steps move the clock, the configuration, the order and the claims. *)
LEMMA WhoWrites ==
    ASSUME [Next]_vars
    PROVE  /\ now' = now \/ Tick
           /\ \/ config' = config
              \/ \E s \in Sessions, r \in Requests, schedule \in Schedules, sizes \in Sizes,
                    roster \in Rosters : CreateRound(s, r, schedule, sizes, roster)
              \/ \E s \in Sessions, h \in Houses :
                    FinalizeNextSelection(s, h) \/ ActivateNextAlternate(s, h)
           /\ selected' = selected \/ \E s \in Sessions, h \in Houses : FinalizeNextSelection(s, h)
           /\ \/ claims' = claims
              \/ \E s \in Sessions, h \in Houses, rank \in Positions, entry \in Entry :
                    ClaimSeat(s, h, rank, entry)
  <1>1. CASE Tick
    BY <1>1 DEF Tick
  <1>2. ASSUME NEW s \in Sessions, NEW r \in Requests, NEW schedule \in Schedules,
               NEW sizes \in Sizes, NEW roster \in Rosters,
               CreateRound(s, r, schedule, sizes, roster)
        PROVE  UNCHANGED <<now, selected, claims>>
    BY <1>2 DEF CreateRound
  <1>3. ASSUME NEW r \in Requests, NEW word \in Words, FulfillRandomness(r, word)
        PROVE  UNCHANGED <<now, config, selected, claims>>
    BY <1>3 DEF FulfillRandomness
  <1>4. ASSUME NEW s \in Sessions, NEW h \in Houses, FinalizeNextSelection(s, h)
        PROVE  UNCHANGED <<now, claims>>
    BY <1>4 DEF FinalizeNextSelection
  <1>5. ASSUME NEW s \in Sessions, NEW h \in Houses, ActivateNextAlternate(s, h)
        PROVE  UNCHANGED <<now, selected, claims>>
    BY <1>5 DEF ActivateNextAlternate
  <1>6. ASSUME NEW s \in Sessions, NEW h \in Houses, NEW rank \in Positions, NEW entry \in Entry,
               ClaimSeat(s, h, rank, entry)
        PROVE  UNCHANGED <<now, config, selected>>
    BY <1>6 DEF ClaimSeat
  <1>7. ASSUME NEW s \in Sessions, NEW w \in Wallets, NEW h \in Houses, RegisterByOther(s, w, h)
        PROVE  UNCHANGED <<now, config, selected, claims>>
    BY <1>7 DEF RegisterByOther
  <1>8. CASE UNCHANGED vars
    BY <1>8 DEF vars
  <1> QED BY <1>1, <1>2, <1>3, <1>4, <1>5, <1>6, <1>7, <1>8 DEF Next, Entry

LEMMA AdvancesStep ==
    ASSUME TypeOK, DrawInv, [Next]_vars, NEW t \in Sessions
    PROVE  Advances(t)
  <1>0. \A h \in Houses : config[t][h].selectedCount \in Nat
    BY RoundFacts
  <1>1. ASSUME NEW s \in Sessions, NEW r \in Requests, NEW schedule \in Schedules,
               NEW sizes \in Sizes, NEW roster \in Rosters,
               CreateRound(s, r, schedule, sizes, roster)
        PROVE  Advances(t)
    <2>1. UNCHANGED <<selected, rankClaimed, identityUsed, memberHouse>> /\ ~rounds[s].exists
      BY <1>1 DEF CreateRound
    <2>2. CASE t # s
      <3>1. rounds'[t] = rounds[t] /\ config'[t] = config[t]
        BY <1>1, <2>2 DEF CreateRound, TypeOK
      <3> QED BY <1>0, <2>1, <3>1 DEF Advances
    <2>3. CASE t = s
      <3>1. \A h \in Houses : config[s][h].selectedCount = 0 /\ config'[s][h].selectedCount = 0
        BY <1>1, <2>1 DEF CreateRound, TypeOK, DrawInv, SizesFit, NoConfig
      <3> QED BY <2>1, <2>3, <3>1 DEF Advances
    <2> QED BY <2>2, <2>3
  <1>2. ASSUME NEW r \in Requests, NEW word \in Words, FulfillRandomness(r, word) PROVE Advances(t)
    <2> DEFINE s == requestSession[r]
    <2>1. /\ rounds'[s].exists /\ rounds'[s].roster = rounds[s].roster
          /\ rounds'[s].claimDeadline = rounds[s].claimDeadline
          /\ \A x \in Sessions : x # s => rounds'[x] = rounds[x]
          /\ UNCHANGED <<config, selected, rankClaimed, identityUsed, memberHouse>>
      BY <1>2 DEF FulfillRandomness, TypeOK
    <2> HIDE DEF s
    <2> QED BY <1>0, <2>1 DEF Advances
  <1>3. ASSUME NEW s \in Sessions, NEW g \in Houses, FinalizeNextSelection(s, g) PROVE Advances(t)
    <2>1. /\ \A h \in Houses : t # s \/ h # g => config'[t][h] = config[t][h] /\ selected'[t][h] = selected[t][h]
          /\ UNCHANGED <<rounds, rankClaimed, identityUsed, memberHouse>>
      BY <1>3 DEF FinalizeNextSelection, TypeOK
    <2>2. config'[s][g] = [config[s][g] EXCEPT !.selectedCount = @ + 1] /\ config[s][g] \in HouseConfig
      BY <1>3 DEF FinalizeNextSelection, TypeOK
    <2>3. /\ config'[s][g].primary = config[s][g].primary
          /\ config'[s][g].selectedCount = config[s][g].selectedCount + 1
      BY <2>2 DEF HouseConfig
    <2>4. \A k \in Drawn(s, g) : selected'[s][g][k] = selected[s][g][k]
      <3>1. \A k \in Positions : k # config[s][g].selectedCount => selected'[s][g][k] = selected[s][g][k]
        BY <1>3 DEF FinalizeNextSelection, TypeOK
      <3>2. Drawn(s, g) \subseteq Positions /\ config[s][g].selectedCount \notin Drawn(s, g)
        <4>1. config[s][g].selectedCount \in 0..MaxPopulation /\ MaxPopulation \in Nat
          BY <2>2, SortitionAssumption DEF HouseConfig
        <4> QED BY <4>1 DEF Drawn, Positions
      <3> QED BY <3>1, <3>2
    <2>5. \A h \in Houses : config'[t][h].primary = config[t][h].primary
                            /\ config'[t][h].selectedCount >= config[t][h].selectedCount
      BY <1>0, <2>1, <2>3
    <2>6. \A h \in Houses : \A k \in Drawn(t, h) : selected'[t][h][k] = selected[t][h][k]
      BY <2>1, <2>4
    <2> QED BY <2>1, <2>5, <2>6 DEF Advances
  <1>4. ASSUME NEW s \in Sessions, NEW g \in Houses, ActivateNextAlternate(s, g) PROVE Advances(t)
    <2>1. \A h \in Houses : config'[t][h].primary = config[t][h].primary
                            /\ config'[t][h].selectedCount = config[t][h].selectedCount
      BY <1>4 DEF ActivateNextAlternate, TypeOK, HouseConfig
    <2>2. UNCHANGED <<rounds, selected, rankClaimed, identityUsed, memberHouse>>
      BY <1>4 DEF ActivateNextAlternate
    <2> QED BY <1>0, <2>1, <2>2 DEF Advances
  <1>5. ASSUME NEW s \in Sessions, NEW h \in Houses, NEW rank \in Positions, NEW entry \in Entry,
               ClaimSeat(s, h, rank, entry)
        PROVE  Advances(t)
    <2>1. UNCHANGED <<rounds, config, selected>>
      BY <1>5 DEF ClaimSeat
    <2>2. /\ \A g \in Houses : rankClaimed[t][g] \subseteq rankClaimed'[t][g]
          /\ identityUsed[t] \subseteq identityUsed'[t]
      BY <1>5 DEF ClaimSeat, TypeOK
    <2>3. \A w \in Wallets : memberHouse[t][w] # None => memberHouse'[t][w] = memberHouse[t][w]
      BY <1>5 DEF ClaimSeat, MembershipOpen, TypeOK
    <2> QED BY <1>0, <2>1, <2>2, <2>3 DEF Advances
  <1>6. ASSUME NEW s \in Sessions, NEW w \in Wallets, NEW h \in Houses, RegisterByOther(s, w, h)
        PROVE  Advances(t)
    <2>1. UNCHANGED <<rounds, config, selected, rankClaimed, identityUsed>>
      BY <1>6 DEF RegisterByOther
    <2>2. \A u \in Wallets : memberHouse[t][u] # None => memberHouse'[t][u] = memberHouse[t][u]
      BY <1>6 DEF RegisterByOther, MembershipOpen, TypeOK
    <2> QED BY <1>0, <2>1, <2>2 DEF Advances
  <1>7. CASE Tick \/ UNCHANGED vars
    <2>1. UNCHANGED <<rounds, config, selected, rankClaimed, identityUsed, memberHouse>>
      BY <1>7 DEF Tick, vars
    <2> QED BY <1>0, <2>1 DEF Advances
  <1> QED BY <1>1, <1>2, <1>3, <1>4, <1>5, <1>6, <1>7 DEF Next, Entry

(* A holder stays one, whatever others do. *)
LEMMA HolderKept ==
    ASSUME TypeOK, TypeOK', NEW s \in Sessions, Advances(s), NEW x \in Claim, Holder(s, x)
    PROVE  Holder(s, x)'
  <1>1. x.house \in Houses /\ x.rank \in Positions /\ x.entry.wallet \in Wallets
    BY DEF Claim, Entry
  <1>2. x.house # None
    BY <1>1 DEF Houses, None
  <1>3. x.rank \in Drawn(s, x.house)' /\ x.rank \in Drawn(s, x.house)
    <2>1. config[s][x.house].selectedCount \in Nat /\ config'[s][x.house].selectedCount \in Nat
      BY <1>1 DEF TypeOK, HouseConfig
    <2>2. config'[s][x.house].selectedCount >= config[s][x.house].selectedCount
      BY <1>1 DEF Advances
    <2>3. x.rank \in Drawn(s, x.house) /\ x.rank \in Nat
      BY DEF Holder, Claim, Positions
    <2> QED BY <2>1, <2>2, <2>3 DEF Drawn
  <1>4. Candidate(s, x.house, x.rank)' = Candidate(s, x.house, x.rank)
    <2>1. \A h \in Houses : \A k \in Drawn(s, h) : selected'[s][h][k] = selected[s][h][k]
      BY DEF Advances
    <2>2. selected'[s][x.house][x.rank] = selected[s][x.house][x.rank]
      BY <1>1, <1>3, <2>1
    <2> QED BY <2>2 DEF Candidate
  <1> QED BY <1>1, <1>2, <1>3, <1>4 DEF Holder, Advances

(* A seat claimed goes to the candidate drawn for it, in its turn. *)
LEMMA HolderNew ==
    ASSUME TypeOK, TypeOK', SeatInv, NEW s \in Sessions, NEW h \in Houses, NEW rank \in Positions,
           NEW entry \in Entry, ClaimSeat(s, h, rank, entry),
           NEW x, x = [house |-> h, rank |-> rank, entry |-> entry, at |-> now]
    PROVE  Holder(s, x)'
  <1>1. /\ rounds[s].exists /\ UNCHANGED <<now, rounds, config, selected>>
        /\ entry.id \in identityUsed'[s] /\ rank \in rankClaimed'[s][h]
        /\ memberHouse'[s][entry.wallet] = h
    BY DEF ClaimSeat, TypeOK, Entry
  <1>2. rank \in Drawn(s, h)' /\ entry = rounds'[s].roster[h][Candidate(s, h, rank)']
    BY <1>1 DEF ClaimSeat, ProofHolds, SeatInv, OnlyDrawn, Drawn, Candidate
  <1>3. rank < config'[s][h].primary <=> now' <= rounds'[s].claimDeadline
    <2>1. rank < config[s][h].primary => now <= rounds[s].claimDeadline
      BY DEF ClaimSeat, ClaimInTime
    <2>2. rank >= config[s][h].primary => now > rounds[s].claimDeadline
      <3>1. rank < config[s][h].activeRankLimit
        BY DEF ClaimSeat
      <3> QED BY <3>1, RoundFacts DEF SeatInv, LimitFollows, Positions
    <2> QED BY <1>1, <2>1, <2>2, RoundFacts DEF Positions
  <1> QED BY <1>1, <1>2, <1>3 DEF Holder

LEMMA SeatStep == TypeOK /\ TypeOK' /\ DrawInv /\ SeatInv /\ [Next]_vars => SeatInv'
  <1> SUFFICES ASSUME TypeOK, TypeOK', DrawInv, SeatInv, [Next]_vars PROVE SeatInv'
    OBVIOUS
  <1>1. \A s \in Sessions : Advances(s)
    BY AdvancesStep
  <1>2. \/ claims' = claims
        \/ \E s \in Sessions, h \in Houses, rank \in Positions, entry \in Entry :
              ClaimSeat(s, h, rank, entry)
    BY WhoWrites
  <1>3. ASSUME NEW s \in Sessions, NEW x \in claims[s] PROVE Holder(s, x)'
    <2>1. x \in Claim /\ Holder(s, x)
      BY DEF TypeOK, Claim, SeatInv, HoldersHold
    <2> QED BY <1>1, <2>1, HolderKept
  <1>4. HoldersHold' /\ HoldersApart'
    <2>1. CASE claims' = claims
      BY <1>3, <2>1 DEF HoldersHold, HoldersApart, SeatInv
    <2>2. ASSUME NEW s \in Sessions, NEW h \in Houses, NEW rank \in Positions, NEW entry \in Entry,
                 ClaimSeat(s, h, rank, entry)
          PROVE  HoldersHold' /\ HoldersApart'
      <3> PICK new : new = [house |-> h, rank |-> rank, entry |-> entry, at |-> now]
        OBVIOUS
      <3>1. /\ claims'[s] = claims[s] \cup {new}
            /\ \A t \in Sessions : t # s => claims'[t] = claims[t]
        BY <2>2 DEF ClaimSeat, TypeOK
      <3>2. Holder(s, new)'
        BY <2>2, HolderNew
      <3>3. new.entry.id \notin identityUsed[s] /\ new.rank \notin rankClaimed[s][new.house]
        BY <2>2 DEF ClaimSeat, IdentityFree
      <3>4. \A x \in claims[s] : x.entry.id \in identityUsed[s] /\ x.rank \in rankClaimed[s][x.house]
        BY DEF SeatInv, HoldersHold, Holder
      <3>5. ASSUME NEW t \in Sessions, NEW x \in claims'[t] PROVE Holder(t, x)'
        BY <1>3, <3>1, <3>2
      <3>6. HoldersApart'
        BY <3>1, <3>3, <3>4 DEF HoldersApart, SeatInv
      <3> QED BY <3>5, <3>6 DEF HoldersHold
    <2> QED BY <1>2, <2>1, <2>2
  <1>5. LimitFollows'
    <2> SUFFICES ASSUME NEW s \in Sessions, NEW h \in Houses,
                        config'[s][h].activeRankLimit > config'[s][h].primary
                 PROVE  /\ rounds'[s].exists /\ now' > rounds'[s].claimDeadline
                        /\ config'[s][h].activeRankLimit <= config'[s][h].selectedCount
      BY DEF LimitFollows
    <2>1. now' >= now /\ now' \in Nat
      <3>1. now' = now \/ now' = now + 1
        BY WhoWrites DEF Tick
      <3> QED BY <3>1, RoundFacts
    <2>2. \/ config'[s][h].activeRankLimit = config[s][h].activeRankLimit /\ rounds[s].exists
          \/ config'[s][h].activeRankLimit = config'[s][h].primary
          \/ ActivateNextAlternate(s, h)
      <3>1. ASSUME NEW t \in Sessions, NEW r \in Requests, NEW schedule \in Schedules,
                   NEW sizes \in Sizes, NEW roster \in Rosters,
                   CreateRound(t, r, schedule, sizes, roster)
            PROVE  config'[s] = config[s] \/ config'[s][h].activeRankLimit = config'[s][h].primary
        BY <3>1 DEF CreateRound, TypeOK
      <3>2. ASSUME NEW t \in Sessions, NEW g \in Houses, FinalizeNextSelection(t, g)
            PROVE  config'[s][h].activeRankLimit = config[s][h].activeRankLimit
                   /\ config'[s][h].primary = config[s][h].primary
        BY <3>2 DEF FinalizeNextSelection, TypeOK, HouseConfig
      <3>3. ASSUME NEW t \in Sessions, NEW g \in Houses, ActivateNextAlternate(t, g)
            PROVE  config'[s][h] = config[s][h] \/ ActivateNextAlternate(s, h)
        BY <3>3 DEF ActivateNextAlternate, TypeOK
      <3>4. \/ config'[s][h].activeRankLimit = config[s][h].activeRankLimit
               /\ config'[s][h].primary = config[s][h].primary
            \/ config'[s][h].activeRankLimit = config'[s][h].primary
            \/ ActivateNextAlternate(s, h)
        <4>1. \/ config' = config
              \/ \E t \in Sessions, r \in Requests, schedule \in Schedules, sizes \in Sizes,
                    roster \in Rosters : CreateRound(t, r, schedule, sizes, roster)
              \/ \E t \in Sessions, g \in Houses :
                    FinalizeNextSelection(t, g) \/ ActivateNextAlternate(t, g)
          BY WhoWrites
        <4> QED BY <3>1, <3>2, <3>3, <4>1
      <3> QED BY <3>4 DEF SeatInv, LimitFollows
    <2>3. CASE config'[s][h].activeRankLimit = config[s][h].activeRankLimit /\ rounds[s].exists
      <3>1. config'[s][h].primary = config[s][h].primary /\ rounds'[s].exists
            /\ rounds'[s].claimDeadline = rounds[s].claimDeadline
            /\ config'[s][h].selectedCount >= config[s][h].selectedCount
        BY <1>1, <2>3 DEF Advances
      <3>2. now > rounds[s].claimDeadline /\ config[s][h].activeRankLimit <= config[s][h].selectedCount
        BY <2>3, <3>1 DEF SeatInv, LimitFollows
      <3>3. config'[s][h].selectedCount \in Nat
        BY DEF TypeOK, HouseConfig
      <3> QED BY <2>1, <2>3, <3>1, <3>2, <3>3, RoundFacts
    <2>4. CASE config'[s][h].activeRankLimit = config'[s][h].primary
      <3>1. config'[s][h].primary \in Nat
        BY DEF TypeOK, HouseConfig
      <3> QED BY <2>4, <3>1
    <2>5. CASE ActivateNextAlternate(s, h)
      <3>1. config[s][h] \in HouseConfig
            /\ config'[s][h] = [config[s][h] EXCEPT !.activeRankLimit = @ + 1]
        BY <2>5 DEF ActivateNextAlternate, TypeOK
      <3>2. /\ config'[s][h].activeRankLimit = config[s][h].activeRankLimit + 1
            /\ config'[s][h].selectedCount = config[s][h].selectedCount
        BY <3>1 DEF HouseConfig
      <3>3. /\ config[s][h].activeRankLimit < config[s][h].selectedCount
            /\ rounds'[s].exists /\ now' > rounds'[s].claimDeadline
        BY <2>5 DEF ActivateNextAlternate, AlternateDrawn
      <3> QED BY <3>2, <3>3, RoundFacts
    <2> QED BY <2>2, <2>3, <2>4, <2>5
  <1>6. OnlyDrawn'
    <2> SUFFICES ASSUME NEW s \in Sessions, NEW h \in Houses, NEW k \in Positions,
                        selected'[s][h][k] # 0
                 PROVE  k \in Drawn(s, h)'
      BY DEF OnlyDrawn
    <2>1. selected[s][h][k] # 0 \/ (FinalizeNextSelection(s, h) /\ k = config[s][h].selectedCount)
      <3>1. selected' = selected \/ \E t \in Sessions, g \in Houses : FinalizeNextSelection(t, g)
        BY WhoWrites
      <3>2. ASSUME NEW t \in Sessions, NEW g \in Houses, FinalizeNextSelection(t, g),
                   selected[s][h][k] = 0
            PROVE  t = s /\ g = h /\ k = config[s][h].selectedCount
        BY <3>2 DEF FinalizeNextSelection, TypeOK
      <3> QED BY <3>1, <3>2
    <2>2. CASE selected[s][h][k] # 0
      <3>1. k \in Drawn(s, h)
        BY <2>2 DEF SeatInv, OnlyDrawn
      <3>2. config'[s][h].selectedCount \in Nat
        BY DEF TypeOK, HouseConfig
      <3> QED BY <1>1, <3>1, <3>2, RoundFacts DEF Advances, Drawn
    <2>3. CASE FinalizeNextSelection(s, h) /\ k = config[s][h].selectedCount
      <3>1. config'[s][h] = [config[s][h] EXCEPT !.selectedCount = @ + 1]
            /\ config[s][h] \in HouseConfig
        BY <2>3 DEF FinalizeNextSelection, TypeOK
      <3>2. config'[s][h].selectedCount = config[s][h].selectedCount + 1
        BY <3>1 DEF HouseConfig
      <3> QED BY <2>3, <3>2, RoundFacts DEF Drawn
    <2> QED BY <2>1, <2>2, <2>3
  <1> QED BY <1>4, <1>5, <1>6 DEF SeatInv

LEMMA SeatCorrect == Spec => [](TypeOK /\ DrawInv /\ SeatInv)
  BY DrawCorrect, SeatInit, SeatStep, PTL DEF Spec

(* claimSeat and activateNextAlternate: the seats are held by those drawn    *)
(* for them, one per identity and one per rank; primaries claim by their     *)
(* deadline, alternates after it, and none that was not drawn is activated.  *)
THEOREM SeatsFollow == Spec => []SeatsFollowTheDraw
  <1>1. SeatInv => HoldersWereDrawn
    BY DEF SeatInv, HoldersHold, HoldersApart, Holder, HoldersWereDrawn
  <1>2. SeatInv => AlternatesFollowPrimaries
    BY DEF SeatInv, HoldersHold, Holder, LimitFollows, AlternatesFollowPrimaries
  <1>3. SeatInv => SeatsFollowTheDraw
    BY <1>1, <1>2 DEF SeatsFollowTheDraw
  <1> QED BY <1>3, SeatCorrect, PTL

(* The holder of a seat is the governor's member of that seat's house,       *)
(* although other registrars register wallets too.                           *)
THEOREM HoldersVote == Spec => []HoldersAreMembers
  <1>1. SeatInv => HoldersAreMembers
    BY DEF SeatInv, HoldersHold, Holder, HoldersAreMembers
  <1> QED BY <1>1, SeatCorrect, PTL

(* No call draws again what was drawn, or replaces the roster, the deadlines *)
(* or the word of a round whose word was delivered.                          *)
THEOREM DrawStays == Spec => DrawIsFinal
  <1>1. TypeOK /\ DrawInv /\ [Next]_vars => [DrawIsFinalStep]_vars
    <2> SUFFICES ASSUME TypeOK, DrawInv, [Next]_vars, NEW s \in Sessions
                 PROVE  /\ \A h \in Houses : \A k \in Drawn(s, h) : UNCHANGED selected[s][h][k]
                        /\ rounds[s].fulfilled => UNCHANGED rounds[s]
      BY DEF DrawIsFinalStep
    <2>1. Advances(s)
      BY AdvancesStep
    <2>2. rounds[s].fulfilled => rounds[s].exists
      BY RoundFacts
    <2>3. rounds[s].fulfilled => UNCHANGED rounds[s]
      <3>1. ASSUME NEW r \in Requests, NEW word \in Words, FulfillRandomness(r, word),
                   rounds[s].fulfilled
            PROVE  rounds'[s] = rounds[s]
        BY <3>1 DEF FulfillRandomness, AwaitingWord, TypeOK
      <3>2. ASSUME NEW t \in Sessions, NEW r \in Requests, NEW schedule \in Schedules,
                   NEW sizes \in Sizes, NEW roster \in Rosters,
                   CreateRound(t, r, schedule, sizes, roster), rounds[s].exists
            PROVE  rounds'[s] = rounds[s]
        BY <3>2 DEF CreateRound, TypeOK
      <3> QED BY <2>2, <3>1, <3>2 DEF Next, Tick, FinalizeNextSelection, ClaimSeat,
                 ActivateNextAlternate, RegisterByOther, vars
    <2> QED BY <2>1, <2>3 DEF Advances
  <1> QED BY <1>1, DrawCorrect, PTL DEF Spec, DrawIsFinal
=============================================================================
