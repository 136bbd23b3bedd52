--------------------- MODULE ParticipantEnrollmentProofs ---------------------
(***************************************************************************)
(* Proofs about participant enrollment, for every set of invitations and   *)
(* wallets, every bound and every number of faults.                        *)
(*                                                                         *)
(* The inductive invariant says what the operator may rely on after each   *)
(* await, although the chain, the network and other transactions moved in  *)
(* the meantime: what it knows of the registry is monotone (Knowledge).    *)
(*                                                                         *)
(* The last part is about a participant's page and the subscription        *)
(* contract: a price travels with its plan's version, from the contract to *)
(* the page, to a transaction's arguments and back (Known).                *)
(***************************************************************************)
EXTENDS ParticipantEnrollment, ListenerPage, FiniteSetTheorems, SequenceTheorems, TLAPS

Row == [state : RowStates, expiresAt : 0..(MaxTime + ApprovalTTL),
        amount : {"none", "measured", "zero"}]
Participant == [wallet : Wallets \cup {NoWallet}, expiresAt : 0..(MaxTime + ApprovalTTL),
                active : BOOLEAN, registered : BOOLEAN, funded : BOOLEAN]
Transaction == [kind : {"approve", "fund"}, inv : Invitations]
Phases == {"status", "approve", "approval", "recheck", "fund", "funding", "balance"}
Outcomes == {"none", "pending", "success", "reverted", "dropped"}

(* The operator is idle or awaits something for an invitation; a receipt is  *)
(* awaited in two phases, and for the kind of transaction the phase sent.    *)
Awaiting ==
    /\ op = Idle \/ (op.inv \in Invitations /\ op.pc \in Phases)
    /\ op.outcome # "none" => op.pc \in {"approval", "funding"}
    /\ op.outcome = "pending" =>
           Last(pool).kind = (IF op.pc = "approval" THEN "approve" ELSE "fund")

(* Nothing is queued, recorded or registered for an unclaimed invitation. *)
ClaimedFirst ==
    \A i \in Invitations :
        i \in running \/ rows[i].state # "none" \/ chain[i].wallet # NoWallet
            => claimed[i] # NoWallet

(* The registry holds the wallet that claimed, or none. *)
RegistryTrue == \A i \in Invitations : chain[i].wallet \in {NoWallet, claimed[i]}

(* What a receipt and a phase tell the operator about the registry. *)
Knowledge ==
    /\ op.pc \in {"recheck", "fund", "funding", "balance"}
           \/ (op.pc = "approval" /\ op.outcome = "success")
           => chain[op.inv].wallet = claimed[op.inv]
    /\ op.pc = "balance" \/ (op.pc = "funding" /\ op.outcome = "success")
           => chain[op.inv].funded

(* The row in progress exists and is not FUNDED. *)
RowInProgress ==
    /\ \A i \in Invitations : rows[i].state = "none" => rows[i] = NoRow
    /\ op.inv \in Invitations => rows[op.inv].state \notin {"none", "FUNDED"}

(* Each invitation is queued or in progress at most once. *)
QueueOnce ==
    /\ running = ToSet(queue) \cup ({op.inv} \ {NoInvitation})
    /\ op.inv \notin ToSet(queue)
    /\ \A m, n \in 1..Len(queue) : queue[m] = queue[n] => m = n

EnrollmentInv ==
    /\ TypeOK /\ Awaiting /\ ClaimedFirst /\ RegistryTrue /\ Knowledge /\ RowInProgress
    /\ QueueOnce /\ RowsFollowTheChain /\ OneParticipantPerWallet

-----------------------------------------------------------------------------
(* Sequences. *)
LEMMA AppendFacts ==
    ASSUME NEW S, NEW s \in Seq(S), NEW e \in S
    PROVE  /\ Append(s, e) \in Seq(S) /\ Append(s, e) # <<>> /\ Last(Append(s, e)) = e
           /\ ToSet(Append(s, e)) = ToSet(s) \cup {e}
  <1>1. /\ Append(s, e) \in Seq(S) /\ Append(s, e) # <<>> /\ Len(s) \in Nat
        /\ Len(Append(s, e)) = Len(s) + 1 /\ Append(s, e)[Len(s) + 1] = e
        /\ \A n \in 1..Len(s) : Append(s, e)[n] = s[n]
    BY AppendProperties, LenProperties
  <1>2. DOMAIN Append(s, e) = 1..(Len(s) + 1) /\ DOMAIN s = 1..Len(s)
    BY <1>1, LenProperties
  <1>3. ToSet(Append(s, e)) = ToSet(s) \cup {e}
    <2>1. ASSUME NEW x \in ToSet(Append(s, e)) PROVE x \in ToSet(s) \cup {e}
      <3>1. PICK n \in 1..(Len(s) + 1) : x = Append(s, e)[n]
        BY <1>2 DEF ToSet
      <3>2. CASE n = Len(s) + 1
        BY <3>1, <3>2, <1>1
      <3>3. CASE n \in 1..Len(s)
        BY <3>1, <3>3, <1>1, <1>2 DEF ToSet
      <3> QED BY <3>2, <3>3, <1>1
    <2>2. ASSUME NEW x \in ToSet(s) PROVE x \in ToSet(Append(s, e))
      <3>1. PICK n \in 1..Len(s) : x = s[n]
        BY <1>2 DEF ToSet
      <3> QED BY <3>1, <1>1, <1>2 DEF ToSet
    <2>3. e \in ToSet(Append(s, e))
      <3>1. Len(s) + 1 \in 1..(Len(s) + 1)
        BY <1>1
      <3> QED BY <3>1, <1>1, <1>2 DEF ToSet
    <2> QED BY <2>1, <2>2, <2>3
  <1> QED BY <1>1, <1>3 DEF Last

LEMMA TailFacts ==
    ASSUME NEW S, NEW s \in Seq(S), s # <<>>
    PROVE  /\ Head(s) \in S /\ Tail(s) \in Seq(S) /\ Head(s) = s[1]
           /\ Len(s) \in Nat \ {0} /\ Len(Tail(s)) = Len(s) - 1
           /\ \A n \in 1..Len(Tail(s)) : Tail(s)[n] = s[n + 1]
           /\ ToSet(s) = {Head(s)} \cup ToSet(Tail(s))
           /\ Len(s) # 1 => Tail(s) # <<>> /\ Last(Tail(s)) = Last(s)
  <1>1. /\ Head(s) \in S /\ Tail(s) \in Seq(S) /\ Head(s) = s[1]
        /\ Len(Tail(s)) = Len(s) - 1 /\ Len(s) \in Nat \ {0}
        /\ \A n \in 1..Len(Tail(s)) : Tail(s)[n] = s[n + 1]
    BY HeadTailProperties, EmptySeq
  <1>2. DOMAIN s = 1..Len(s) /\ DOMAIN Tail(s) = 1..(Len(s) - 1)
    BY <1>1, LenProperties
  <1>3. ToSet(s) = {Head(s)} \cup ToSet(Tail(s))
    <2>1. ASSUME NEW x \in ToSet(s) PROVE x \in {Head(s)} \cup ToSet(Tail(s))
      <3>1. PICK n \in 1..Len(s) : x = s[n]
        BY <1>2 DEF ToSet
      <3>2. CASE n = 1
        BY <3>1, <3>2, <1>1
      <3>3. CASE n # 1
        <4>1. n - 1 \in 1..(Len(s) - 1)
          BY <3>3, <1>1
        <4>2. Tail(s)[n - 1] = s[(n - 1) + 1] /\ (n - 1) + 1 = n
          BY <4>1, <1>1
        <4> QED BY <3>1, <4>1, <4>2, <1>2 DEF ToSet
      <3> QED BY <3>2, <3>3
    <2>2. ASSUME NEW x \in ToSet(Tail(s)) PROVE x \in ToSet(s)
      <3>1. PICK n \in 1..(Len(s) - 1) : x = Tail(s)[n]
        BY <1>2 DEF ToSet
      <3>2. n + 1 \in 1..Len(s) /\ x = s[n + 1]
        BY <3>1, <1>1
      <3> QED BY <3>2, <1>2 DEF ToSet
    <2>3. Head(s) \in ToSet(s)
      <3>1. 1 \in 1..Len(s)
        BY <1>1
      <3> QED BY <3>1, <1>1, <1>2 DEF ToSet
    <2> QED BY <2>1, <2>2, <2>3
  <1>4. ASSUME Len(s) # 1 PROVE Tail(s) # <<>> /\ Last(Tail(s)) = Last(s)
    <2>1. Len(Tail(s)) # 0 /\ Len(Tail(s)) \in 1..Len(Tail(s)) /\ Len(Tail(s)) + 1 = Len(s)
      BY <1>1, <1>4
    <2>2. Tail(s) # <<>>
      BY <2>1, EmptySeq
    <2>3. Tail(s)[Len(Tail(s))] = s[Len(s)]
      BY <2>1, <1>1
    <2> QED BY <2>2, <2>3 DEF Last
  <1> QED BY <1>1, <1>3, <1>4

LEMMA FrontFacts ==
    ASSUME NEW S, NEW s \in Seq(S)
    PROVE  Front(s) \in Seq(S)
  <1>1. Len(s) \in Nat /\ \A n \in 1..(Len(s) - 1) : s[n] \in S
    BY LenProperties, ElementOfSeq
  <1> QED BY <1>1, SubSeqProperties DEF Front

(* A sequence without repetition is as long as its set is large. *)
LEMMA CountOnce ==
    ASSUME NEW S, NEW s \in Seq(S), \A m, n \in 1..Len(s) : s[m] = s[n] => m = n
    PROVE  Len(s) = Cardinality(ToSet(s))
  <1>1. Len(s) \in Nat /\ DOMAIN s = 1..Len(s) /\ s \in [1..Len(s) -> ToSet(s)]
    BY LenProperties DEF ToSet
  <1>2. s \in Bijection(1..Len(s), ToSet(s))
    BY <1>1 DEF Bijection, Injection, IsInjective, Surjection, ToSet
  <1> QED BY <1>1, <1>2, FS_CountingElements DEF ExistsBijection

-----------------------------------------------------------------------------
LEMMA InitInv == Init => EnrollmentInv
  <1> SUFFICES ASSUME Init PROVE EnrollmentInv
    OBVIOUS
  <1>1. TypeOK
    BY EnrollmentAssumption DEF Init, TypeOK, Idle, NoRow, NotApproved, RowStates
  <1>2. queue = <<>> /\ ToSet(queue) = {} /\ Len(queue) = 0 /\ op.inv = NoInvitation
    BY DEF Init, Idle, ToSet
  <1>3. QueueOnce
    BY <1>2 DEF Init, QueueOnce
  <1>4. Awaiting /\ Knowledge
    BY DEF Init, Awaiting, Knowledge, Idle
  <1>5. ClaimedFirst /\ RegistryTrue /\ RowInProgress
    BY EnrollmentAssumption
    DEF Init, ClaimedFirst, RegistryTrue, RowInProgress, Idle, NoRow, NotApproved
  <1>6. RowsFollowTheChain
    BY DEF Init, RowsFollowTheChain, NoRow, FundingStates
  <1>7. OneParticipantPerWallet
    BY EnrollmentAssumption DEF Init, OneParticipantPerWallet, NotApproved
  <1> QED BY <1>1, <1>3, <1>4, <1>5, <1>6, <1>7 DEF EnrollmentInv

-----------------------------------------------------------------------------
(* The operator's actions have one shape: the row in progress is rewritten   *)
(* to something the registry backs, and the operator goes on to a phase that *)
(* it knows enough for, or is done.                                          *)
Backed(row, i) ==
    /\ row \in Row /\ row.state # "none"
    /\ row.state \in FundingStates \cup {"FUNDED"} => chain[i].wallet = claimed[i]
    /\ row.state = "FUNDED" => chain[i].funded

Knows(pc, i) ==
    /\ pc \in {"recheck", "fund", "funding", "balance"} => chain[i].wallet = claimed[i]
    /\ pc = "balance" => chain[i].funded

Handled ==
    /\ op.inv \in Invitations
    /\ UNCHANGED <<now, claimed, queue, pool, registry>> /\ faults' \in 0..MaxFaults
    /\ \E row \in Row :
        /\ Backed(row, op.inv)
        /\ rows' = [rows EXCEPT ![op.inv] = row]
        /\ \/ op' = Idle /\ running' = running \ {op.inv}
           \/ \E pc \in Phases :
                /\ Knows(pc, op.inv) /\ row.state # "FUNDED"
                /\ op' = [op EXCEPT !.pc = pc, !.outcome = "none"] /\ running' = running

(* A handled step keeps the invariant. *)
LEMMA HandledInv == EnrollmentInv /\ Handled => EnrollmentInv'
  <1> SUFFICES ASSUME EnrollmentInv, Handled PROVE EnrollmentInv'
    OBVIOUS
  <1> DEFINE i == op.inv
  <1>1. PICK row \in Row :
            /\ Backed(row, i)
            /\ rows' = [rows EXCEPT ![i] = row]
            /\ \/ op' = Idle /\ running' = running \ {i}
               \/ \E pc \in Phases :
                    /\ Knows(pc, i) /\ row.state # "FUNDED"
                    /\ op' = [op EXCEPT !.pc = pc, !.outcome = "none"] /\ running' = running
    BY DEF Handled
  <1>2. /\ i \in Invitations /\ TypeOK /\ faults' \in 0..MaxFaults
        /\ now' = now /\ claimed' = claimed /\ queue' = queue /\ pool' = pool
        /\ chain' = chain /\ idByWallet' = idByWallet
    BY DEF Handled, EnrollmentInv, registry
  <1>3. /\ rows' \in [Invitations -> Row] /\ rows'[i] = row
        /\ \A j \in Invitations \ {i} : rows'[j] = rows[j]
    BY <1>1, <1>2 DEF TypeOK, Row
  <1>4. \/ op' = Idle /\ running' = running \ {i}
        \/ \E pc \in Phases :
             /\ Knows(pc, i) /\ row.state # "FUNDED" /\ running' = running
             /\ op' = [pc |-> pc, inv |-> i, outcome |-> "none"]
    BY <1>1 DEF EnrollmentInv, TypeOK
  <1>5. TypeOK'
    <2>1. op' \in [pc : {"idle"} \cup Phases, inv : Invitations \cup {NoInvitation}, outcome : Outcomes]
          /\ op'.outcome = "none"
      BY <1>4, <1>2 DEF Idle, Phases, Outcomes
    <2>2. running' \subseteq Invitations
      BY <1>4, <1>2 DEF TypeOK
    <2> QED BY <1>2, <1>3, <2>1, <2>2 DEF TypeOK, Row, Phases, Outcomes
  <1>6. Awaiting'
    BY <1>2, <1>4 DEF Awaiting, Idle
  <1>7. ClaimedFirst'
    <2>1. claimed[i] # NoWallet /\ running' \subseteq running
      BY <1>2, <1>4, EnrollmentAssumption DEF EnrollmentInv, QueueOnce, ClaimedFirst
    <2> QED BY <2>1, <1>2, <1>3 DEF EnrollmentInv, ClaimedFirst
  <1>8. RegistryTrue' /\ OneParticipantPerWallet'
    BY <1>2 DEF EnrollmentInv, RegistryTrue, OneParticipantPerWallet
  <1>9. Knowledge'
    BY <1>2, <1>4 DEF Knowledge, Knows, Idle
  <1>10. RowInProgress'
    <2>1. row.state # "none"
      BY <1>1 DEF Backed
    <2>2. op'.inv \in Invitations => op'.inv = i /\ row.state # "FUNDED"
      BY <1>4, EnrollmentAssumption DEF Idle
    <2> QED BY <1>2, <1>3, <2>1, <2>2 DEF EnrollmentInv, RowInProgress
  <1>11. QueueOnce'
    <2>1. i \notin ToSet(queue) /\ i # NoInvitation /\ ToSet(queue) \subseteq Invitations
          /\ running = ToSet(queue) \cup {i}
      BY <1>2, EnrollmentAssumption DEF EnrollmentInv, QueueOnce, TypeOK
    <2>2. ToSet(queue') = ToSet(queue) /\ \A m, n \in 1..Len(queue') : queue'[m] = queue'[n] => m = n
      BY <1>2 DEF EnrollmentInv, QueueOnce
    <2>3. CASE op' = Idle /\ running' = running \ {i}
      <3>1. op'.inv = NoInvitation /\ running' = ToSet(queue)
        BY <2>1, <2>3 DEF Idle
      <3> QED BY <2>1, <2>2, <3>1, EnrollmentAssumption DEF QueueOnce
    <2>4. CASE op'.inv = i /\ running' = running
      BY <2>1, <2>2, <2>4 DEF QueueOnce
    <2> QED BY <1>4, <2>3, <2>4
  <1>12. RowsFollowTheChain'
    BY <1>1, <1>2, <1>3 DEF EnrollmentInv, RowsFollowTheChain, Backed
  <1> QED BY <1>5, <1>6, <1>7, <1>8, <1>9, <1>10, <1>11, <1>12 DEF EnrollmentInv

(* A funded row is nobody's row in progress. *)
LEMMA HandledFinal ==
    ASSUME EnrollmentInv, Handled, NEW i \in Invitations, rows[i].state = "FUNDED"
    PROVE  rows'[i] = rows[i]
  BY DEF Handled, EnrollmentInv, RowInProgress, TypeOK

(* What follows an approval the registry shows. *)
LEMMA AfterApprovalHandled ==
    ASSUME EnrollmentInv, op # Idle, NEW row \in Row, Backed(row, op.inv), row.state # "FUNDED",
           chain[op.inv].wallet = claimed[op.inv], AfterApproval(row),
           UNCHANGED <<now, faults, claimed, queue, pool, registry>>
    PROVE  Handled
  <1>1. op.inv \in Invitations /\ faults' \in 0..MaxFaults
    BY DEF EnrollmentInv, Awaiting, TypeOK
  <1>2. row.state # "FUNDED" /\ row.state # "none" /\ Backed(row, op.inv)
    BY DEF Backed
  <1>3. CASE ~chain[op.inv].active /\ SetRow(row) /\ Done
    BY <1>1, <1>2, <1>3 DEF SetRow, Done, Released, Handled
  <1>4. CASE chain[op.inv].funded /\ SetRow([row EXCEPT !.state = "FUNDED", !.amount = "zero"]) /\ Done
    <2> DEFINE funded == [row EXCEPT !.state = "FUNDED", !.amount = "zero"]
    <2>1. funded \in Row /\ funded.state = "FUNDED"
      BY DEF Row, RowStates
    <2>2. Backed(funded, op.inv)
      BY <2>1, <1>4 DEF Backed
    <2> HIDE DEF funded
    <2>3. rows' = [rows EXCEPT ![op.inv] = funded] /\ op' = Idle /\ running' = running \ {op.inv}
      BY <1>4 DEF SetRow, Done, Released, funded
    <2> QED BY <1>1, <2>1, <2>2, <2>3 DEF Handled
  <1>5. CASE SetRow(row) /\ Await("fund") /\ UNCHANGED running
    <2>1. "fund" \in Phases /\ Knows("fund", op.inv)
      BY DEF Phases, Knows
    <2> QED BY <1>1, <1>2, <1>5, <2>1 DEF SetRow, Await, Handled
  <1> QED BY <1>3, <1>4, <1>5 DEF AfterApproval

(* The row in progress, as a record. *)
LEMMA RowFacts ==
    ASSUME EnrollmentInv, op # Idle
    PROVE  /\ op.inv \in Invitations /\ rows[op.inv] \in Row
           /\ rows[op.inv].state \notin {"none", "FUNDED"}
           /\ rows = [rows EXCEPT ![op.inv] = rows[op.inv]]
           /\ Backed(rows[op.inv], op.inv)
           /\ \A st \in RowStates : [rows[op.inv] EXCEPT !.state = st] \in Row
                                    /\ [rows[op.inv] EXCEPT !.state = st].state = st
  <1>1. op.inv \in Invitations /\ rows[op.inv] \in Row /\ rows \in [Invitations -> Row]
    BY DEF EnrollmentInv, Awaiting, TypeOK, Row
  <1>2. rows[op.inv].state \notin {"none", "FUNDED"}
    BY <1>1 DEF EnrollmentInv, RowInProgress
  <1>3. Backed(rows[op.inv], op.inv)
    BY <1>1, <1>2 DEF EnrollmentInv, RowsFollowTheChain, Backed
  <1>4. \A st \in RowStates : [rows[op.inv] EXCEPT !.state = st] \in Row
                              /\ [rows[op.inv] EXCEPT !.state = st].state = st
    <2>1. PICK row \in Row : row = rows[op.inv]
      BY <1>1
    <2> QED BY <2>1 DEF Row
  <1> QED BY <1>1, <1>2, <1>3, <1>4

LEMMA StatusAnsweredHandled == EnrollmentInv /\ StatusAnswered => Handled
  <1> SUFFICES ASSUME EnrollmentInv, StatusAnswered PROVE Handled
    OBVIOUS
  <1> DEFINE i == op.inv
             row == rows[i]
  <1>1. op # Idle /\ UNCHANGED <<now, faults, claimed, queue, pool, registry>>
    BY DEF StatusAnswered, Idle
  <1>2. i \in Invitations /\ faults' \in 0..MaxFaults
    BY <1>1, RowFacts DEF EnrollmentInv, TypeOK
  <1>3. CASE Done /\ UNCHANGED rows
    BY <1>1, <1>2, <1>3, RowFacts DEF Done, Released, Handled
  <1>4. CASE Await("approve") /\ UNCHANGED <<rows, running>>
    <2>1. "approve" \in Phases /\ Knows("approve", i)
      BY DEF Phases, Knows
    <2> QED BY <1>1, <1>2, <1>4, <2>1, RowFacts DEF Await, Handled
  <1>5. CASE /\ chain[i].wallet # NoWallet
             /\ AfterApproval(IF row.state \in FundingStates THEN row
                              ELSE [row EXCEPT !.state = "APPROVED"])
    <2>1. chain[i].wallet = claimed[i]
      BY <1>2, <1>5 DEF EnrollmentInv, RegistryTrue
    <2>2. CASE row.state \in FundingStates
      BY <1>1, <1>5, <2>1, <2>2, RowFacts, AfterApprovalHandled
    <2>3. CASE row.state \notin FundingStates
      <3>1. PICK r \in Row : r = [row EXCEPT !.state = "APPROVED"] /\ r.state = "APPROVED"
        BY <1>1, RowFacts DEF RowStates, FundingStates
      <3>2. AfterApproval(r) /\ Backed(r, i)
        BY <1>5, <2>1, <2>3, <3>1 DEF Backed
      <3> QED BY <1>1, <2>1, <3>1, <3>2, AfterApprovalHandled
    <2> QED BY <2>2, <2>3
  <1> QED BY <1>3, <1>4, <1>5 DEF StatusAnswered

LEMMA ConfirmedHandled ==
    ASSUME EnrollmentInv,
           ApprovalConfirmed \/ StatusRechecked \/ FundingConfirmed \/ BalanceAnswered
    PROVE  Handled
  <1> DEFINE i == op.inv
  <1>1. op # Idle /\ UNCHANGED <<now, faults, claimed, queue, pool, registry>>
    BY DEF ApprovalConfirmed, StatusRechecked, FundingConfirmed, BalanceAnswered, Idle
  <1>2. i \in Invitations /\ faults' \in 0..MaxFaults
    BY <1>1, RowFacts DEF EnrollmentInv, TypeOK
  <1>3. chain[i].wallet = claimed[i]
    BY DEF ApprovalConfirmed, StatusRechecked, FundingConfirmed, BalanceAnswered, Confirmed,
           EnrollmentInv, Knowledge
  <1>4. CASE ApprovalConfirmed
    <2>1. PICK r \in Row : r = [rows[i] EXCEPT !.state = "APPROVED"] /\ r.state = "APPROVED"
      BY <1>1, RowFacts DEF RowStates, FundingStates
    <2>2. Backed(r, i) /\ "recheck" \in Phases /\ Knows("recheck", i)
      BY <1>3, <2>1 DEF Backed, Phases, Knows
    <2>3. /\ rows' = [rows EXCEPT ![i] = r] /\ running' = running
          /\ op' = [op EXCEPT !.pc = "recheck", !.outcome = "none"]
      BY <1>4, <2>1 DEF ApprovalConfirmed, SetRow, Await
    <2> QED BY <1>1, <1>2, <2>1, <2>2, <2>3 DEF Handled
  <1>5. CASE StatusRechecked
    BY <1>1, <1>3, <1>5, RowFacts, AfterApprovalHandled DEF StatusRechecked
  <1>6. CASE FundingConfirmed
    <2>1. chain[i].funded
      BY <1>6 DEF FundingConfirmed, Confirmed, EnrollmentInv, Knowledge
    <2>2. "balance" \in Phases /\ Knows("balance", i)
      BY <1>3, <2>1 DEF Phases, Knows
    <2>3. rows[i].state # "FUNDED" /\ Backed(rows[i], i) /\ rows[i] \in Row
          /\ rows = [rows EXCEPT ![i] = rows[i]]
      BY <1>1, RowFacts
    <2> QED BY <1>1, <1>2, <1>6, <2>2, <2>3 DEF FundingConfirmed, Await, Handled
  <1>7. CASE BalanceAnswered
    <2>1. chain[i].funded
      BY <1>7 DEF BalanceAnswered, EnrollmentInv, Knowledge
    <2>2. PICK r \in Row :
              r = [rows[i] EXCEPT !.state = "FUNDED", !.amount = "measured"] /\ r.state = "FUNDED"
      <3>1. PICK row \in Row : row = rows[i]
        BY <1>1, RowFacts
      <3>2. [row EXCEPT !.state = "FUNDED", !.amount = "measured"] \in Row
            /\ [row EXCEPT !.state = "FUNDED", !.amount = "measured"].state = "FUNDED"
        BY DEF Row, RowStates
      <3> QED BY <3>1, <3>2
    <2>3. Backed(r, i)
      BY <1>3, <2>1, <2>2 DEF Backed
    <2>4. rows' = [rows EXCEPT ![i] = r] /\ op' = Idle /\ running' = running \ {i}
      BY <1>7, <2>2 DEF BalanceAnswered, SetRow, Done, Released
    <2> QED BY <1>1, <1>2, <2>2, <2>3, <2>4 DEF Handled
  <1> QED BY <1>4, <1>5, <1>6, <1>7

LEMMA FailedHandled == EnrollmentInv /\ (ReceiptMissing \/ CallFails) => Handled
  <1> SUFFICES ASSUME EnrollmentInv, ReceiptMissing \/ CallFails PROVE Handled
    OBVIOUS
  <1> DEFINE i == op.inv
  <1>1. op # Idle /\ Failed
    BY DEF ReceiptMissing, CallFails, Idle
  <1>2. i \in Invitations /\ faults' \in 0..MaxFaults
    <2>1. faults \in 0..MaxFaults /\ MaxFaults \in Nat
      BY EnrollmentAssumption DEF EnrollmentInv, TypeOK
    <2> QED BY <1>1, <2>1, RowFacts DEF ReceiptMissing, CallFails, Fault
  <1>3. FailedState(rows[i].state) \in {"FUNDING_FAILED", "APPROVAL_FAILED"}
        /\ (FailedState(rows[i].state) = "FUNDING_FAILED" => rows[i].state \in FundingStates)
    BY DEF FailedState
  <1>4. PICK r \in Row : r = [rows[i] EXCEPT !.state = FailedState(rows[i].state)]
                         /\ r.state = FailedState(rows[i].state)
    BY <1>1, <1>3, RowFacts DEF RowStates, FundingStates
  <1>5. Backed(r, i)
    BY <1>1, <1>3, <1>4, RowFacts DEF Backed, FundingStates
  <1>6. rows' = [rows EXCEPT ![i] = r] /\ op' = Idle /\ running' = running \ {i}
        /\ UNCHANGED <<now, claimed, queue, pool, registry>>
    <2>1. PICK row \in Row : row = rows[i]
      BY <1>1, RowFacts
    <2>2. [row EXCEPT !.state = FailedState(@)] = [row EXCEPT !.state = FailedState(row.state)]
      BY DEF Row
    <2> QED BY <1>1, <1>4, <2>1, <2>2 DEF Failed, SetRow, Done, Released
  <1> QED BY <1>2, <1>4, <1>5, <1>6 DEF Handled

-----------------------------------------------------------------------------
(* The other actions, one by one. *)
LEMMA BeginInv == EnrollmentInv /\ Begin => EnrollmentInv'
  <1> SUFFICES ASSUME EnrollmentInv, Begin PROVE EnrollmentInv'
    OBVIOUS
  <1> DEFINE i == Head(queue)
  <1>1. /\ op = Idle /\ queue # <<>> /\ queue' = Tail(queue)
        /\ now' = now /\ faults' = faults /\ claimed' = claimed /\ pool' = pool
        /\ chain' = chain /\ idByWallet' = idByWallet
    BY DEF Begin, registry
  <1>2. /\ i \in Invitations /\ queue' \in Seq(Invitations) /\ i = queue[1]
        /\ Len(queue) \in Nat \ {0} /\ Len(queue') = Len(queue) - 1
        /\ \A n \in 1..Len(queue') : queue'[n] = queue[n + 1]
        /\ ToSet(queue) = {i} \cup ToSet(queue') /\ queue \in Seq(Invitations)
    BY <1>1, TailFacts DEF EnrollmentInv, TypeOK
  <1>3. i \notin ToSet(queue') /\ \A m, n \in 1..Len(queue') : queue'[m] = queue'[n] => m = n
    <2>1. \A m, n \in 1..Len(queue) : queue[m] = queue[n] => m = n
      BY DEF EnrollmentInv, QueueOnce
    <2>2. ASSUME NEW n \in 1..Len(queue'), queue'[n] = i PROVE FALSE
      <3>1. n + 1 \in 1..Len(queue) /\ 1 \in 1..Len(queue) /\ n + 1 # 1
        BY <1>2
      <3> QED BY <3>1, <2>1, <2>2, <1>2
    <2>3. ASSUME NEW m \in 1..Len(queue'), NEW n \in 1..Len(queue'), queue'[m] = queue'[n]
          PROVE  m = n
      <3>1. m + 1 \in 1..Len(queue) /\ n + 1 \in 1..Len(queue)
        BY <1>2
      <3> QED BY <3>1, <2>1, <2>3, <1>2
    <2>4. DOMAIN queue' = 1..Len(queue')
      BY <1>2, LenProperties
    <2> QED BY <2>2, <2>3, <2>4 DEF ToSet
  <1>4. /\ rows' \in [Invitations -> Row] /\ rows[i] \in Row
        /\ \A j \in Invitations \ {i} : rows'[j] = rows[j]
        /\ rows'[i].state # "none"
        /\ rows'[i] = rows[i] \/ rows'[i].state = "READY_FOR_APPROVAL"
    <2>1. rows \in [Invitations -> Row] /\ now \in 1..MaxTime
      BY DEF EnrollmentInv, TypeOK, Row
    <2>2. CASE rows[i] = NoRow
      <3>1. now + ApprovalTTL \in 0..(MaxTime + ApprovalTTL)
        BY <2>1, EnrollmentAssumption
      <3>2. PICK r \in Row : r = rows[i]
        BY <2>1, <1>2
      <3>3. [r EXCEPT !.state = "READY_FOR_APPROVAL", !.expiresAt = now + ApprovalTTL] \in Row
            /\ [r EXCEPT !.state = "READY_FOR_APPROVAL", !.expiresAt = now + ApprovalTTL].state
               = "READY_FOR_APPROVAL"
        BY <3>1 DEF Row, RowStates
      <3>4. rows' = [rows EXCEPT ![i] = [r EXCEPT !.state = "READY_FOR_APPROVAL",
                                                  !.expiresAt = now + ApprovalTTL]]
        BY <2>1, <2>2, <3>2, <1>2 DEF Begin
      <3> QED BY <2>1, <3>3, <3>4, <1>2
    <2>3. CASE rows[i] # NoRow
      <3>1. rows' = rows /\ rows[i].state # "none"
        BY <2>3, <1>2 DEF Begin, EnrollmentInv, RowInProgress
      <3> QED BY <2>1, <3>1, <1>2
    <2> QED BY <2>2, <2>3
  <1>5. \/ op' = Idle /\ running' = running \ {i}
        \/ /\ op' = [pc |-> "status", inv |-> i, outcome |-> "none"] /\ running' = running
           /\ rows'[i].state \notin {"none", "FUNDED"}
    <2>1. ~AlreadyFunded(rows[i]) => rows[i].state # "FUNDED"
      BY DEF AlreadyFunded
    <2> QED BY <2>1, <1>4 DEF Begin
  <1>6. claimed[i] # NoWallet /\ running = ToSet(queue) /\ running \subseteq Invitations
    BY <1>1, <1>2 DEF EnrollmentInv, QueueOnce, ClaimedFirst, TypeOK, Idle
  <1>7. TypeOK'
    <2>1. op' \in [pc : {"idle"} \cup Phases, inv : Invitations \cup {NoInvitation}, outcome : Outcomes]
          /\ op'.outcome = "none"
      BY <1>2, <1>5 DEF Idle, Phases, Outcomes
    <2>2. running' \subseteq Invitations
      BY <1>5, <1>6
    <2> QED BY <1>1, <1>2, <1>4, <2>1, <2>2 DEF EnrollmentInv, TypeOK, Row, Phases, Outcomes
  <1>8. Awaiting' /\ Knowledge'
    BY <1>2, <1>5 DEF Awaiting, Knowledge, Idle, Phases
  <1>9. ClaimedFirst'
    BY <1>1, <1>4, <1>5, <1>6 DEF EnrollmentInv, ClaimedFirst
  <1>10. RegistryTrue' /\ OneParticipantPerWallet'
    BY <1>1 DEF EnrollmentInv, RegistryTrue, OneParticipantPerWallet
  <1>11. RowInProgress'
    <2>1. op'.inv \in Invitations => op'.inv = i /\ rows'[i].state \notin {"none", "FUNDED"}
      BY <1>5, EnrollmentAssumption DEF Idle
    <2> QED BY <1>4, <2>1 DEF EnrollmentInv, RowInProgress
  <1>12. QueueOnce'
    <2>1. CASE op' = Idle /\ running' = running \ {i}
      <3>1. op'.inv = NoInvitation /\ running' = ToSet(queue')
        BY <2>1, <1>2, <1>3, <1>6 DEF Idle
      <3>2. NoInvitation \notin ToSet(queue')
        BY <1>2, <1>6, EnrollmentAssumption
      <3> QED BY <1>3, <3>1, <3>2 DEF QueueOnce
    <2>2. CASE op'.inv = i /\ running' = running
      <3>1. i # NoInvitation
        BY <1>2, EnrollmentAssumption
      <3> QED BY <1>2, <1>3, <1>6, <2>2, <3>1 DEF QueueOnce
    <2> QED BY <1>5, <2>1, <2>2
  <1>13. RowsFollowTheChain'
    <2>1. rows'[i].state \in FundingStates \cup {"FUNDED"} => rows'[i] = rows[i]
      BY <1>4 DEF FundingStates
    <2> QED BY <1>1, <1>4, <2>1 DEF EnrollmentInv, RowsFollowTheChain
  <1> QED BY <1>7, <1>8, <1>9, <1>10, <1>11, <1>12, <1>13 DEF EnrollmentInv

(* A new promise is chained: the invitation was not running. *)
LEMMA EnqueueInv ==
    ASSUME EnrollmentInv, NEW i \in Invitations, i \notin running, Enqueue(i),
           claimed' \in [Invitations -> Wallets \cup {NoWallet}], claimed'[i] # NoWallet,
           \A j \in Invitations : claimed[j] = NoWallet \/ claimed'[j] = claimed[j],
           UNCHANGED <<now, faults, rows, op, pool, registry>>
    PROVE  EnrollmentInv'
  <1>1. /\ now' = now /\ faults' = faults /\ rows' = rows /\ op' = op /\ pool' = pool
        /\ chain' = chain /\ idByWallet' = idByWallet
        /\ running' = running \cup {i} /\ queue' = Append(queue, i) /\ queue \in Seq(Invitations)
    BY DEF registry, Enqueue, EnrollmentInv, TypeOK
  <1>2. /\ queue' \in Seq(Invitations) /\ ToSet(queue') = ToSet(queue) \cup {i}
        /\ Len(queue') = Len(queue) + 1 /\ Len(queue) \in Nat /\ queue'[Len(queue) + 1] = i
        /\ \A n \in 1..Len(queue) : queue'[n] = queue[n]
        /\ DOMAIN queue = 1..Len(queue)
    BY <1>1, AppendFacts, AppendProperties, LenProperties
  <1>3. TypeOK'
    BY <1>1, <1>2 DEF EnrollmentInv, TypeOK
  <1>4. Awaiting' /\ RowInProgress'
    BY <1>1 DEF EnrollmentInv, Awaiting, RowInProgress
  <1>5. ClaimedFirst' /\ RegistryTrue' /\ RowsFollowTheChain' /\ OneParticipantPerWallet'
    <2>1. ASSUME NEW j \in Invitations, chain[j].wallet # NoWallet \/ rows[j].state # "none"
          PROVE  claimed'[j] = claimed[j] /\ claimed[j] # NoWallet
      BY <2>1 DEF EnrollmentInv, ClaimedFirst
    <2>2. ClaimedFirst'
      BY <1>1, <2>1 DEF EnrollmentInv, ClaimedFirst
    <2>3. RegistryTrue'
      BY <1>1, <2>1 DEF EnrollmentInv, RegistryTrue
    <2>4. RowsFollowTheChain'
      BY <1>1, <2>1 DEF EnrollmentInv, RowsFollowTheChain, FundingStates
    <2> QED BY <1>1, <2>2, <2>3, <2>4 DEF EnrollmentInv, OneParticipantPerWallet
  <1>6. Knowledge'
    <2>1. op = Idle \/ (op.inv \in Invitations /\ rows[op.inv].state # "none")
      BY DEF EnrollmentInv, Awaiting, RowInProgress
    <2>2. op # Idle => claimed'[op.inv] = claimed[op.inv]
      BY <2>1 DEF EnrollmentInv, ClaimedFirst
    <2> QED BY <1>1, <2>2 DEF EnrollmentInv, Knowledge, Idle
  <1>7. QueueOnce'
    <2>1. running = ToSet(queue) \cup ({op.inv} \ {NoInvitation}) /\ op.inv \notin ToSet(queue)
          /\ \A m, n \in 1..Len(queue) : queue[m] = queue[n] => m = n
      BY DEF EnrollmentInv, QueueOnce
    <2>2. i \notin ToSet(queue) /\ i # op.inv /\ \A n \in 1..Len(queue) : queue[n] # i
      BY <1>2, <2>1, EnrollmentAssumption DEF ToSet
    <2>3. ASSUME NEW m \in 1..Len(queue'), NEW n \in 1..Len(queue'), queue'[m] = queue'[n]
          PROVE  m = n
      <3>1. m \in 1..Len(queue) \/ m = Len(queue) + 1
        BY <1>2
      <3>2. n \in 1..Len(queue) \/ n = Len(queue) + 1
        BY <1>2
      <3> QED BY <3>1, <3>2, <1>2, <2>1, <2>2, <2>3
    <2>4. running' = ToSet(queue') \cup ({op'.inv} \ {NoInvitation}) /\ op'.inv \notin ToSet(queue')
      BY <1>1, <1>2, <2>1, <2>2
    <2> QED BY <2>3, <2>4 DEF QueueOnce
  <1> QED BY <1>3, <1>4, <1>5, <1>6, <1>7 DEF EnrollmentInv

LEMMA ClaimInv ==
    ASSUME EnrollmentInv, NEW i \in Invitations, NEW w \in Wallets, ClaimInvitation(i, w)
    PROVE  EnrollmentInv'
  <1>1. i \notin running
    BY DEF ClaimInvitation, EnrollmentInv, ClaimedFirst
  <1>2. /\ claimed' \in [Invitations -> Wallets \cup {NoWallet}] /\ claimed'[i] # NoWallet
        /\ \A j \in Invitations : claimed[j] = NoWallet \/ claimed'[j] = claimed[j]
    BY EnrollmentAssumption DEF ClaimInvitation, EnrollmentInv, TypeOK
  <1>3. Enqueue(i) /\ UNCHANGED <<now, faults, rows, op, pool, registry>>
    BY DEF ClaimInvitation
  <1> QED BY <1>1, <1>2, <1>3, EnqueueInv

LEMMA ProcessInv ==
    ASSUME EnrollmentInv, NEW i \in Invitations, Process(i) PROVE EnrollmentInv'
  <1>1. i \notin running /\ claimed' = claimed /\ claimed[i] # NoWallet
        /\ claimed \in [Invitations -> Wallets \cup {NoWallet}]
    BY DEF Process, NotRunning, EnrollmentInv, TypeOK
  <1>2. Enqueue(i) /\ UNCHANGED <<now, faults, rows, op, pool, registry>>
    BY DEF Process
  <1> QED BY <1>1, <1>2, EnqueueInv

LEMMA SendInv == EnrollmentInv /\ (SendApproval \/ SendFunding) => EnrollmentInv'
  <1> SUFFICES ASSUME EnrollmentInv,
                      NEW pc, NEW kind, NEW next, Send(pc, kind, next),
                      \/ pc = "approve" /\ kind = "approve" /\ next = "approval"
                      \/ pc = "fund" /\ kind = "fund" /\ next = "funding"
               PROVE  EnrollmentInv'
    BY DEF SendApproval, SendFunding
  <1> DEFINE tx == [kind |-> kind, inv |-> op.inv]
  <1>1. /\ op # Idle /\ op.pc = pc /\ pool' = Append(pool, tx)
        /\ op' = [op EXCEPT !.pc = next, !.outcome = "pending"]
        /\ now' = now /\ faults' = faults /\ claimed' = claimed /\ rows' = rows
        /\ running' = running /\ queue' = queue /\ chain' = chain /\ idByWallet' = idByWallet
    BY DEF Send, registry, Idle
  <1>2. op.inv \in Invitations /\ tx \in Transaction /\ pool \in Seq(Transaction)
    BY <1>1, RowFacts DEF Transaction, EnrollmentInv, TypeOK
  <1>3. pool' \in Seq(Transaction) /\ pool' # <<>> /\ Last(pool') = tx
    BY <1>1, <1>2, AppendFacts
  <1>4. op' = [pc |-> next, inv |-> op.inv, outcome |-> "pending"]
    BY <1>1 DEF EnrollmentInv, TypeOK
  <1>5. TypeOK'
    <2>1. op' \in [pc : {"idle"} \cup Phases, inv : Invitations \cup {NoInvitation}, outcome : Outcomes]
      BY <1>2, <1>4 DEF Phases, Outcomes
    <2>2. Last(pool').inv = op'.inv
      BY <1>2, <1>3, <1>4
    <2>3. TypeOK
      BY DEF EnrollmentInv
    <2> HIDE DEF tx
    <2> QED BY <1>1, <1>3, <2>1, <2>2, <2>3 DEF TypeOK, Transaction, Phases, Outcomes
  <1>6. Awaiting'
    BY <1>2, <1>3, <1>4 DEF Awaiting, Phases
  <1>7. ClaimedFirst' /\ RegistryTrue' /\ RowsFollowTheChain' /\ OneParticipantPerWallet'
    BY <1>1 DEF EnrollmentInv, ClaimedFirst, RegistryTrue, RowsFollowTheChain,
                OneParticipantPerWallet
  <1>8. Knowledge'
    BY <1>1, <1>4 DEF EnrollmentInv, Knowledge
  <1>9. RowInProgress'
    BY <1>1, <1>4 DEF EnrollmentInv, RowInProgress
  <1>10. QueueOnce'
    BY <1>1, <1>4 DEF EnrollmentInv, QueueOnce
  <1> QED BY <1>5, <1>6, <1>7, <1>8, <1>9, <1>10 DEF EnrollmentInv

(* A restart loses the queue and may leave a row one update behind: it never *)
(* leaves a row that says more than the registry.                            *)
LEMMA RestartInv == EnrollmentInv /\ Restart => EnrollmentInv'
  <1> SUFFICES ASSUME EnrollmentInv, Restart PROVE EnrollmentInv'
    OBVIOUS
  <1>1. /\ op' = Idle /\ running' = {} /\ queue' = <<>> /\ faults' \in 0..MaxFaults
        /\ now' = now /\ claimed' = claimed /\ pool' = pool
        /\ chain' = chain /\ idByWallet' = idByWallet
    BY EnrollmentAssumption DEF Restart, Fault, registry, EnrollmentInv, TypeOK
  <1>2. /\ rows' \in [Invitations -> Row]
        /\ \A i \in Invitations :
               \/ rows'[i] = rows[i]
               \/ /\ rows[i].state # "none" /\ rows'[i].state # "none"
                  /\ rows'[i].state \in FundingStates \cup {"FUNDED"} => rows[i].state \in FundingStates
                  /\ rows'[i].state # "FUNDED"
    <2>1. rows \in [Invitations -> Row]
      BY DEF EnrollmentInv, TypeOK, Row
    <2>2. CASE UNCHANGED rows
      BY <2>1, <2>2
    <2>3. ASSUME NEW st \in {"APPROVAL_SUBMITTED", "FUNDING_SUBMITTED"}, op # Idle,
                 SetRow([rows[op.inv] EXCEPT !.state = st]),
                 st = "FUNDING_SUBMITTED" => rows[op.inv].state \in FundingStates
          PROVE  <1>2
      <3>1. op.inv \in Invitations /\ rows[op.inv].state # "none"
        BY <2>3, RowFacts
      <3>2. PICK r \in Row : r = [rows[op.inv] EXCEPT !.state = st] /\ r.state = st
        BY <2>3, RowFacts DEF RowStates, FundingStates
      <3>3. rows' = [rows EXCEPT ![op.inv] = r]
        BY <2>3, <3>2 DEF SetRow
      <3> QED BY <2>1, <2>3, <3>1, <3>2, <3>3 DEF FundingStates
    <2>4. CASE op.pc = "approval" /\ SetRow([rows[op.inv] EXCEPT !.state = "APPROVAL_SUBMITTED"])
      BY <2>3, <2>4 DEF Idle
    <2>5. CASE /\ op.pc = "balance" /\ SetRow([rows[op.inv] EXCEPT !.state = "FUNDING_SUBMITTED"])
               /\ rows[op.inv].state \in {"APPROVED", "FUNDING_FAILED"}
      BY <2>3, <2>5 DEF Idle, FundingStates
    <2> QED BY <2>2, <2>4, <2>5 DEF Restart
  <1>3. TypeOK'
    BY <1>1, <1>2 DEF EnrollmentInv, TypeOK, Row, Idle
  <1>4. Awaiting' /\ Knowledge'
    BY <1>1 DEF Awaiting, Knowledge, Idle
  <1>5. ClaimedFirst' /\ RegistryTrue' /\ OneParticipantPerWallet'
    BY <1>1, <1>2 DEF EnrollmentInv, ClaimedFirst, RegistryTrue, OneParticipantPerWallet
  <1>6. RowInProgress'
    BY <1>1, <1>2, EnrollmentAssumption DEF EnrollmentInv, RowInProgress, Idle
  <1>7. RowsFollowTheChain'
    BY <1>1, <1>2 DEF EnrollmentInv, RowsFollowTheChain
  <1>8. QueueOnce'
    <2>1. ToSet(queue') = {} /\ Len(queue') = 0 /\ op'.inv = NoInvitation
      BY <1>1 DEF ToSet, Idle
    <2> QED BY <1>1, <2>1 DEF QueueOnce
  <1> QED BY <1>3, <1>4, <1>5, <1>6, <1>7, <1>8 DEF EnrollmentInv

-----------------------------------------------------------------------------
(* The registry changes one participant at a time, and what the operator may *)
(* have learnt of it stays true.                                             *)
RegistryMoves ==
    \E i \in Invitations, p \in Participant :
        /\ chain' = [chain EXCEPT ![i] = p]
        /\ chain[i].wallet # NoWallet /\ chain[i].funded => p.funded
        /\ \/ p.wallet = chain[i].wallet /\ idByWallet' = idByWallet
           \/ /\ chain[i].wallet = NoWallet /\ claimed[i] \in Wallets /\ p.wallet = claimed[i]
              /\ idByWallet[claimed[i]] = NoInvitation
              /\ idByWallet' = [idByWallet EXCEPT ![claimed[i]] = i]

RegistryKept ==
    /\ chain' \in [Invitations -> Participant] /\ idByWallet' \in [Wallets -> Invitations \cup {NoInvitation}]
    /\ \A j \in Invitations :
        /\ chain'[j].wallet \in {NoWallet, claimed[j]}
        /\ chain'[j].wallet # NoWallet => claimed[j] # NoWallet
        /\ chain[j].wallet # NoWallet =>
               chain'[j].wallet = chain[j].wallet /\ (chain[j].funded => chain'[j].funded)
    /\ \A j \in Invitations : \A w \in Wallets : chain'[j].wallet = w <=> idByWallet'[w] = j

LEMMA MovesKeep == EnrollmentInv /\ (RegistryMoves \/ UNCHANGED registry) => RegistryKept
  <1> SUFFICES ASSUME EnrollmentInv, RegistryMoves \/ UNCHANGED registry PROVE RegistryKept
    OBVIOUS
  <1>1. /\ chain \in [Invitations -> Participant]
        /\ idByWallet \in [Wallets -> Invitations \cup {NoInvitation}]
        /\ \A j \in Invitations : chain[j].wallet \in {NoWallet, claimed[j]}
        /\ \A j \in Invitations : chain[j].wallet # NoWallet => claimed[j] # NoWallet
        /\ \A j \in Invitations : \A w \in Wallets : chain[j].wallet = w <=> idByWallet[w] = j
    BY DEF EnrollmentInv, TypeOK, Participant, RegistryTrue, ClaimedFirst, OneParticipantPerWallet
  <1>2. CASE UNCHANGED registry
    BY <1>1, <1>2 DEF registry, RegistryKept
  <1>3. CASE RegistryMoves
    <2>1. PICK i \in Invitations, p \in Participant :
            /\ chain' = [chain EXCEPT ![i] = p]
            /\ chain[i].wallet # NoWallet /\ chain[i].funded => p.funded
            /\ \/ p.wallet = chain[i].wallet /\ idByWallet' = idByWallet
               \/ /\ chain[i].wallet = NoWallet /\ claimed[i] \in Wallets /\ p.wallet = claimed[i]
                  /\ idByWallet[claimed[i]] = NoInvitation
                  /\ idByWallet' = [idByWallet EXCEPT ![claimed[i]] = i]
      BY <1>3 DEF RegistryMoves
    <2>2. /\ chain' \in [Invitations -> Participant] /\ chain'[i] = p
          /\ \A j \in Invitations \ {i} : chain'[j] = chain[j]
      BY <1>1, <2>1
    <2>3. CASE p.wallet = chain[i].wallet /\ idByWallet' = idByWallet
      BY <1>1, <2>1, <2>2, <2>3 DEF RegistryKept
    <2>4. CASE /\ chain[i].wallet = NoWallet /\ claimed[i] \in Wallets /\ p.wallet = claimed[i]
               /\ idByWallet[claimed[i]] = NoInvitation
               /\ idByWallet' = [idByWallet EXCEPT ![claimed[i]] = i]
      <3>1. idByWallet' \in [Wallets -> Invitations \cup {NoInvitation}]
        BY <1>1, <2>4
      <3>2. \A w \in Wallets : idByWallet'[w] = IF w = claimed[i] THEN i ELSE idByWallet[w]
        BY <1>1, <2>4
      <3>3. \A j \in Invitations : \A w \in Wallets : chain'[j].wallet = w <=> idByWallet'[w] = j
        BY <1>1, <2>2, <2>4, <3>2, EnrollmentAssumption
      <3> QED BY <1>1, <2>1, <2>2, <2>4, <3>1, <3>3, EnrollmentAssumption DEF RegistryKept
    <2> QED BY <2>1, <2>3, <2>4
  <1> QED BY <1>2, <1>3

(* Moves of the registry and of the pool, and the receipt they may give. *)
Receives ==
    \/ op' = op /\ (op.outcome = "pending" => pool' # <<>> /\ Last(pool') = Last(pool))
    \/ \E outcome \in {"success", "reverted", "dropped"} :
         /\ op.outcome = "pending" /\ op' = [op EXCEPT !.outcome = outcome]
         /\ outcome = "success" =>
                IF Last(pool).kind = "approve" THEN chain'[op.inv].wallet = claimed[op.inv]
                                               ELSE chain'[op.inv].funded

LEMMA ChainInv ==
    ASSUME EnrollmentInv, RegistryKept, Receives, pool' \in Seq(Transaction),
           UNCHANGED <<now, claimed, rows, running, queue>>, faults' \in 0..MaxFaults
    PROVE  EnrollmentInv'
  <1>1. /\ now' = now /\ claimed' = claimed /\ rows' = rows /\ running' = running /\ queue' = queue
    OBVIOUS
  <1>2. \/ op' = op /\ (op.outcome = "pending" => pool' # <<>> /\ Last(pool') = Last(pool))
        \/ \E outcome \in {"success", "reverted", "dropped"} :
             /\ op.outcome = "pending" /\ op' = [pc |-> op.pc, inv |-> op.inv, outcome |-> outcome]
             /\ outcome = "success" =>
                    IF Last(pool).kind = "approve" THEN chain'[op.inv].wallet = claimed[op.inv]
                                                   ELSE chain'[op.inv].funded
    BY DEF Receives, EnrollmentInv, TypeOK
  <1>3. op'.pc = op.pc /\ op'.inv = op.inv
    BY <1>2
  <1>4. TypeOK'
    <2>1. op' \in [pc : {"idle"} \cup Phases, inv : Invitations \cup {NoInvitation}, outcome : Outcomes]
      BY <1>2 DEF EnrollmentInv, TypeOK, Phases, Outcomes
    <2>2. op'.outcome = "pending" => pool' # <<>> /\ Last(pool').inv = op'.inv
      BY <1>2 DEF EnrollmentInv, TypeOK
    <2>3. chain' \in [Invitations -> Participant] /\ idByWallet' \in [Wallets -> Invitations \cup {NoInvitation}]
      BY DEF RegistryKept
    <2> QED
      BY <1>1, <2>1, <2>2, <2>3
      DEF EnrollmentInv, TypeOK, Transaction, Participant, Phases, Outcomes
  <1>5. Awaiting'
    <2>1. op' = Idle \/ (op'.inv \in Invitations /\ op'.pc \in Phases)
      <3>1. op = Idle => op' = op
        BY <1>2 DEF Idle
      <3> QED BY <1>3, <3>1 DEF EnrollmentInv, Awaiting
    <2>2. op'.outcome # "none" => op'.pc \in {"approval", "funding"}
      BY <1>2, <1>3 DEF EnrollmentInv, Awaiting
    <2>3. op'.outcome = "pending" =>
              Last(pool').kind = (IF op'.pc = "approval" THEN "approve" ELSE "fund")
      BY <1>2, <1>3 DEF EnrollmentInv, Awaiting
    <2> QED BY <2>1, <2>2, <2>3 DEF Awaiting
  <1>6. ClaimedFirst' /\ RegistryTrue' /\ OneParticipantPerWallet'
    BY <1>1 DEF EnrollmentInv, RegistryKept, ClaimedFirst, RegistryTrue, OneParticipantPerWallet
  <1>7. RowInProgress' /\ QueueOnce'
    BY <1>1, <1>3 DEF EnrollmentInv, RowInProgress, QueueOnce
  <1>8. RowsFollowTheChain'
    <2>1. \A i \in Invitations : rows[i].state # "none" => claimed[i] # NoWallet
      BY DEF EnrollmentInv, ClaimedFirst
    <2> QED BY <1>1, <2>1 DEF EnrollmentInv, RowsFollowTheChain, RegistryKept, FundingStates
  <1>9. Knowledge'
    <2>1. op.pc \in Phases => op.inv \in Invitations /\ claimed[op.inv] # NoWallet
      BY DEF EnrollmentInv, Awaiting, Idle, Phases, RowInProgress, ClaimedFirst
    <2>2. /\ op.pc \in {"recheck", "fund", "funding", "balance"}
                 \/ (op.pc = "approval" /\ op.outcome = "success")
             => chain'[op.inv].wallet = claimed[op.inv]
          /\ op.pc = "balance" \/ (op.pc = "funding" /\ op.outcome = "success")
             => chain'[op.inv].funded
      BY <2>1 DEF EnrollmentInv, Knowledge, RegistryKept, Phases
    <2>3. CASE op' = op
      BY <1>1, <2>2, <2>3 DEF Knowledge
    <2>4. CASE op.outcome = "pending"
      <3>1. Last(pool).kind = (IF op.pc = "approval" THEN "approve" ELSE "fund")
            /\ op.pc \in {"approval", "funding"}
        BY <2>4 DEF EnrollmentInv, Awaiting
      <3> QED BY <1>1, <1>2, <1>3, <2>2, <2>4, <3>1 DEF Knowledge
    <2> QED BY <1>2, <2>3, <2>4
  <1> QED BY <1>4, <1>5, <1>6, <1>7, <1>8, <1>9 DEF EnrollmentInv

(* approveClaimedInvitation registers the wallet that claimed. *)
LEMMA ApproveMoves ==
    ASSUME EnrollmentInv, NEW i \in Invitations, ApproveClaimedInvitation(i)
    PROVE  RegistryMoves /\ chain'[i].wallet = claimed[i]
  <1> DEFINE p == [NotApproved EXCEPT !.wallet = claimed[i], !.expiresAt = rows[i].expiresAt,
                                      !.active = TRUE]
  <1>1. rows[i] \in Row /\ now \in 1..MaxTime /\ claimed[i] \in Wallets \cup {NoWallet}
        /\ chain \in [Invitations -> Participant]
    BY DEF EnrollmentInv, TypeOK, Row, Participant
  <1>2. rows[i].state # "none"
    BY <1>1 DEF ApproveClaimedInvitation, Approvable, EnrollmentInv, RowInProgress, NoRow
  <1>3. claimed[i] \in Wallets
    BY <1>1, <1>2 DEF EnrollmentInv, ClaimedFirst
  <1>4. p \in Participant /\ p.wallet = claimed[i]
    BY <1>1, <1>3 DEF NotApproved, Participant, Row
  <1>5. chain' = [chain EXCEPT ![i] = p] /\ chain[i].wallet = NoWallet
        /\ idByWallet[claimed[i]] = NoInvitation /\ idByWallet' = [idByWallet EXCEPT ![claimed[i]] = i]
    BY DEF ApproveClaimedInvitation, Approvable
  <1> HIDE DEF p
  <1> QED BY <1>1, <1>3, <1>4, <1>5 DEF RegistryMoves

(* The other calls change a participant's flags; none takes back a transfer. *)
LEMMA FlagMoves ==
    ASSUME EnrollmentInv, NEW i \in Invitations, NEW flag \in BOOLEAN, chain[i].wallet # NoWallet,
           \/ chain' = [chain EXCEPT ![i].active = flag]
           \/ chain' = [chain EXCEPT ![i].registered = flag]
           \/ chain' = [chain EXCEPT ![i].funded = flag] /\ flag,
           UNCHANGED idByWallet
    PROVE  RegistryMoves /\ (chain' = [chain EXCEPT ![i].funded = flag] => chain'[i].funded = flag)
  <1>1. PICK p \in Participant : p = chain[i]
    BY DEF EnrollmentInv, TypeOK, Participant
  <1>2. /\ [p EXCEPT !.active = flag] \in Participant /\ [p EXCEPT !.active = flag].wallet = p.wallet
        /\ [p EXCEPT !.active = flag].funded = p.funded
        /\ [p EXCEPT !.registered = flag] \in Participant /\ [p EXCEPT !.registered = flag].wallet = p.wallet
        /\ [p EXCEPT !.registered = flag].funded = p.funded
        /\ [p EXCEPT !.funded = flag] \in Participant /\ [p EXCEPT !.funded = flag].wallet = p.wallet
        /\ [p EXCEPT !.funded = flag].funded = flag
    BY DEF Participant
  <1>3. chain \in [Invitations -> Participant]
    BY DEF EnrollmentInv, TypeOK, Participant
  <1>4. PICK q \in Participant :
            /\ chain' = [chain EXCEPT ![i] = q] /\ q.wallet = p.wallet
            /\ q.funded = p.funded \/ q.funded
    BY <1>1, <1>2
  <1>5. RegistryMoves
    BY <1>1, <1>4 DEF RegistryMoves
  <1>6. chain' = [chain EXCEPT ![i].funded = flag] => chain'[i].funded = flag
    BY <1>1, <1>2, <1>3
  <1> QED BY <1>5, <1>6

LEMMA MineInv == EnrollmentInv /\ (Mine \/ MineReverted) => EnrollmentInv'
  <1> SUFFICES ASSUME EnrollmentInv, Mine \/ MineReverted PROVE EnrollmentInv'
    OBVIOUS
  <1> DEFINE tx == Head(pool)
  <1>1. /\ pool # <<>> /\ pool' = Tail(pool)
        /\ UNCHANGED <<now, claimed, rows, running, queue>> /\ faults' \in 0..MaxFaults
    <2>1. faults \in 0..MaxFaults /\ MaxFaults \in Nat
      BY EnrollmentAssumption DEF EnrollmentInv, TypeOK
    <2>2. faults' \in 0..MaxFaults
      BY <2>1 DEF Mine, MineReverted, Fault
    <2> QED BY <2>2 DEF Mine, MineReverted
  <1>2. /\ tx \in Transaction /\ tx.inv \in Invitations /\ pool' \in Seq(Transaction)
        /\ Len(pool) \in Nat \ {0} /\ tx = pool[1] /\ tx.kind \in {"approve", "fund"}
        /\ Len(pool) # 1 => pool' # <<>> /\ Last(pool') = Last(pool)
        /\ Len(pool) = 1 => Last(pool) = tx
    <2>1. pool \in Seq(Transaction)
      BY DEF EnrollmentInv, TypeOK, Transaction
    <2>2. /\ tx \in Transaction /\ pool' \in Seq(Transaction)
          /\ Len(pool) \in Nat \ {0} /\ tx = pool[1]
          /\ Len(pool) # 1 => pool' # <<>> /\ Last(pool') = Last(pool)
      BY <1>1, <2>1, TailFacts
    <2>3. tx.inv \in Invitations /\ tx.kind \in {"approve", "fund"}
      BY <2>2 DEF Transaction
    <2> QED BY <2>2, <2>3 DEF Last
  <1>3. ASSUME Call(tx), Receipt("success") PROVE EnrollmentInv'
    <2>1. RegistryMoves /\ (IF tx.kind = "approve" THEN chain'[tx.inv].wallet = claimed[tx.inv]
                                                   ELSE chain'[tx.inv].funded)
      <3>1. CASE tx.kind = "approve"
        BY <1>2, <1>3, <3>1, ApproveMoves DEF Call
      <3>2. CASE tx.kind # "approve"
        <4>1. FundInitial(tx.inv)
          BY <1>3, <3>2 DEF Call
        <4> QED BY <1>2, <3>2, <4>1, FlagMoves DEF FundInitial, ActiveApproval
      <3> QED BY <3>1, <3>2
    <2>2. RegistryKept
      BY <2>1, MovesKeep
    <2>3. op.outcome = "pending" /\ Len(pool) = 1 => tx.inv = op.inv
      BY <1>1, <1>2 DEF EnrollmentInv, TypeOK
    <2>4. Receives
      BY <1>2, <1>3, <2>1, <2>3 DEF Receipt, Receives
    <2> QED BY <1>1, <1>2, <2>2, <2>4, ChainInv
  <1>4. ASSUME UNCHANGED registry, Receipt("reverted") PROVE EnrollmentInv'
    <2>1. RegistryKept
      BY <1>4, MovesKeep
    <2>2. Receives
      BY <1>2, <1>4 DEF Receipt, Receives
    <2> QED BY <1>1, <1>2, <2>1, <2>2, ChainInv
  <1> QED BY <1>3, <1>4 DEF Mine, MineReverted

LEMMA DropInv == EnrollmentInv /\ Drop => EnrollmentInv'
  <1> SUFFICES ASSUME EnrollmentInv, Drop PROVE EnrollmentInv'
    OBVIOUS
  <1>1. /\ pool' \in Seq(Transaction) /\ UNCHANGED <<now, claimed, rows, running, queue>>
        /\ faults' \in 0..MaxFaults
    <2>1. pool \in Seq(Transaction)
      BY DEF EnrollmentInv, TypeOK, Transaction
    <2> QED BY <2>1, FrontFacts, EnrollmentAssumption DEF Drop, Fault, EnrollmentInv, TypeOK
  <1>2. RegistryKept
    BY MovesKeep DEF Drop
  <1>3. Receives
    BY DEF Drop, Receives
  <1> QED BY <1>1, <1>2, <1>3, ChainInv

LEMMA AdministratorInv ==
    ASSUME EnrollmentInv, NEW i \in Invitations,
           RegisterSelf(i) \/ \E active \in BOOLEAN : SetParticipantActive(i, active)
    PROVE  EnrollmentInv'
  <1>1. RegistryMoves
    <2>1. CASE RegisterSelf(i)
      BY <2>1, FlagMoves DEF RegisterSelf, ActiveApproval
    <2>2. ASSUME NEW active \in BOOLEAN, SetParticipantActive(i, active) PROVE RegistryMoves
      BY <2>2, FlagMoves DEF SetParticipantActive
    <2> QED BY <2>1, <2>2
  <1>2. /\ UNCHANGED <<now, claimed, rows, running, queue>> /\ op' = op /\ pool' = pool
        /\ faults' \in 0..MaxFaults
    BY EnrollmentAssumption
    DEF RegisterSelf, SetParticipantActive, operator, Fault, EnrollmentInv, TypeOK
  <1>3. pool' \in Seq(Transaction) /\ Receives
    BY <1>2 DEF Receives, EnrollmentInv, TypeOK, Transaction
  <1> QED BY <1>1, <1>2, <1>3, MovesKeep, ChainInv

LEMMA TickInv == EnrollmentInv /\ (Tick \/ UNCHANGED vars) => EnrollmentInv'
  <1> SUFFICES ASSUME EnrollmentInv, Tick \/ UNCHANGED vars PROVE EnrollmentInv'
    OBVIOUS
  <1>1. /\ now' \in 1..MaxTime /\ faults' = faults /\ claimed' = claimed /\ rows' = rows
        /\ running' = running /\ queue' = queue /\ op' = op /\ pool' = pool
        /\ chain' = chain /\ idByWallet' = idByWallet
    BY EnrollmentAssumption DEF Tick, vars, operator, registry, EnrollmentInv, TypeOK
  <1>2. TypeOK'
    BY <1>1 DEF EnrollmentInv, TypeOK
  <1> QED
    BY <1>1, <1>2
    DEF EnrollmentInv, Awaiting, ClaimedFirst, RegistryTrue, Knowledge, RowInProgress, QueueOnce,
        RowsFollowTheChain, OneParticipantPerWallet

-----------------------------------------------------------------------------
LEMMA StepInv == EnrollmentInv /\ [Next]_vars => EnrollmentInv'
  <1> SUFFICES ASSUME EnrollmentInv, [Next]_vars PROVE EnrollmentInv'
    OBVIOUS
  <1>1. CASE Tick \/ UNCHANGED vars
    BY <1>1, TickInv
  <1>2. CASE Operate
    <2>1. CASE Begin
      BY <2>1, BeginInv
    <2>2. CASE StatusAnswered \/ ApprovalConfirmed \/ StatusRechecked \/ FundingConfirmed
               \/ BalanceAnswered \/ ReceiptMissing
      BY <2>2, StatusAnsweredHandled, ConfirmedHandled, FailedHandled, HandledInv
    <2>3. CASE SendApproval \/ SendFunding
      BY <2>3, SendInv
    <2> QED BY <1>2, <2>1, <2>2, <2>3 DEF Operate
  <1>3. CASE CallFails
    BY <1>3, FailedHandled, HandledInv
  <1>4. CASE Restart
    BY <1>4, RestartInv
  <1>5. CASE Mine \/ MineReverted \/ Drop
    BY <1>5, MineInv, DropInv
  <1>6. ASSUME NEW i \in Invitations,
               \/ Process(i) \/ RegisterSelf(i)
               \/ \E w \in Wallets : ClaimInvitation(i, w)
               \/ \E active \in BOOLEAN : SetParticipantActive(i, active)
        PROVE  EnrollmentInv'
    BY <1>6, ProcessInv, ClaimInv, AdministratorInv
  <1> QED BY <1>1, <1>2, <1>3, <1>4, <1>5, <1>6 DEF Next

THEOREM Enrolled == Spec => []EnrollmentInv
  <1> QED BY InitInv, StepInv, PTL DEF Spec

(* Every reachable state of the operator, its rows and the registry is well  *)
(* typed, and a transaction that is awaited is the last one sent.            *)
THEOREM TypeCorrect == Spec => []TypeOK
  <1>1. EnrollmentInv => TypeOK
    BY DEF EnrollmentInv
  <1> QED BY <1>1, Enrolled, PTL

(* The running map and the promise chain of process agree: an invitation is  *)
(* queued or in progress at most once, after any claims, timers, restarts.   *)
THEOREM RunsOnce == Spec => []EachRunsOnce
  <1>1. EnrollmentInv => EachRunsOnce
    <2> SUFFICES ASSUME EnrollmentInv PROVE EachRunsOnce
      OBVIOUS
    <2>1. queue \in Seq(Invitations) /\ QueueOnce
      BY DEF EnrollmentInv, TypeOK
    <2>2. Len(queue) = Cardinality(ToSet(queue))
      BY <2>1, CountOnce DEF QueueOnce
    <2>3. running \ {op.inv} = ToSet(queue)
      BY <2>1 DEF QueueOnce
    <2> QED BY <2>1, <2>2, <2>3 DEF EachRunsOnce, QueueOnce
  <1> QED BY <1>1, Enrolled, PTL

(* participant_enrollments never says more than the registry: what the       *)
(* operator writes after an await is still backed by the chain.              *)
THEOREM RowsBacked == Spec => []RowsFollowTheChain
  <1>1. EnrollmentInv => RowsFollowTheChain
    BY DEF EnrollmentInv
  <1> QED BY <1>1, Enrolled, PTL

(* approveClaimedInvitation keeps participantIdByWallet the inverse of the   *)
(* participants' wallets, whatever approvals are in flight together.         *)
THEOREM WalletsAreUnique == Spec => []OneParticipantPerWallet
  <1>1. EnrollmentInv => OneParticipantPerWallet
    BY DEF EnrollmentInv
  <1> QED BY <1>1, Enrolled, PTL

(* A row that is FUNDED is not written again: #process returns before its    *)
(* first write, and no later await resumes for it.                           *)
THEOREM FundedStays == Spec => FundedIsFinal
  <1> DEFINE Kept == \A i \in Invitations : rows[i].state = "FUNDED" => rows'[i] = rows[i]
  <1>1. EnrollmentInv /\ [Next]_vars => [Kept]_vars
    <2> SUFFICES ASSUME EnrollmentInv, Next, NEW i \in Invitations, rows[i].state = "FUNDED"
                 PROVE  rows'[i] = rows[i]
      OBVIOUS
    <2>1. CASE Begin
      <3>1. rows' = rows \/ rows[Head(queue)] = NoRow
        BY <2>1 DEF Begin
      <3>2. rows[Head(queue)] = NoRow => Head(queue) # i
        BY DEF NoRow
      <3> QED BY <2>1, <3>1, <3>2 DEF Begin, EnrollmentInv, TypeOK
    <2>2. CASE StatusAnswered \/ ApprovalConfirmed \/ StatusRechecked \/ FundingConfirmed
               \/ BalanceAnswered \/ ReceiptMissing \/ CallFails
      BY <2>2, StatusAnsweredHandled, ConfirmedHandled, FailedHandled, HandledFinal
    <2>3. CASE Restart
      <3>1. op.inv = i => rows' = rows
        BY <2>3 DEF Restart, EnrollmentInv, RowInProgress
      <3>2. op.inv # i => rows'[i] = rows[i]
        BY <2>3 DEF Restart, SetRow, EnrollmentInv, TypeOK
      <3> QED BY <3>1, <3>2
    <2>4. CASE rows' = rows
      BY <2>4
    <2> QED
      BY <2>1, <2>2, <2>3, <2>4
      DEF Next, Operate, Tick, SendApproval, SendFunding, Send, Mine, MineReverted, Drop, Process,
          RegisterSelf, ClaimInvitation, SetParticipantActive, operator
  <1> QED BY <1>1, Enrolled, PTL DEF Spec, FundedIsFinal

-----------------------------------------------------------------------------
(* The listener's page and the subscription contract.                        *)

(* A price is read together with its version, from the plan or from what the *)
(* page shows: as long as the version is the plan's, the price is.           *)
KnownOf(x, p) ==
    /\ x.price \in Nat /\ x.version \in Nat /\ x.version <= p.version
    /\ x.version = p.version => x.price = p.price
Known(x) == KnownOf(x, plan)

(* What a confirmed transaction asked for is done.                           *)
Accomplished(t) ==
    /\ t.action = "register" => participant[t.sender] = "registered"
    /\ t.action = "claim" => t.sender \in hasClaimed
    /\ t.action = "subscribe" =>
        \E p \in payments : /\ p.reference = t.reference /\ p.amount = t.price
                            /\ p.subscriber = t.sender

PlanFits ==
    /\ plan.price \in Nat /\ plan.duration \in Nat /\ plan.version \in Nat \ {0}
    /\ blockTime \in Nat

PaymentsFit ==
    /\ activeUntil \in [Accounts -> Nat]
    /\ \A p \in payments : p.subscriber \in Accounts /\ p.until \in Nat

ShownIsKnown ==
    /\ account \in Accounts \cup {NoAccount}
    /\ participant = [a \in Accounts |-> participant[a]]
    /\ Known(shown)

ReadsAreKnown ==
    /\ reads = [f \in Reads |-> reads[f]]
    /\ \A f \in Reads : reads[f] # NoTask /\ reads[f].pc = "answered" => Known(reads[f].is)

(* The refresh that ends a transaction is the only one that does, and the    *)
(* transaction waits for it.                                                 *)
RefreshesEnd ==
    \A f \in Reads : reads[f] # NoTask => \A s \in Sends : reads[f].done = s =>
        /\ SendIs(s, "refreshing")
        /\ \A g \in Reads : reads[g] # NoTask /\ reads[g].done = s => g = f

SendsAreKnown ==
    /\ sends = [s \in Sends |-> sends[s]]
    /\ \A s \in Sends : Sending(s) =>
        /\ sends[s] \in PageTransaction
        /\ Known(sends[s])
        /\ sends[s].pc \in {"mined", "refreshing"} => Accomplished(sends[s])

(* No two transactions under way share a reference, and one that may still   *)
(* be mined has a reference nobody paid with.                                *)
ReferencesApart ==
    \A s \in Sends : Sending(s) =>
        /\ \A t \in Sends : Sending(t) /\ sends[t].reference = sends[s].reference => t = s
        /\ sends[s].pc \in MayBeMined => sends[s].reference \notin UsedReferences

CompletedIsDone == completed.sender \in Accounts /\ Accomplished(completed)

ListenerInv ==
    /\ PlanFits /\ PaymentsFit /\ ShownIsKnown /\ ReadsAreKnown /\ RefreshesEnd
    /\ SendsAreKnown /\ ReferencesApart
    /\ RunsAsPaid
    /\ completed # NoTask => CompletedIsDone

LEMMA PaidAsShown == ListenerInv => ListenerPaysWhatWasShown
<1> SUFFICES ASSUME ListenerInv, NEW s \in Sends, Sending(s), sends[s].action = "subscribe",
                    NEW p \in payments, p.reference = sends[s].reference
             PROVE  p.amount = sends[s].price
  BY DEF ListenerInv, ListenerPaysWhatWasShown, Accomplished, CompletedIsDone
<1>1. sends[s].pc \notin MayBeMined
  BY DEF ListenerInv, ReferencesApart, UsedReferences
<1>2. Accomplished(sends[s])
  BY <1>1 DEF ListenerInv, SendsAreKnown, SendPhases, PageTransaction
<1> QED BY <1>2 DEF Accomplished, ListenerInv, RunsAsPaid

LEMMA ListenerInitInv == SubscriptionInit /\ ListenerInit => ListenerInv
<1> SUFFICES ASSUME SubscriptionInit, ListenerInit PROVE ListenerInv
  OBVIOUS
<1>1. PlanFits
  BY SubscriptionAssumption DEF SubscriptionInit, PlanFits, PlanVersion
<1>2. PaymentsFit /\ RunsAsPaid
  BY DEF SubscriptionInit, PaymentsFit, RunsAsPaid
<1>3. ShownIsKnown
  BY <1>1 DEF ListenerInit, ShownIsKnown, Known, KnownOf, NothingShown, PlanFits
<1> QED
  BY <1>1, <1>2, <1>3
  DEF ListenerInit, ListenerInv, ReadsAreKnown, RefreshesEnd, SendsAreKnown, ReferencesApart, Sending

(* The registry, the asset and the payments only gain, and a plan that is    *)
(* another has a later version.                                              *)
ChainMoves ==
    /\ PlanFits' /\ PaymentsFit' /\ RunsAsPaid'
    /\ plan' = plan \/ plan'.version > plan.version
    /\ hasClaimed \subseteq hasClaimed' /\ payments \subseteq payments'
    /\ participant' = [a \in Accounts |-> participant'[a]]
    /\ \A a \in Accounts : participant[a] = "registered" => participant'[a] = "registered"

LEMMA KnownStays ==
    ASSUME NEW x, NEW p, NEW q, KnownOf(x, p), p.version \in Nat, q.version \in Nat,
           q = p \/ q.version > p.version
    PROVE  KnownOf(x, q)
BY DEF KnownOf

LEMMA ChainStill == ListenerInv /\ UNCHANGED <<chainVars, participant>> => ChainMoves
BY DEF ListenerInv, ChainMoves, PlanFits, PaymentsFit, ShownIsKnown, RunsAsPaid, chainVars, planVars, assetVars

LEMMA OperatorsMove == ListenerInv /\ Operators /\ UNCHANGED participant => ChainMoves
<1> SUFFICES ASSUME ListenerInv, Operators, UNCHANGED participant PROVE ChainMoves
  OBVIOUS
<1> USE DEF ListenerInv, PlanFits, PaymentsFit, ShownIsKnown, RunsAsPaid
<1>1. CASE NewBlock
  BY <1>1 DEF NewBlock, ChainMoves, planVars, assetVars
<1>2. ASSUME NEW p \in Plans, SetPlan(p) PROVE ChainMoves
  <2>1. p.price \in Nat /\ p.duration \in Nat
    BY SubscriptionAssumption
  <2> QED BY <1>2, <2>1 DEF SetPlan, PlanVersion, ChainMoves, assetVars
<1>3. ASSUME NEW p \in BOOLEAN, Pause(p) PROVE ChainMoves
  BY <1>3 DEF Pause, ChainMoves, assetVars
<1>4. ASSUME NEW r \in References, NEW a \in Accounts, Disburse(r, a, balanceOf[Treasury])
      PROVE  ChainMoves
  BY <1>4 DEF Disburse, ChainMoves, planVars
<1> QED BY <1>1, <1>2, <1>3, <1>4 DEF Operators

(* A payment ends where the running subscription is extended to.             *)
LEMMA SubscribeMoves ==
    ASSUME ListenerInv, NEW a \in Accounts, NEW r, NEW v, Subscribe(a, r, v), UNCHANGED participant
    PROVE  ChainMoves
<1> USE DEF ListenerInv, PlanFits, PaymentsFit, ShownIsKnown
<1>1. PICK paid : paid = [reference |-> r, subscriber |-> a, amount |-> plan.price,
                          version |-> v, until |-> Extended(a)]
  OBVIOUS
<1>2. /\ payments' = payments \cup {paid}
      /\ activeUntil' = [activeUntil EXCEPT ![a] = Extended(a)]
      /\ r \notin UsedReferences
      /\ UNCHANGED <<blockTime, planVars, hasClaimed>>
  BY <1>1 DEF Subscribe
<1>3. Extended(a) \in Nat /\ Extended(a) >= activeUntil[a]
  BY DEF Extended
<1>4. PaymentsFit'
  BY <1>1, <1>2, <1>3
<1>5. RunsAsPaid'
  <2>1. ASSUME NEW b \in Accounts, activeUntil'[b] # 0
        PROVE  \E p \in payments' : p.subscriber = b /\ p.until = activeUntil'[b]
    BY <1>1, <1>2, <1>3, <2>1 DEF RunsAsPaid
  <2>2. ASSUME NEW p \in payments', NEW q \in payments', p.reference = q.reference PROVE p = q
    BY <1>1, <1>2, <2>2 DEF RunsAsPaid, UsedReferences
  <2>3. ASSUME NEW p \in payments' PROVE p.until <= activeUntil'[p.subscriber]
    BY <1>1, <1>2, <1>3 DEF RunsAsPaid
  <2> QED BY <2>1, <2>2, <2>3 DEF RunsAsPaid
<1> QED BY <1>2, <1>4, <1>5 DEF ChainMoves, planVars

LEMMA ExecutedMoves ==
    ASSUME ListenerInv, NEW t, t.sender \in Accounts, Executed(t)
    PROVE  ChainMoves
<1> USE DEF ListenerInv, ShownIsKnown
<1>1. CASE t.action = "register" /\ participant' = [participant EXCEPT ![t.sender] = "registered"]
           /\ UNCHANGED chainVars
  BY <1>1 DEF ChainMoves, PlanFits, PaymentsFit, RunsAsPaid, chainVars, planVars, assetVars
<1>2. CASE Claim(t.sender) /\ UNCHANGED participant
  BY <1>2 DEF Claim, ChainMoves, PlanFits, PaymentsFit, RunsAsPaid, planVars
<1>3. CASE Approve(t.sender, t.price) /\ UNCHANGED participant
  BY <1>3 DEF Approve, ChainMoves, PlanFits, PaymentsFit, RunsAsPaid, planVars
<1>4. CASE Subscribe(t.sender, t.reference, t.version) /\ UNCHANGED participant
  BY <1>4, SubscribeMoves
<1> QED BY <1>1, <1>2, <1>3, <1>4 DEF Executed

LEMMA AccomplishedStays ==
    ASSUME ChainMoves, NEW t, t.sender \in Accounts, Accomplished(t)
    PROVE  Accomplished(t)'
BY DEF ChainMoves, Accomplished

LEMMA KnownKept == ASSUME ListenerInv, ChainMoves, NEW x, KnownOf(x, plan) PROVE KnownOf(x, plan')
<1>1. plan.version \in Nat /\ plan'.version \in Nat /\ (plan' = plan \/ plan'.version > plan.version)
  BY DEF ListenerInv, ChainMoves, PlanFits
<1> QED BY <1>1, KnownStays

LEMMA ShownKept ==
    ASSUME ListenerInv, ChainMoves, account' \in Accounts \cup {NoAccount},
           \/ shown' = shown \/ shown' = NothingShown
           \/ \E f \in Reads : reads[f] # NoTask /\ reads[f].pc = "answered" /\ shown' = reads[f].is
    PROVE  ShownIsKnown'
<1>1. participant' = [a \in Accounts |-> participant'[a]]
  BY DEF ChainMoves
<1>2. KnownOf(shown', plan)
  BY DEF ListenerInv, ShownIsKnown, ReadsAreKnown, Known, KnownOf, NothingShown, PlanFits
<1>3. KnownOf(shown', plan')
  BY <1>2, KnownKept
<1> QED BY <1>1, <1>3 DEF ShownIsKnown, Known

LEMMA ReadsKept == ListenerInv /\ ChainMoves /\ UNCHANGED reads => ReadsAreKnown'
<1> SUFFICES ASSUME ListenerInv, ChainMoves, UNCHANGED reads PROVE ReadsAreKnown'
  OBVIOUS
<1>1. ASSUME NEW f \in Reads, reads[f] # NoTask, reads[f].pc = "answered"
      PROVE  KnownOf(reads[f].is, plan')
  BY <1>1, KnownKept DEF ListenerInv, ReadsAreKnown, Known
<1> QED BY <1>1 DEF ListenerInv, ReadsAreKnown, Known

LEMMA EndsKept == ListenerInv /\ UNCHANGED <<reads, sends>> => RefreshesEnd'
BY DEF ListenerInv, RefreshesEnd, SendIs

LEMMA SendsKept == ListenerInv /\ ChainMoves /\ UNCHANGED sends => SendsAreKnown'
<1> SUFFICES ASSUME ListenerInv, ChainMoves, UNCHANGED sends PROVE SendsAreKnown'
  OBVIOUS
<1>1. ASSUME NEW s \in Sends, Sending(s)
      PROVE  /\ KnownOf(sends[s], plan')
             /\ sends[s].pc \in {"mined", "refreshing"} => Accomplished(sends[s])'
  <2>1. PICK t : t = sends[s]
    OBVIOUS
  <2>2. t.sender \in Accounts /\ KnownOf(t, plan) /\ (t.pc \in {"mined", "refreshing"} => Accomplished(t))
    BY <1>1, <2>1 DEF ListenerInv, SendsAreKnown, Known, PageTransaction
  <2>3. KnownOf(t, plan')
    BY <2>2, KnownKept
  <2>4. t.pc \in {"mined", "refreshing"} => Accomplished(t)'
    BY <2>2, AccomplishedStays
  <2> QED BY <2>1, <2>3, <2>4 DEF Accomplished
<1> QED BY <1>1 DEF ListenerInv, SendsAreKnown, Known, Sending

LEMMA ApartKept == ListenerInv /\ UNCHANGED <<sends, payments>> => ReferencesApart'
BY DEF ListenerInv, ReferencesApart, Sending, UsedReferences

LEMMA CompletedKept ==
    ListenerInv /\ ChainMoves /\ (completed' = completed \/ completed' = NoTask)
        => (completed # NoTask => CompletedIsDone)'
<1> SUFFICES ASSUME ListenerInv, ChainMoves, completed' = completed, completed # NoTask
             PROVE  CompletedIsDone'
  OBVIOUS
<1>1. PICK t : t = completed
  OBVIOUS
<1>2. t.sender \in Accounts /\ Accomplished(t)
  BY <1>1 DEF ListenerInv, CompletedIsDone, Accomplished
<1>3. Accomplished(t)'
  BY <1>2, AccomplishedStays
<1> QED BY <1>1, <1>2, <1>3 DEF CompletedIsDone, Accomplished

LEMMA ChainFits == ListenerInv /\ ChainMoves => (PlanFits /\ PaymentsFit /\ RunsAsPaid)'
BY DEF ChainMoves

(* One transaction moves on, or ends. *)
LEMMA OneTask ==
    ASSUME ListenerInv, NEW s \in Sends, NEW t, Task(s, t)
    PROVE  /\ sends' = [r \in Sends |-> sends'[r]] /\ sends'[s] = t
           /\ \A r \in Sends : r # s => sends'[r] = sends[r]
BY DEF ListenerInv, SendsAreKnown, Task

LEMMA TaskKnown ==
    ASSUME ListenerInv, ChainMoves, NEW s \in Sends, NEW t, Task(s, t),
           t # NoTask => /\ t \in PageTransaction /\ KnownOf(t, plan)
                         /\ t.pc \in {"mined", "refreshing"} => Accomplished(t)'
    PROVE  SendsAreKnown'
<1>1. ASSUME NEW r \in Sends, r # s, sends'[r] # NoTask
      PROVE  /\ sends'[r] \in PageTransaction
             /\ KnownOf(sends'[r], plan')
             /\ sends'[r].pc \in {"mined", "refreshing"} => Accomplished(sends[r])'
  <2>1. PICK u : u = sends[r]
    OBVIOUS
  <2>2. u = sends'[r] /\ Sending(r)
    BY <1>1, <2>1, OneTask DEF Sending
  <2>3. /\ u \in PageTransaction /\ KnownOf(u, plan)
        /\ u.pc \in {"mined", "refreshing"} => Accomplished(u)
    BY <2>1, <2>2 DEF ListenerInv, SendsAreKnown, Known
  <2>4. KnownOf(u, plan') /\ (u.pc \in {"mined", "refreshing"} => Accomplished(u)')
    BY <2>3, KnownKept, AccomplishedStays DEF PageTransaction
  <2> QED BY <2>2, <2>3, <2>4 DEF Accomplished
<1>2. t # NoTask => KnownOf(t, plan')
  BY KnownKept
<1>3. t # NoTask /\ t.pc \in {"mined", "refreshing"} => Accomplished(sends[s])'
  BY OneTask DEF Accomplished
<1>4. /\ sends' = [r \in Sends |-> sends'[r]] /\ sends'[s] = t
  BY OneTask
<1>5. ASSUME NEW r \in Sends, sends'[r] # NoTask
      PROVE  /\ sends'[r] \in PageTransaction
             /\ KnownOf(sends'[r], plan')
             /\ sends'[r].pc \in {"mined", "refreshing"} => Accomplished(sends[r])'
  <2>1. CASE r # s
    BY <1>1, <1>5, <2>1
  <2>2. CASE r = s
    BY <1>2, <1>3, <1>4, <1>5, <2>2
  <2> QED BY <2>1, <2>2
<1> QED BY <1>4, <1>5 DEF SendsAreKnown, Known, Sending

LEMMA TaskApart ==
    ASSUME ListenerInv, NEW s \in Sends, NEW t, Task(s, t), UNCHANGED payments,
           t # NoTask => /\ Sending(s) /\ t.reference = sends[s].reference
                         /\ t.pc \in MayBeMined => sends[s].pc \in MayBeMined
    PROVE  ReferencesApart'
BY OneTask DEF ListenerInv, ReferencesApart, Sending, UsedReferences

(* No refresh ends a transaction that does not wait for one.                 *)
LEMMA TaskEnds ==
    ASSUME ListenerInv, NEW s \in Sends, NEW t, Task(s, t), UNCHANGED reads,
           ~SendIs(s, "refreshing")
    PROVE  RefreshesEnd'
BY OneTask DEF ListenerInv, RefreshesEnd, SendIs

(* One refresh moves on, or ends. *)
LEMMA OneListenerRead ==
    ASSUME ListenerInv, NEW f \in Reads, NEW r, Read(f, r)
    PROVE  /\ reads' = [g \in Reads |-> reads'[g]] /\ reads'[f] = r
           /\ \A g \in Reads : g # f => reads'[g] = reads[g]
BY DEF ListenerInv, ReadsAreKnown, Read

LEMMA ReadKnown ==
    ASSUME ListenerInv, ChainMoves, NEW f \in Reads, NEW r, Read(f, r),
           r # NoTask /\ r.pc = "answered" => KnownOf(r.is, plan)
    PROVE  ReadsAreKnown'
<1>1. ASSUME NEW g \in Reads, reads'[g] # NoTask, reads'[g].pc = "answered"
      PROVE  KnownOf(reads'[g].is, plan')
  <2>1. KnownOf(reads'[g].is, plan)
    BY <1>1, OneListenerRead DEF ListenerInv, ReadsAreKnown, Known
  <2> QED BY <2>1, KnownKept
<1> QED BY <1>1, OneListenerRead DEF ReadsAreKnown, Known

LEMMA ReadEnds ==
    ASSUME ListenerInv, NEW f \in Reads, NEW r, Read(f, r), UNCHANGED sends,
           r # NoTask => \/ r.done \notin Sends
                         \/ reads[f] # NoTask /\ r.done = reads[f].done
    PROVE  RefreshesEnd'
BY OneListenerRead DEF ListenerInv, RefreshesEnd, SendIs

LEMMA OperatorsKeep ==
    ListenerInv /\ Operators /\ UNCHANGED listenerVars => ListenerInv'
<1> SUFFICES ASSUME ListenerInv, Operators, UNCHANGED listenerVars PROVE ListenerInv'
  OBVIOUS
<1>1. ChainMoves
  BY OperatorsMove DEF listenerVars
<1>2. ReferencesApart'
  <2>1. UNCHANGED payments
    BY DEF Operators, NewBlock, SetPlan, Pause, Disburse
  <2> QED BY <2>1, ApartKept DEF listenerVars
<1>3. ShownIsKnown'
  BY <1>1, ShownKept DEF listenerVars, ListenerInv, ShownIsKnown
<1> QED
  BY <1>1, <1>2, <1>3, ChainFits, ReadsKept, EndsKept, SendsKept, CompletedKept DEF listenerVars, ListenerInv

LEMMA ApproveParticipantKeeps ==
    ASSUME ListenerInv, NEW a \in Accounts, ApproveParticipant(a) PROVE ListenerInv'
<1> USE DEF ApproveParticipant
<1>1. ChainMoves
  BY DEF ListenerInv, ChainMoves, PlanFits, PaymentsFit, RunsAsPaid, ShownIsKnown, chainVars, planVars, assetVars
<1>2. ShownIsKnown'
  BY <1>1, ShownKept DEF ListenerInv, ShownIsKnown
<1> QED
  BY <1>1, <1>2, ChainFits, ReadsKept, EndsKept, SendsKept, ApartKept, CompletedKept DEF ListenerInv, chainVars

(* The wallet and the page: the chain stands still.                          *)
StillChain == UNCHANGED <<chainVars, participant>>

LEMMA ReadingKeeps ==
    ASSUME ListenerInv, StillChain, ReadsAreKnown', RefreshesEnd', UNCHANGED sends,
           account' \in Accounts \cup {NoAccount},
           \/ shown' = shown \/ shown' = NothingShown
           \/ \E f \in Reads : reads[f] # NoTask /\ reads[f].pc = "answered" /\ shown' = reads[f].is,
           completed' = completed \/ completed' = NoTask
    PROVE  ListenerInv'
<1>1. ChainMoves
  BY ChainStill DEF StillChain
<1>2. ReferencesApart'
  BY ApartKept DEF StillChain, chainVars
<1> QED BY <1>1, <1>2, ShownKept, ChainFits, SendsKept, CompletedKept DEF ListenerInv

LEMMA StartReadKeeps ==
    ASSUME ListenerInv, NEW f \in Reads, NEW a, NEW done, done \notin Sends, StillChain,
           StartRead(f, a, done) \/ UNCHANGED reads, UNCHANGED sends
    PROVE  ReadsAreKnown' /\ RefreshesEnd'
<1>1. ChainMoves
  BY ChainStill DEF StillChain
<1>2. CASE UNCHANGED reads
  BY <1>1, <1>2, ReadsKept, EndsKept
<1>3. CASE StartRead(f, a, done)
  <2>1. PICK r : r = [pc |-> "enrollment", account |-> a, done |-> done]
    OBVIOUS
  <2>2. Read(f, r) /\ r.pc = "enrollment" /\ r.done \notin Sends
    BY <1>3, <2>1 DEF StartRead
  <2> QED BY <1>1, <2>2, ReadKnown, ReadEnds
<1> QED BY <1>2, <1>3

LEMMA WalletKeeps ==
    ASSUME ListenerInv, NEW f \in Reads,
           \/ \E a \in Accounts : ConnectListener(f, a)
           \/ \E a \in Accounts \cup {NoAccount} : ListenerAccountChanged(f, a)
           \/ ListenerChainChanged(f)
    PROVE  ListenerInv'
<1>1. ASSUME NEW a \in Accounts, ConnectListener(f, a) PROVE ListenerInv'
  <2>1. ReadsAreKnown' /\ RefreshesEnd'
    BY <1>1, ListenerAssumption, StartReadKeeps DEF ConnectListener, StillChain
  <2> QED BY <1>1, <2>1, ReadingKeeps DEF ConnectListener, StillChain
<1>2. ASSUME WalletEvent(f), account' \in Accounts \cup {NoAccount} PROVE ListenerInv'
  <2>1. ReadsAreKnown' /\ RefreshesEnd'
    BY <1>2, ListenerAssumption, StartReadKeeps DEF WalletEvent, StillChain
  <2> QED BY <1>2, <2>1, ReadingKeeps DEF WalletEvent, Cleared, StillChain
<1> QED BY <1>1, <1>2 DEF ListenerAccountChanged, ListenerChainChanged, ListenerInv, ShownIsKnown

LEMMA SwitchKeeps ==
    ASSUME ListenerInv, NEW f \in Reads, NEW g \in Reads, SwitchListener(f, g)
    PROVE  ListenerInv'
<1>1. ChainMoves
  BY ChainStill DEF SwitchListener
<1>2. PICK r, q : /\ r = [pc |-> "enrollment", account |-> account, done |-> "none"]
                  /\ q = [pc |-> "enrollment", account |-> account, done |-> "free"]
  OBVIOUS
<1>3. /\ reads' = [reads EXCEPT ![f] = r, ![g] = q] /\ f # g
      /\ r.pc = "enrollment" /\ q.pc = "enrollment" /\ r.done \notin Sends /\ q.done \notin Sends
  BY <1>2, ListenerAssumption DEF SwitchListener
<1>4. /\ reads' = [h \in Reads |-> reads'[h]] /\ reads'[f] = r /\ reads'[g] = q
      /\ \A h \in Reads : h \notin {f, g} => reads'[h] = reads[h]
  BY <1>3 DEF ListenerInv, ReadsAreKnown
<1>5. ReadsAreKnown'
  <2>1. ASSUME NEW h \in Reads, reads'[h] # NoTask, reads'[h].pc = "answered"
        PROVE  KnownOf(reads'[h].is, plan')
    <3>1. KnownOf(reads'[h].is, plan)
      BY <1>3, <1>4, <2>1 DEF ListenerInv, ReadsAreKnown, Known
    <3> QED BY <1>1, <3>1, KnownKept
  <2> QED BY <1>4, <2>1 DEF ReadsAreKnown, Known
<1>6. RefreshesEnd'
  <2>1. SUFFICES ASSUME NEW h \in Reads, reads'[h] # NoTask, NEW s \in Sends, reads'[h].done = s
                 PROVE  /\ sends'[s] # NoTask /\ sends'[s].pc = "refreshing"
                        /\ \A k \in Reads : reads'[k] # NoTask /\ reads'[k].done = s => k = h
    BY DEF RefreshesEnd, SendIs
  <2>2. h \notin {f, g} /\ reads[h] = reads'[h]
    BY <1>3, <1>4, <2>1
  <2>3. \A k \in Reads : reads'[k] # NoTask /\ reads'[k].done = s => k \notin {f, g} /\ reads[k] = reads'[k]
    BY <1>3, <1>4
  <2>4. sends' = sends
    BY DEF SwitchListener
  <2> QED BY <2>1, <2>2, <2>3, <2>4 DEF ListenerInv, RefreshesEnd, SendIs
<1> QED
  BY <1>5, <1>6, ReadingKeeps
  DEF SwitchListener, Cleared, StillChain, ListenerInv, ShownIsKnown

LEMMA ReadStepKeeps ==
    ASSUME ListenerInv, NEW f \in Reads, EnrollmentRead(f) \/ AccountRead(f)
    PROVE  ListenerInv'
<1>1. ChainMoves
  BY ChainStill DEF EnrollmentRead, AccountRead
<1>2. CASE EnrollmentRead(f)
  <2>1. PICK r : r = [pc |-> "account", account |-> account, done |-> reads[f].done]
    OBVIOUS
  <2>2. Read(f, r) /\ r.pc = "account" /\ r.done = reads[f].done /\ reads[f] # NoTask
    BY <1>2, <2>1 DEF EnrollmentRead
  <2>3. ReadsAreKnown' /\ RefreshesEnd'
    BY <1>1, <1>2, <2>2, ReadKnown, ReadEnds DEF EnrollmentRead
  <2> QED BY <1>2, <2>3, ReadingKeeps DEF EnrollmentRead, StillChain, ListenerInv, ShownIsKnown
<1>3. CASE AccountRead(f)
  <2>1. PICK is : is = [price |-> plan.price, version |-> plan.version, enabled |-> plan.enabled,
                        balance |-> balanceOf[reads[f].account],
                        allowance |-> allowance[reads[f].account],
                        active |-> IsActive(reads[f].account)]
    OBVIOUS
  <2>2. PICK r : r = [pc |-> "answered", done |-> reads[f].done, is |-> is]
    OBVIOUS
  <2>3. KnownOf(is, plan)
    BY <2>1 DEF KnownOf, ListenerInv, PlanFits
  <2>4. Read(f, r) /\ KnownOf(r.is, plan) /\ r.done = reads[f].done /\ reads[f] # NoTask
    BY <1>3, <2>1, <2>2, <2>3 DEF AccountRead
  <2>5. ReadsAreKnown' /\ RefreshesEnd'
    BY <1>1, <1>3, <2>4, ReadKnown, ReadEnds DEF AccountRead
  <2> QED BY <1>3, <2>5, ReadingKeeps DEF AccountRead, StillChain, ListenerInv, ShownIsKnown
<1> QED BY <1>2, <1>3

LEMMA TaskFacts ==
    ASSUME ListenerInv, NEW s \in Sends, Sending(s)
    PROVE  /\ sends[s] \in PageTransaction /\ KnownOf(sends[s], plan)
           /\ sends[s].pc \in {"mined", "refreshing"} => Accomplished(sends[s])
BY DEF ListenerInv, SendsAreKnown, Known

(* A refresh that ends takes the transaction it was for with it.             *)
LEMMA ReadDoneKeeps ==
    ASSUME ListenerInv, StillChain, NEW f \in Reads, reads[f] # NoTask, ReadDone(f)
    PROVE  ReadsAreKnown' /\ RefreshesEnd' /\ SendsAreKnown' /\ ReferencesApart'
<1>1. ChainMoves
  BY ChainStill DEF StillChain
<1>2. Read(f, NoTask)
  BY DEF ReadDone
<1>3. ReadsAreKnown'
  BY <1>1, <1>2, ReadKnown
<1>4. CASE reads[f].done \notin Sends
  BY <1>1, <1>2, <1>3, <1>4, ReadEnds, SendsKept, ApartKept DEF ReadDone, StillChain, chainVars
<1>5. CASE reads[f].done \in Sends
  <2>1. PICK s \in Sends : s = reads[f].done
    BY <1>5
  <2>2. Task(s, NoTask)
    BY <2>1 DEF ReadDone, Task
  <2>3. SendsAreKnown' /\ ReferencesApart'
    BY <1>1, <2>2, TaskKnown, TaskApart DEF StillChain, chainVars
  <2>4. RefreshesEnd'
    <3>1. \A g \in Reads : reads[g] # NoTask /\ reads[g].done = s => g = f
      BY <2>1 DEF ListenerInv, RefreshesEnd
    <3> QED
      BY <1>2, <2>2, <3>1, OneListenerRead, OneTask DEF ListenerInv, RefreshesEnd, SendIs
  <2> QED BY <1>3, <2>3, <2>4
<1> QED BY <1>4, <1>5

LEMMA ReadEndKeeps ==
    ASSUME ListenerInv, NEW f \in Reads, AccountShown(f) \/ ReadFails(f)
    PROVE  ListenerInv'
<1>1. StillChain /\ ChainMoves /\ reads[f] # NoTask /\ ReadDone(f) /\ UNCHANGED account
  BY ChainStill DEF AccountShown, ReadFails, StillChain
<1>2. ReadsAreKnown' /\ RefreshesEnd' /\ SendsAreKnown' /\ ReferencesApart'
  BY <1>1, ReadDoneKeeps
<1>3. ShownIsKnown'
  BY <1>1, ShownKept DEF AccountShown, ReadFails, ListenerInv, ShownIsKnown
<1>4. (completed # NoTask => CompletedIsDone)'
  <2>1. CASE completed' = completed \/ completed' = NoTask
    BY <1>1, <2>1, CompletedKept
  <2>2. CASE AccountShown(f) /\ reads[f].done \in Sends
    <3>1. PICK s \in Sends : s = reads[f].done
      BY <2>2
    <3>2. SendIs(s, "refreshing")
      BY <1>1, <3>1 DEF ListenerInv, RefreshesEnd
    <3>3. PICK t : t = sends[s]
      OBVIOUS
    <3>4. t.sender \in Accounts /\ Accomplished(t)
      BY <3>2, <3>3, TaskFacts DEF SendIs, Sending, PageTransaction
    <3>5. Accomplished(t)' /\ completed' = t
      BY <1>1, <2>2, <3>1, <3>3, <3>4, AccomplishedStays DEF AccountShown
    <3> QED BY <3>4, <3>5 DEF CompletedIsDone, Accomplished
  <2> QED BY <2>1, <2>2 DEF AccountShown, ReadFails
<1> QED BY <1>1, <1>2, <1>3, <1>4, ChainFits DEF ListenerInv

(* A transaction that moves on before it is mined, or ends.                  *)
LEMMA SendStepKeeps ==
    ASSUME ListenerInv, StillChain, NEW s \in Sends, NEW t, Task(s, t), ~SendIs(s, "refreshing"),
           t # NoTask => /\ Sending(s) /\ t \in PageTransaction /\ KnownOf(t, plan)
                         /\ t.reference = sends[s].reference /\ t.pc \in MayBeMined
                         /\ sends[s].pc \in MayBeMined,
           UNCHANGED <<account, shown, reads>>, completed' = completed \/ completed' = NoTask
    PROVE  ListenerInv'
<1>1. ChainMoves
  BY ChainStill DEF StillChain
<1>2. t # NoTask => t.pc \notin {"mined", "refreshing"}
  BY DEF MayBeMined
<1>3. SendsAreKnown'
  BY <1>1, <1>2, TaskKnown
<1>4. ReferencesApart'
  BY TaskApart DEF StillChain, chainVars
<1>5. ReadsAreKnown' /\ RefreshesEnd'
  BY <1>1, ReadsKept, TaskEnds
<1>6. ShownIsKnown'
  BY <1>1, ShownKept DEF ListenerInv, ShownIsKnown
<1> QED BY <1>1, <1>3, <1>4, <1>5, <1>6, ChainFits, CompletedKept DEF ListenerInv

LEMMA ClickedKeeps ==
    ASSUME ListenerInv, NEW s \in Sends, NEW action \in {"register", "claim", "approve", "subscribe"},
           NEW r \in References, Clicked(s, action, r)
    PROVE  ListenerInv'
<1>1. PICK t : t = [pc |-> "fees", action |-> action, sender |-> account, reference |-> r,
                    price |-> 0, version |-> 0]
  OBVIOUS
<1>2. ChainMoves
  BY ChainStill DEF Clicked, RestOfPage
<1>3. account \in Accounts
  BY DEF Clicked, Offered, ChainActionsReady, ListenerInv, ShownIsKnown
<1>4. Task(s, t) /\ t \in PageTransaction /\ t.pc = "fees" /\ t.reference = r
  BY <1>1, <1>3 DEF Clicked, PageTransaction, SendPhases, MayBeMined
<1>5. KnownOf(t, plan)
  BY <1>1 DEF KnownOf, ListenerInv, PlanFits
<1>6. SendsAreKnown'
  BY <1>2, <1>4, <1>5, TaskKnown
<1>7. ReferencesApart'
  <2>1. r \notin UsedReferences /\ \A q \in Sends : Sending(q) => sends[q].reference # r
    BY DEF Clicked
  <2>2. UNCHANGED payments
    BY DEF Clicked, chainVars
  <2> QED BY <1>4, <2>1, <2>2, OneTask DEF ListenerInv, ReferencesApart, Sending, UsedReferences
<1>8. ReadsAreKnown' /\ RefreshesEnd'
  BY <1>2, <1>4, ReadsKept, TaskEnds DEF Clicked, RestOfPage, SendIs
<1>9. ShownIsKnown'
  BY <1>2, ShownKept DEF Clicked, RestOfPage, ListenerInv, ShownIsKnown
<1> QED BY <1>2, <1>6, <1>7, <1>8, <1>9, ChainFits, CompletedKept DEF ListenerInv, Clicked

LEMMA SigningKeeps ==
    ASSUME ListenerInv, NEW s \in Sends, FeesRead(s) \/ SendConfirmed(s) \/ SendFails(s)
    PROVE  ListenerInv'
<1>1. CASE FeesRead(s)
  <2>1. PICK t : t = Arguments(s)
    OBVIOUS
  <2>2. sends[s] \in PageTransaction /\ sends[s].pc = "fees" /\ Sending(s) /\ KnownOf(shown, plan)
    BY <1>1, TaskFacts DEF FeesRead, SendIs, Sending, ListenerInv, ShownIsKnown, Known
  <2>3. /\ t.pc = "signing" /\ t.price = shown.price /\ t.version = shown.version
        /\ t.reference = sends[s].reference /\ t \in PageTransaction
    BY <2>1, <2>2 DEF Arguments, PageTransaction, SendPhases, MayBeMined, KnownOf
  <2>4. KnownOf(t, plan)
    BY <2>2, <2>3 DEF KnownOf
  <2>5. Task(s, t) /\ ~SendIs(s, "refreshing")
    BY <1>1, <2>1 DEF FeesRead, SendIs
  <2>6. /\ t.pc \in MayBeMined /\ sends[s].pc \in MayBeMined
        /\ StillChain /\ UNCHANGED <<account, shown, reads, completed>>
    BY <1>1, <2>2, <2>3 DEF FeesRead, RestOfPage, StillChain, MayBeMined
  <2> QED BY <2>2, <2>3, <2>4, <2>5, <2>6, SendStepKeeps
<1>2. CASE SendConfirmed(s) \/ (SendIs(s, "sent") /\ Task(s, [sends[s] EXCEPT !.pc = "unwatched"]) /\ SendFails(s))
  <2>1. PICK pc \in {"sent", "unwatched"} : Task(s, [sends[s] EXCEPT !.pc = pc])
    BY <1>2 DEF SendConfirmed
  <2>2. PICK t : t = [sends[s] EXCEPT !.pc = pc]
    OBVIOUS
  <2>3. /\ sends[s] \in PageTransaction /\ KnownOf(sends[s], plan) /\ Sending(s)
        /\ sends[s].pc \in {"signing", "sent"}
    BY <1>2, TaskFacts DEF SendConfirmed, SendIs, Sending
  <2>4. /\ t.pc = pc /\ t.price = sends[s].price /\ t.version = sends[s].version
        /\ t.reference = sends[s].reference /\ t \in PageTransaction
    BY <2>2, <2>3 DEF PageTransaction, SendPhases, MayBeMined
  <2>5. KnownOf(t, plan)
    BY <2>3, <2>4 DEF KnownOf
  <2>6. /\ t.pc \in MayBeMined /\ sends[s].pc \in MayBeMined /\ ~SendIs(s, "refreshing")
        /\ StillChain /\ UNCHANGED <<account, shown, reads>>
        /\ completed' = completed \/ completed' = NoTask
    BY <1>2, <2>3, <2>4 DEF SendConfirmed, SendFails, RestOfPage, StillChain, MayBeMined, SendIs
  <2>7. Task(s, t)
    BY <2>1, <2>2
  <2> QED BY <2>3, <2>4, <2>5, <2>6, <2>7, SendStepKeeps
<1>3. CASE SendFails(s) /\ sends[s].pc \in {"fees", "signing", "sent", "mined"} /\ Task(s, NoTask)
  <2>1. /\ ~SendIs(s, "refreshing") /\ StillChain /\ UNCHANGED <<account, shown, reads>>
        /\ completed' = NoTask
    BY <1>3 DEF SendFails, RestOfPage, StillChain, SendIs
  <2> QED BY <1>3, <2>1, SendStepKeeps
<1> QED BY <1>1, <1>2, <1>3 DEF SendFails

LEMMA SendMinedKeeps == ASSUME ListenerInv, NEW s \in Sends, SendMined(s) PROVE ListenerInv'
<1>1. PICK t : t = sends[s]
  OBVIOUS
<1>2. /\ t \in PageTransaction /\ KnownOf(t, plan) /\ Sending(s) /\ Executed(t)
      /\ t.pc \in {"sent", "unwatched"} /\ UNCHANGED <<account, shown, reads, completed>>
      /\ ~SendIs(s, "refreshing")
  BY <1>1, TaskFacts DEF SendMined, SendIs, Sending
<1>3. ChainMoves
  BY <1>2, ExecutedMoves DEF PageTransaction
<1>4. Accomplished(t)'
  <2>1. CASE t.action = "subscribe"
    <3>1. Subscribe(t.sender, t.reference, t.version)
      BY <1>2, <2>1 DEF Executed
    <3>2. plan.price = t.price
      BY <1>2, <3>1 DEF Subscribe, PlanIs, KnownOf
    <3>3. PICK p : p = [reference |-> t.reference, subscriber |-> t.sender, amount |-> plan.price,
                        version |-> t.version, until |-> Extended(t.sender)]
      OBVIOUS
    <3>4. p \in payments'
      BY <3>1, <3>3 DEF Subscribe
    <3>5. p.reference = t.reference /\ p.amount = t.price /\ p.subscriber = t.sender
      BY <3>2, <3>3
    <3> QED BY <2>1, <3>4, <3>5 DEF Accomplished
  <2>2. CASE t.action # "subscribe"
    BY <1>2, <2>2 DEF Executed, Accomplished, Claim, ListenerInv, ShownIsKnown, PageTransaction
  <2> QED BY <2>1, <2>2
<1>5. PICK u : Task(s, u) /\ (u = NoTask \/ u = [t EXCEPT !.pc = "mined"])
  BY <1>1 DEF SendMined
<1>6. u # NoTask => /\ u.pc = "mined" /\ u.action = t.action /\ u.sender = t.sender
                    /\ u.reference = t.reference /\ u.price = t.price /\ u.version = t.version
                    /\ u \in PageTransaction
  BY <1>2, <1>5 DEF PageTransaction, SendPhases
<1>7. u # NoTask => KnownOf(u, plan) /\ Accomplished(u)'
  BY <1>2, <1>4, <1>6 DEF KnownOf, Accomplished
<1>8. SendsAreKnown'
  BY <1>3, <1>5, <1>6, <1>7, TaskKnown
<1>9. ReferencesApart'
  <2>1. \A r \in UsedReferences' : r \in UsedReferences \/ r = t.reference
    BY <1>2 DEF Executed, Claim, Approve, Subscribe, chainVars, UsedReferences
  <2>2. \A r \in Sends : Sending(r) /\ r # s => sends[r].reference # t.reference
    BY <1>1, <1>2 DEF ListenerInv, ReferencesApart
  <2>3. sends'[s] = u /\ \A r \in Sends : r # s => sends'[r] = sends[r]
    BY <1>5, OneTask
  <2> QED
    BY <1>6, <2>1, <2>2, <2>3 DEF ListenerInv, ReferencesApart, Sending, MayBeMined
<1>10. ReadsAreKnown' /\ RefreshesEnd'
  BY <1>2, <1>3, <1>5, ReadsKept, TaskEnds
<1>11. ShownIsKnown'
  BY <1>2, <1>3, ShownKept DEF ListenerInv, ShownIsKnown
<1> QED BY <1>2, <1>3, <1>8, <1>9, <1>10, <1>11, ChainFits, CompletedKept DEF ListenerInv

LEMMA ReceiptKeeps ==
    ASSUME ListenerInv, NEW s \in Sends,
           ReceiptUnread(s) \/ \E f \in Reads : ReceiptRead(s, f)
    PROVE  ListenerInv'
<1>1. PICK t : t = sends[s]
  OBVIOUS
<1>2. /\ t \in PageTransaction /\ KnownOf(t, plan) /\ Sending(s) /\ t.pc = "mined"
      /\ ~SendIs(s, "refreshing") /\ UNCHANGED <<account, shown>> /\ StillChain
  BY <1>1, TaskFacts DEF ReceiptRead, ReceiptUnread, SendIs, Sending, StillChain
<1>3. ChainMoves
  BY <1>2, ChainStill DEF StillChain
<1>4. Accomplished(t)'
  BY <1>1, <1>2, <1>3, TaskFacts, AccomplishedStays DEF PageTransaction
<1>5. ShownIsKnown'
  BY <1>2, <1>3, ShownKept DEF ListenerInv, ShownIsKnown
<1>6. CASE ReceiptUnread(s)
  <2>1. Task(s, NoTask) /\ UNCHANGED reads /\ completed' = t
    BY <1>1, <1>6 DEF ReceiptUnread
  <2>2. SendsAreKnown' /\ ReferencesApart' /\ ReadsAreKnown' /\ RefreshesEnd'
    BY <1>2, <1>3, <2>1, TaskKnown, TaskApart, TaskEnds, ReadsKept DEF StillChain, chainVars
  <2>3. (completed # NoTask => CompletedIsDone)'
    BY <1>2, <1>4, <2>1 DEF CompletedIsDone, Accomplished, PageTransaction
  <2> QED BY <1>3, <1>5, <2>2, <2>3, ChainFits DEF ListenerInv
<1>7. ASSUME NEW f \in Reads, ReceiptRead(s, f) PROVE ListenerInv'
  <2>1. PICK u : u = [t EXCEPT !.pc = "refreshing"]
    OBVIOUS
  <2>2. PICK r : r = [pc |-> "enrollment", account |-> account, done |-> s]
    OBVIOUS
  <2>3. /\ Task(s, u) /\ Read(f, r) /\ r.done = s /\ r.pc = "enrollment" /\ reads[f] = NoTask
        /\ UNCHANGED completed
    BY <1>1, <1>7, <2>1, <2>2 DEF ReceiptRead, StartRead
  <2>4. /\ u.pc = "refreshing" /\ u.action = t.action /\ u.sender = t.sender
        /\ u.reference = t.reference /\ u.price = t.price /\ u.version = t.version
        /\ u \in PageTransaction
    BY <1>2, <2>1 DEF PageTransaction, SendPhases
  <2>5. KnownOf(u, plan) /\ Accomplished(u)'
    BY <1>2, <1>4, <2>4 DEF KnownOf, Accomplished
  <2>6. SendsAreKnown' /\ ReferencesApart' /\ ReadsAreKnown'
    BY <1>1, <1>2, <1>3, <2>3, <2>4, <2>5, TaskKnown, TaskApart, ReadKnown
    DEF StillChain, chainVars, MayBeMined
  <2>7. RefreshesEnd'
    <3>1. \A g \in Reads : reads[g] # NoTask => reads[g].done # s
      BY <1>2 DEF ListenerInv, RefreshesEnd
    <3>2. reads'[f] = r /\ \A g \in Reads : g # f => reads'[g] = reads[g]
      BY <2>3, OneListenerRead
    <3>3. sends'[s] = u /\ \A q \in Sends : q # s => sends'[q] = sends[q]
      BY <2>3, OneTask
    <3>4. SUFFICES ASSUME NEW g \in Reads, reads'[g] # NoTask, NEW q \in Sends, reads'[g].done = q
                   PROVE  /\ sends'[q] # NoTask /\ sends'[q].pc = "refreshing"
                          /\ \A h \in Reads : reads'[h] # NoTask /\ reads'[h].done = q => h = g
      BY DEF RefreshesEnd, SendIs
    <3>5. CASE g = f
      <4>1. q = s
        BY <2>3, <3>2, <3>4, <3>5
      <4>2. u # NoTask
        BY <2>4, ListenerAssumption
      <4> QED BY <1>2, <2>4, <3>1, <3>2, <3>3, <3>5, <4>1, <4>2
    <3>6. CASE g # f
      <4>1. q # s /\ reads[g].done = q /\ reads[g] # NoTask
        BY <3>1, <3>2, <3>4, <3>6
      <4> QED BY <2>3, <3>2, <3>3, <4>1 DEF ListenerInv, RefreshesEnd, SendIs
    <3> QED BY <3>5, <3>6
  <2> QED BY <1>3, <1>5, <2>3, <2>6, <2>7, ChainFits, CompletedKept DEF ListenerInv
<1> QED BY <1>6, <1>7

LEMMA ListenerStepInv ==
    ListenerInv /\ [ListenerNext]_<<chainVars, listenerVars>> => ListenerInv'
<1> SUFFICES ASSUME ListenerInv, [ListenerNext]_<<chainVars, listenerVars>> PROVE ListenerInv'
  OBVIOUS
<1>1. CASE UNCHANGED <<chainVars, listenerVars>>
  BY <1>1, ChainStill, ReadingKeeps, ReadsKept, EndsKept
  DEF listenerVars, StillChain, ListenerInv, ShownIsKnown
<1>2. CASE ListenerNext
  BY <1>2, OperatorsKeep, ApproveParticipantKeeps, WalletKeeps, SwitchKeeps, ReadStepKeeps,
     ReadEndKeeps, ReceiptKeeps, ClickedKeeps, SigningKeeps, SendMinedKeeps
  DEF ListenerNext
<1> QED BY <1>1, <1>2

THEOREM ListenerHolds == ListenerSpec => []ListenerInv
BY ListenerInitInv, ListenerStepInv, PTL DEF ListenerSpec

(* What the page calls complete was done by the wallet that was asked, and a *)
(* listener pays the price the page showed when the wallet was asked, for    *)
(* any number of accounts, plans, refreshes and transactions: a price shown  *)
(* travels with its version from the plan to the transaction's arguments,    *)
(* and the contract takes no other version than the plan's                   *)
(* (TestnetUserJourneyDemo.vue's transact, CreatorFirstSubscription.sol).    *)
THEOREM PaysWhatWasShown == ListenerSpec => []ListenerPaysWhatWasShown
BY ListenerHolds, PaidAsShown, PTL
=============================================================================
