------------------------ MODULE PlaybackGatewayProofs ------------------------
(***************************************************************************)
(* Proofs about playback sessions, for every set of accounts, keys, tracks *)
(* and deliveries.                                                         *)
(*                                                                         *)
(* What holds the lease together is that a session that was never released *)
(* is in a live state (Unreleased): the check of createPlayback sees it as *)
(* long as it has not expired, and afterwards it no longer counts.  A      *)
(* delivery may revive a released session, so the state alone says less.   *)
(*                                                                         *)
(* The last part is about the player's page: its plays take only steps of  *)
(* the gateway's specification, and a live session is one the page knows.  *)
(***************************************************************************)
EXTENDS Player, SumTheorems

-----------------------------------------------------------------------------
(* parseSingleRange, for files and headers of every size. *)

(* The bytes served for a header are exactly those it selects (range.js).    *)
THEOREM ServesWhatWasAsked ==
    ASSUME NEW header \in Header, NEW size \in Nat
    PROVE  RangeIsWhatWasAsked(header, size)
<1>1. SUFFICES ASSUME NEW r \in ParseSingleRange(header, size)
               PROVE  r.start..r.end = Selected(header, size)
  BY DEF RangeIsWhatWasAsked
<1>2. CASE header.kind = "absent"
  BY <1>1, <1>2 DEF ParseSingleRange, Bytes, Selected
<1>3. CASE header.kind # "absent"
  <2>1. PICK x \in Asked(header, size) :
            /\ x.start <= x.end /\ x.start < size
            /\ r = Bytes(x.start, LeastOf(x.end, size - 1))
    BY <1>1, <1>3 DEF ParseSingleRange, Satisfiable
  <2>2. CASE header.kind = "suffix"
    <3>1. header.n \in Nat /\ header.n > 0 /\ x = Bytes(GreatestOf(0, size - header.n), size - 1)
      BY <2>1, <2>2 DEF Asked, Header
    <3> QED BY <2>1, <2>2, <3>1 DEF Bytes, LeastOf, GreatestOf, Selected
  <2>3. CASE header.kind = "from"
    <3>1. header.start \in Nat /\ x = Bytes(header.start, size - 1)
      BY <2>1, <2>3 DEF Asked, Header
    <3> QED BY <2>1, <2>3, <3>1 DEF Bytes, LeastOf, Selected
  <2>4. CASE header.kind = "span"
    <3>1. header.start \in Nat /\ header.end \in Nat /\ x = Bytes(header.start, header.end)
      BY <2>1, <2>4 DEF Asked, Header
    <3> QED BY <2>1, <2>4, <3>1 DEF Bytes, LeastOf, Selected
  <2> QED BY <2>1, <2>2, <2>3, <2>4 DEF Asked
<1> QED BY <1>2, <1>3

(* A RangeError is thrown only for a range that selects no byte, or whose    *)
(* numbers Number() cannot hold exactly (range.js).                          *)
THEOREM RefusesForCause ==
    ASSUME NEW header \in Header, NEW size \in Nat
    PROVE  RefusedForCause(header, size)
<1>1. SUFFICES ASSUME NEW b \in Selected(header, size),
                      header.kind = "suffix" => Safe(header.n),
                      header.kind = "from" => Safe(header.start),
                      header.kind = "span" => Safe(header.start) /\ Safe(header.end)
               PROVE  ParseSingleRange(header, size) # {}
  BY DEF RefusedForCause
<1>2. b \in 0..(size - 1)
  BY <1>1 DEF Selected
<1>3. CASE header.kind = "absent"
  BY <1>3 DEF ParseSingleRange
<1>4. ASSUME NEW x \in Asked(header, size), Satisfiable(x, size), header.kind # "absent"
      PROVE  ParseSingleRange(header, size) # {}
  BY <1>4 DEF ParseSingleRange
<1>5. CASE header.kind = "suffix"
  <2>1. header.n \in Nat /\ header.n > 0
    BY <1>1, <1>2, <1>5 DEF Header, Selected
  <2>2. Bytes(GreatestOf(0, size - header.n), size - 1) \in Asked(header, size)
    BY <1>1, <1>5, <2>1 DEF Asked
  <2>3. Satisfiable(Bytes(GreatestOf(0, size - header.n), size - 1), size)
    BY <1>2, <2>1 DEF Satisfiable, Bytes, GreatestOf
  <2> QED BY <1>4, <1>5, <2>2, <2>3
<1>6. CASE header.kind = "from"
  <2>1. header.start \in Nat /\ b >= header.start
    BY <1>1, <1>6 DEF Header, Selected
  <2>2. Bytes(header.start, size - 1) \in Asked(header, size)
    BY <1>1, <1>6 DEF Asked
  <2>3. Satisfiable(Bytes(header.start, size - 1), size)
    BY <1>2, <2>1 DEF Satisfiable, Bytes
  <2> QED BY <1>4, <1>6, <2>2, <2>3
<1>7. CASE header.kind = "span"
  <2>1. header.start \in Nat /\ header.end \in Nat /\ b >= header.start /\ b <= header.end
    BY <1>1, <1>7 DEF Header, Selected
  <2>2. Bytes(header.start, header.end) \in Asked(header, size)
    BY <1>1, <1>7 DEF Asked
  <2>3. Satisfiable(Bytes(header.start, header.end), size)
    BY <1>2, <2>1 DEF Satisfiable, Bytes
  <2> QED BY <1>4, <1>7, <2>2, <2>3
<1> QED BY <1>1, <1>3, <1>5, <1>6, <1>7 DEF Selected

(* Content-Length of FileMediaAdapter.open is a number of bytes of the file. *)
THEOREM LengthFits ==
    ASSUME NEW header \in Header, NEW size \in Nat, NEW r \in ParseSingleRange(header, size)
    PROVE  ContentLength(r) \in 0..size
<1>1. CASE header.kind = "absent"
  BY <1>1 DEF ParseSingleRange, Bytes, ContentLength
<1>2. CASE header.kind # "absent"
  <2>1. PICK x \in Asked(header, size) :
            x.start <= x.end /\ x.start < size /\ r = Bytes(x.start, LeastOf(x.end, size - 1))
    BY <1>2 DEF ParseSingleRange, Satisfiable
  <2>2. x.start \in Nat /\ x.end \in Int
    <3>1. CASE header.kind = "suffix"
      BY <2>1, <3>1 DEF Asked, Header, Bytes, GreatestOf
    <3>2. CASE header.kind = "from"
      BY <2>1, <3>2 DEF Asked, Header, Bytes
    <3>3. CASE header.kind = "span"
      BY <2>1, <3>3 DEF Asked, Header, Bytes
    <3> QED BY <2>1, <3>1, <3>2, <3>3 DEF Asked
  <2> QED BY <2>1, <2>2 DEF Bytes, LeastOf, ContentLength
<1> QED BY <1>1, <1>2

-----------------------------------------------------------------------------
(* The inductive invariant of the sessions. *)

Exists(s) == sessions[s].state # "none"

(* Rows are numbered from 1, and what is not yet inserted has no evidence. *)
Numbered ==
    \A s \in SIds :
        /\ s > sessionCount => sessions[s] = NoSession /\ evidence[s] = 0
        /\ s <= sessionCount => sessions[s] \in Session

DeliveriesOfSessions ==
    \A d \in Deliveries : deliveries[d] # Idle => deliveries[d].session \in 1..sessionCount

Unreleased ==
    \A s \in SIds : Exists(s) /\ ~sessions[s].leaseReleased => sessions[s].state \in Live

(* Of two unreleased sessions of an account, one is past its lifetime. *)
OneUnexpired ==
    \A s, t \in SIds :
        /\ Exists(s) /\ Exists(t) /\ s # t /\ sessions[s].owner = sessions[t].owner
        /\ ~sessions[s].leaseReleased /\ ~sessions[t].leaseReleased
        => sessions[s].expiresAt <= now \/ sessions[t].expiresAt <= now

(* The bytes of a session are those of its evidence until it is released. *)
BytesFollowEvidence ==
    \A s \in SIds : Exists(s) =>
        /\ sessions[s].bytes <= evidence[s]
        /\ ~sessions[s].leaseReleased => sessions[s].bytes = evidence[s]

PlaybackInv ==
    /\ TypeOK /\ Numbered /\ DeliveriesOfSessions /\ Unreleased /\ OneUnexpired
    /\ KeyCreatesOneSession /\ BytesFollowEvidence

-----------------------------------------------------------------------------
LEMMA InitInv == Init => PlaybackInv
  <1> SUFFICES ASSUME Init PROVE PlaybackInv
    OBVIOUS
  <1>1. TypeOK
    BY PlaybackAssumption DEF Init, TypeOK, NoSession, Idle
  <1>2. Numbered /\ DeliveriesOfSessions
    BY PlaybackAssumption DEF Init, Numbered, DeliveriesOfSessions, SIds
  <1>3. Unreleased /\ OneUnexpired /\ KeyCreatesOneSession /\ BytesFollowEvidence
    BY DEF Init, Unreleased, OneUnexpired, KeyCreatesOneSession, BytesFollowEvidence, Exists,
           NoSession
  <1> QED BY <1>1, <1>2, <1>3 DEF PlaybackInv

(* The sessions, as records. *)
LEMMA SessionFacts ==
    ASSUME PlaybackInv
    PROVE  /\ sessionCount \in 0..MaxSessions /\ MaxSessions \in Nat /\ SIds \subseteq Nat
           /\ \A s \in SIds : s \in 1..sessionCount <=> Exists(s)
           /\ \A s \in SIds : Exists(s) => sessions[s] \in Session
           /\ 1..sessionCount \subseteq SIds
  <1>1. sessionCount \in 0..MaxSessions /\ MaxSessions \in Nat
    BY PlaybackAssumption DEF PlaybackInv, TypeOK
  <1>2. \A s \in SIds : s \in 1..sessionCount <=> Exists(s)
    <2> SUFFICES ASSUME NEW s \in SIds PROVE s \in 1..sessionCount <=> Exists(s)
      OBVIOUS
    <2>1. CASE s > sessionCount
      BY <1>1, <2>1 DEF PlaybackInv, Numbered, Exists, NoSession, SIds
    <2>2. CASE s <= sessionCount
      BY <1>1, <2>2 DEF PlaybackInv, Numbered, Exists, Session, SIds, Live, Terminal
    <2> QED BY <1>1, <2>1, <2>2 DEF SIds
  <1> QED BY <1>1, <1>2 DEF PlaybackInv, Numbered, SIds

(* A delivery, as a record; what becomes of it at its callbacks. *)
LEMMA DeliveryFacts ==
    ASSUME PlaybackInv, NEW d \in Deliveries
    PROVE  LET x == deliveries[d] IN
           /\ x = Idle \/ x \in Delivery
           /\ x.pc = "opening" =>
                /\ x.session \in 1..sessionCount /\ x \in Delivery
                /\ \A pc \in {"failed", "lost"} :
                       [x EXCEPT !.pc = pc] \in Delivery /\ [x EXCEPT !.pc = pc].session = x.session
           /\ x.pc = "streaming" =>
                /\ x.session \in 1..sessionCount /\ x.bytes \in Nat
                /\ \A pc \in {"recorded", "lost"} :
                       [x EXCEPT !.pc = pc] \in Delivery /\ [x EXCEPT !.pc = pc].session = x.session
                /\ [x EXCEPT !.bytes = @ + 1] \in Delivery
                /\ [x EXCEPT !.bytes = @ + 1].session = x.session
  <1> DEFINE x == deliveries[d]
  <1>1. PICK y : y = x
    OBVIOUS
  <1>2. y = Idle \/ y \in Delivery
    BY <1>1 DEF PlaybackInv, TypeOK
  <1>3. y # Idle => y.session \in 1..sessionCount
    BY <1>1 DEF PlaybackInv, DeliveriesOfSessions
  <1>4. y.pc = "opening" => y \in [pc : {"opening", "failed", "lost"}, session : SIds, bytes : {0}]
    BY <1>2 DEF Delivery, Idle
  <1>5. y.pc = "streaming" =>
            y \in [pc : {"streaming", "recorded", "lost"}, session : SIds, bytes : Nat, length : Nat]
    BY <1>2 DEF Delivery, Idle
  <1>6. ASSUME y.pc = "opening", NEW pc \in {"failed", "lost"}
        PROVE  [y EXCEPT !.pc = pc] \in Delivery /\ [y EXCEPT !.pc = pc].session = y.session
    <2>1. [y EXCEPT !.pc = pc] \in [pc : {"opening", "failed", "lost"}, session : SIds, bytes : {0}]
          /\ [y EXCEPT !.pc = pc].session = y.session
      BY <1>4, <1>6
    <2> QED BY <2>1 DEF Delivery
  <1>7. ASSUME y.pc = "streaming", NEW pc \in {"recorded", "lost"}
        PROVE  [y EXCEPT !.pc = pc] \in Delivery /\ [y EXCEPT !.pc = pc].session = y.session
    <2>1. [y EXCEPT !.pc = pc] \in
              [pc : {"streaming", "recorded", "lost"}, session : SIds, bytes : Nat, length : Nat]
          /\ [y EXCEPT !.pc = pc].session = y.session
      BY <1>5, <1>7
    <2> QED BY <2>1 DEF Delivery
  <1>8. ASSUME y.pc = "streaming"
        PROVE  /\ [y EXCEPT !.bytes = @ + 1] \in Delivery
               /\ [y EXCEPT !.bytes = @ + 1].session = y.session /\ y.bytes \in Nat
    <2>1. [y EXCEPT !.bytes = @ + 1] \in
              [pc : {"streaming", "recorded", "lost"}, session : SIds, bytes : Nat, length : Nat]
          /\ [y EXCEPT !.bytes = @ + 1].session = y.session /\ y.bytes \in Nat
      BY <1>5, <1>8
    <2> QED BY <2>1 DEF Delivery
  <1>9. y.pc \in {"opening", "streaming"} => y # Idle
    BY DEF Idle
  <1> QED BY <1>1, <1>2, <1>3, <1>6, <1>7, <1>8, <1>9

-----------------------------------------------------------------------------
(* What the handlers do to the deliveries: one is replaced, or several are   *)
(* lost, none changes its session.                                           *)
DeliveriesKept ==
    /\ deliveries' \in [Deliveries -> Delivery \cup {Idle}]
    /\ \A d \in Deliveries : deliveries'[d] # Idle => deliveries'[d].session \in 1..sessionCount

(* A row is updated: its owner, track, key and lifetime stay, and so does a  *)
(* release.                                                                  *)
Updated(s, row) ==
    LET old == sessions[s] IN
    /\ row \in Session
    /\ row.owner = old.owner /\ row.track = old.track /\ row.key = old.key
    /\ row.expiresAt = old.expiresAt
    /\ ~row.leaseReleased => ~old.leaseReleased /\ row.state \in Live

RowUpdated ==
    \E s \in 1..sessionCount, row \in Session :
        /\ Updated(s, row) /\ sessions' = [sessions EXCEPT ![s] = row]
        /\ \E n \in Nat :
             /\ evidence' = [evidence EXCEPT ![s] = @ + n]
             /\ row.bytes = sessions[s].bytes + n \/ (row.bytes = sessions[s].bytes /\ row.leaseReleased)

Kept == now' \in Nat /\ now' >= now /\ sessionCount' = sessionCount /\ idempotency' = idempotency

LEMMA UpdateInv ==
    ASSUME PlaybackInv, Kept, DeliveriesKept, RowUpdated,
           accounts' \in [Accounts -> {"new", "present", "lost"}], supporters' \subseteq Accounts,
           authorized' = authorized
    PROVE  PlaybackInv'
  <1>1. PICK s \in 1..sessionCount, row \in Session :
            /\ Updated(s, row) /\ sessions' = [sessions EXCEPT ![s] = row]
            /\ \E n \in Nat :
                 /\ evidence' = [evidence EXCEPT ![s] = @ + n]
                 /\ row.bytes = sessions[s].bytes + n
                    \/ (row.bytes = sessions[s].bytes /\ row.leaseReleased)
    BY DEF RowUpdated
  <1>2. PICK n \in Nat :
            /\ evidence' = [evidence EXCEPT ![s] = @ + n]
            /\ row.bytes = sessions[s].bytes + n \/ (row.bytes = sessions[s].bytes /\ row.leaseReleased)
    BY <1>1
  <1>3. /\ s \in SIds /\ sessions[s] \in Session /\ Exists(s) /\ s \in Nat /\ sessionCount \in Nat
        /\ now \in Nat /\ now' \in Nat /\ now' >= now
    BY SessionFacts DEF PlaybackInv, TypeOK, Kept
  <1>4. /\ sessions' \in [SIds -> Session \cup {NoSession}] /\ sessions'[s] = row
        /\ \A t \in SIds \ {s} : sessions'[t] = sessions[t]
    BY <1>1, <1>3 DEF PlaybackInv, TypeOK
  <1>5. /\ evidence' \in [SIds -> Nat] /\ evidence'[s] = evidence[s] + n /\ evidence[s] \in Nat
        /\ \A t \in SIds \ {s} : evidence'[t] = evidence[t]
    BY <1>2, <1>3 DEF PlaybackInv, TypeOK
  <1>6. TypeOK'
    BY <1>4, <1>5 DEF PlaybackInv, TypeOK, Kept, DeliveriesKept
  <1>7. Numbered'
    BY <1>3, <1>4, <1>5 DEF PlaybackInv, Numbered, Kept, SIds
  <1>8. DeliveriesOfSessions'
    BY DEF DeliveriesKept, DeliveriesOfSessions, Kept
  <1>9. row.state # "none" /\ row.bytes \in Nat /\ sessions[s].bytes \in Nat /\ row.expiresAt \in Nat
        /\ row.owner \in Accounts /\ row.leaseReleased \in BOOLEAN
    BY <1>3 DEF Session, Live, Terminal
  <1>10. Unreleased'
    BY <1>1, <1>4 DEF PlaybackInv, Unreleased, Exists, Updated
  <1>11. OneUnexpired'
    <2> SUFFICES ASSUME NEW u \in SIds, NEW t \in SIds, Exists(u)', Exists(t)', u # t,
                        sessions'[u].owner = sessions'[t].owner,
                        ~sessions'[u].leaseReleased, ~sessions'[t].leaseReleased
                 PROVE  sessions'[u].expiresAt <= now' \/ sessions'[t].expiresAt <= now'
      BY DEF OneUnexpired
    <2>1. \A v \in {u, t} : /\ Exists(v) /\ sessions'[v].owner = sessions[v].owner
                            /\ ~sessions[v].leaseReleased
                            /\ sessions'[v].expiresAt = sessions[v].expiresAt
      BY <1>1, <1>3, <1>4 DEF Exists, Updated
    <2>2. sessions[u].expiresAt <= now \/ sessions[t].expiresAt <= now
      BY <2>1 DEF PlaybackInv, OneUnexpired
    <2>3. sessions[u].expiresAt \in Nat /\ sessions[t].expiresAt \in Nat
      BY <2>1, SessionFacts DEF Session
    <2> QED BY <1>3, <2>1, <2>2, <2>3
  <1>12. KeyCreatesOneSession'
    BY <1>1, <1>3, <1>4 DEF PlaybackInv, KeyCreatesOneSession, Kept, Exists, Updated
  <1>13. BytesFollowEvidence'
    <2> SUFFICES ASSUME NEW t \in SIds, Exists(t)'
                 PROVE  /\ sessions'[t].bytes <= evidence'[t]
                        /\ ~sessions'[t].leaseReleased => sessions'[t].bytes = evidence'[t]
      BY DEF BytesFollowEvidence
    <2>1. CASE t = s
      <3>1. sessions[s].bytes <= evidence[s]
            /\ (~sessions[s].leaseReleased => sessions[s].bytes = evidence[s])
        BY <1>3 DEF PlaybackInv, BytesFollowEvidence
      <3>2. row.leaseReleased \/ ~sessions[s].leaseReleased
        BY <1>1, <1>9 DEF Updated
      <3> QED BY <1>2, <1>4, <1>5, <1>9, <2>1, <3>1, <3>2
    <2>2. CASE t # s
      BY <1>4, <1>5, <2>2 DEF PlaybackInv, BytesFollowEvidence, Exists
    <2> QED BY <2>1, <2>2
  <1> QED BY <1>6, <1>7, <1>8, <1>10, <1>11, <1>12, <1>13 DEF PlaybackInv

(* No row changes. *)
LEMMA QuietInv ==
    ASSUME PlaybackInv, Kept, DeliveriesKept, sessions' = sessions, evidence' = evidence,
           accounts' \in [Accounts -> {"new", "present", "lost"}], supporters' \subseteq Accounts,
           authorized' \in Nat
    PROVE  PlaybackInv'
  <1>1. TypeOK'
    BY DEF PlaybackInv, TypeOK, Kept, DeliveriesKept
  <1>2. Numbered' /\ DeliveriesOfSessions' /\ Unreleased' /\ KeyCreatesOneSession'
        /\ BytesFollowEvidence'
    BY DEF PlaybackInv, Kept, DeliveriesKept, Numbered, DeliveriesOfSessions, Unreleased,
           KeyCreatesOneSession, BytesFollowEvidence, Exists
  <1>3. OneUnexpired'
    <2> SUFFICES ASSUME NEW s \in SIds, NEW t \in SIds, Exists(s), Exists(t), s # t,
                        sessions[s].owner = sessions[t].owner,
                        ~sessions[s].leaseReleased, ~sessions[t].leaseReleased
                 PROVE  sessions[s].expiresAt <= now' \/ sessions[t].expiresAt <= now'
      BY DEF OneUnexpired, Exists
    <2>1. sessions[s].expiresAt <= now \/ sessions[t].expiresAt <= now
      BY DEF PlaybackInv, OneUnexpired
    <2>2. sessions[s].expiresAt \in Nat /\ sessions[t].expiresAt \in Nat
      BY SessionFacts DEF Session
    <2> QED BY <2>1, <2>2 DEF Kept, PlaybackInv, TypeOK
  <1> QED BY <1>1, <1>2, <1>3 DEF PlaybackInv

(* The step that replaces one delivery by another of the same session. *)
LEMMA DeliveryReplaced ==
    ASSUME PlaybackInv, NEW d \in Deliveries, NEW x \in Delivery, x.session \in 1..sessionCount,
           deliveries' = [deliveries EXCEPT ![d] = x]
    PROVE  DeliveriesKept
  BY DEF PlaybackInv, TypeOK, DeliveriesOfSessions, DeliveriesKept

LEMMA DeliveriesUnchanged == PlaybackInv /\ deliveries' = deliveries => DeliveriesKept
  BY DEF PlaybackInv, TypeOK, DeliveriesOfSessions, DeliveriesKept

LEMMA NowKept == PlaybackInv /\ now' = now => now' \in Nat /\ now' >= now
  BY DEF PlaybackInv, TypeOK

(* Two fields of a row, written as deliverStream and the close route do. *)
LEMMA RowWritten ==
    ASSUME PlaybackInv, NEW s \in 1..sessionCount, NEW state \in Live \cup Terminal
    PROVE  /\ [sessions[s] EXCEPT !.state = state, !.leaseReleased = TRUE] \in Session
           /\ Updated(s, [sessions[s] EXCEPT !.state = state, !.leaseReleased = TRUE])
           /\ [sessions[s] EXCEPT !.state = state, !.leaseReleased = TRUE].leaseReleased
           /\ [sessions[s] EXCEPT !.state = state, !.leaseReleased = TRUE].bytes = sessions[s].bytes
           /\ [sessions[s] EXCEPT !.state = state] \in Session
           /\ [sessions[s] EXCEPT !.state = state].bytes = sessions[s].bytes
           /\ state \in Live => Updated(s, [sessions[s] EXCEPT !.state = state])
  <1>1. PICK row \in Session : row = sessions[s]
    BY SessionFacts
  <1>2. /\ [row EXCEPT !.state = state, !.leaseReleased = TRUE] \in Session
        /\ [row EXCEPT !.state = state] \in Session
    BY DEF Session
  <1>3. /\ [row EXCEPT !.state = state].bytes = row.bytes
        /\ [row EXCEPT !.state = state].state = state
        /\ [row EXCEPT !.state = state].leaseReleased = row.leaseReleased
        /\ [row EXCEPT !.state = state].owner = row.owner
        /\ [row EXCEPT !.state = state].track = row.track
        /\ [row EXCEPT !.state = state].key = row.key
        /\ [row EXCEPT !.state = state].expiresAt = row.expiresAt
    BY DEF Session
  <1>4. LET r == [row EXCEPT !.state = state, !.leaseReleased = TRUE] IN
            /\ r.leaseReleased = TRUE /\ r.bytes = row.bytes /\ r.owner = row.owner
            /\ r.track = row.track /\ r.key = row.key /\ r.expiresAt = row.expiresAt
    BY DEF Session
  <1> QED BY <1>1, <1>2, <1>3, <1>4 DEF Updated

(* Nothing is added to a session's evidence. *)
LEMMA NoEvidence ==
    ASSUME PlaybackInv, NEW s \in 1..sessionCount, evidence' = evidence
    PROVE  /\ evidence' = [evidence EXCEPT ![s] = @ + 0]
           /\ \A row \in Session : row.bytes = sessions[s].bytes => row.bytes = sessions[s].bytes + 0
  <1>1. s \in SIds /\ evidence \in [SIds -> Nat] /\ sessions[s].bytes \in Nat
    BY SessionFacts DEF PlaybackInv, TypeOK, Session
  <1> QED BY <1>1

(* Closing and expiring release the lease. *)
LEMMA ReleaseInv ==
    ASSUME PlaybackInv, NEW a \in Accounts, NEW s \in Owned(a), NEW state \in Terminal,
           sessions' = Released(s, state),
           UNCHANGED <<now, accounts, supporters, sessionCount, idempotency, authorized,
                       deliveries, evidence>>
    PROVE  PlaybackInv'
  <1> DEFINE row == [sessions[s] EXCEPT !.state = state, !.leaseReleased = TRUE]
  <1>1. s \in 1..sessionCount
    BY SessionFacts DEF Owned, Exists
  <1>2. row \in Session /\ Updated(s, row) /\ row.leaseReleased /\ row.bytes = sessions[s].bytes
    BY <1>1, RowWritten
  <1>3. sessions' = [sessions EXCEPT ![s] = row]
    BY DEF Released
  <1>4. evidence' = [evidence EXCEPT ![s] = @ + 0]
    BY <1>1, NoEvidence
  <1> HIDE DEF row
  <1>5. RowUpdated
    BY <1>1, <1>2, <1>3, <1>4 DEF RowUpdated
  <1>6. /\ Kept /\ DeliveriesKept /\ authorized' = authorized
        /\ accounts' \in [Accounts -> {"new", "present", "lost"}] /\ supporters' \subseteq Accounts
    BY NowKept, DeliveriesUnchanged DEF Kept, PlaybackInv, TypeOK
  <1> QED BY <1>5, <1>6, UpdateInv

(* The media is open: the row becomes STARTED, whatever it was. *)
LEMMA OpenedInv ==
    ASSUME PlaybackInv, NEW d \in Deliveries, StreamOpened(d) PROVE PlaybackInv'
  <1> DEFINE s == deliveries[d].session
             row == [sessions[s] EXCEPT !.state = "STARTED"]
  <1>1. s \in 1..sessionCount
    BY DeliveryFacts DEF StreamOpened
  <1>2. row \in Session /\ Updated(s, row) /\ row.bytes = sessions[s].bytes
    BY <1>1, RowWritten DEF Live
  <1>3. sessions' = [sessions EXCEPT ![s] = row]
    BY DEF StreamOpened, SessionState
  <1>4. evidence' = [evidence EXCEPT ![s] = @ + 0] /\ row.bytes = sessions[s].bytes + 0
    BY <1>1, <1>2, NoEvidence DEF StreamOpened
  <1>5. DeliveriesKept
    <2>1. PICK h \in Headers : \E r \in ParseSingleRange(h, MediaSize) :
            deliveries' = [deliveries EXCEPT ![d] =
                [pc |-> "streaming", session |-> s, bytes |-> 0, length |-> ContentLength(r)]]
      BY DEF StreamOpened
    <2>2. PICK r \in ParseSingleRange(h, MediaSize) :
            deliveries' = [deliveries EXCEPT ![d] =
                [pc |-> "streaming", session |-> s, bytes |-> 0, length |-> ContentLength(r)]]
      BY <2>1
    <2>3. ContentLength(r) \in Nat
      BY <2>1, <2>2, PlaybackAssumption, LengthFits
    <2>4. [pc |-> "streaming", session |-> s, bytes |-> 0, length |-> ContentLength(r)] \in Delivery
      BY <1>1, <2>3, SessionFacts DEF Delivery
    <2> QED BY <1>1, <2>2, <2>4, DeliveryReplaced
  <1> HIDE DEF row
  <1>6. RowUpdated
    BY <1>1, <1>2, <1>3, <1>4 DEF RowUpdated
  <1>7. /\ Kept /\ authorized' = authorized
        /\ accounts' \in [Accounts -> {"new", "present", "lost"}] /\ supporters' \subseteq Accounts
    BY NowKept DEF StreamOpened, Kept, PlaybackInv, TypeOK
  <1> QED BY <1>5, <1>6, <1>7, UpdateInv

(* The first callback of a delivery counts its bytes, for the evidence and,  *)
(* unless the row has ended, for the session: what has ended was released.   *)
LEMMA CallbackInv ==
    ASSUME PlaybackInv, NEW d \in Deliveries, DeliveryCallback(d) PROVE PlaybackInv'
  <1> DEFINE s == deliveries[d].session
             n == deliveries[d].bytes
  <1>1. s \in 1..sessionCount /\ n \in Nat
    BY DeliveryFacts DEF DeliveryCallback, NotRecorded
  <1>2. DeliveriesKept
    <2>1. PICK x \in Delivery : x = [deliveries[d] EXCEPT !.pc = "recorded"] /\ x.session = s
      BY DeliveryFacts DEF DeliveryCallback, NotRecorded
    <2>2. deliveries' = [deliveries EXCEPT ![d] = x]
      BY <2>1 DEF DeliveryCallback
    <2> QED BY <1>1, <2>1, <2>2, DeliveryReplaced
  <1>3. evidence' = [evidence EXCEPT ![s] = @ + n]
    BY DEF DeliveryCallback, EvidenceRecorded
  <1>4. RowUpdated
    <2>1. PICK old \in Session : old = sessions[s]
      BY <1>1, SessionFacts
    <2>2. s \in SIds /\ sessions \in [SIds -> Session \cup {NoSession}]
      BY <1>1, SessionFacts DEF PlaybackInv, TypeOK
    <2>3. CASE /\ Countable(s)
               /\ sessions' = [sessions EXCEPT ![s].bytes = @ + n, ![s].state = "ACTIVE"]
      <3> DEFINE row == [old EXCEPT !.bytes = @ + n, !.state = "ACTIVE"]
      <3>1. /\ row \in Session /\ row.bytes = old.bytes + n /\ row.state = "ACTIVE"
            /\ row.owner = old.owner /\ row.track = old.track /\ row.key = old.key
            /\ row.expiresAt = old.expiresAt /\ row.leaseReleased = old.leaseReleased
        <4>1. old.bytes + n \in Nat /\ "ACTIVE" \in Live \cup Terminal
          BY <1>1 DEF Session, Live
        <4> DEFINE m == old.bytes + n
        <4>2. row = [old EXCEPT !.bytes = m, !.state = "ACTIVE"] /\ m \in Nat
          BY <4>1
        <4> HIDE DEF m
        <4>3. [old EXCEPT !.bytes = m, !.state = "ACTIVE"] \in Session
          BY <4>1, <4>2 DEF Session
        <4>4. LET r == [old EXCEPT !.bytes = m, !.state = "ACTIVE"] IN
                  /\ r.bytes = m /\ r.state = "ACTIVE" /\ r.owner = old.owner
                  /\ r.track = old.track /\ r.key = old.key
                  /\ r.expiresAt = old.expiresAt /\ r.leaseReleased = old.leaseReleased
          BY DEF Session
        <4> QED BY <4>2, <4>3, <4>4 DEF m
      <3>2. sessions' = [sessions EXCEPT ![s] = row]
        BY <2>1, <2>2, <2>3
      <3> HIDE DEF row
      <3>3. Updated(s, row)
        BY <2>1, <3>1 DEF Updated, Live
      <3> QED BY <1>1, <1>3, <2>1, <3>1, <3>2, <3>3 DEF RowUpdated
    <2>4. CASE ~Countable(s) /\ UNCHANGED sessions
      <3>1. sessions' = [sessions EXCEPT ![s] = old]
        BY <2>1, <2>2, <2>4
      <3>2. old.state \notin Live
        BY <2>1, <2>4 DEF Countable, Live, Terminal
      <3>3. old.leaseReleased /\ Updated(s, old)
        BY <1>1, <2>1, <2>2, <3>2, SessionFacts DEF PlaybackInv, Unreleased, Updated
      <3> QED BY <1>1, <1>3, <2>1, <3>1, <3>3 DEF RowUpdated
    <2> QED BY <2>3, <2>4 DEF DeliveryCallback
  <1>5. /\ Kept /\ authorized' = authorized
        /\ accounts' \in [Accounts -> {"new", "present", "lost"}] /\ supporters' \subseteq Accounts
    BY NowKept DEF DeliveryCallback, Kept, PlaybackInv, TypeOK
  <1> QED BY <1>2, <1>4, <1>5, UpdateInv

(* A delivery that moves without touching a row. *)
LEMMA DeliveryInv ==
    ASSUME PlaybackInv, NEW d \in Deliveries,
           \/ StreamFailed(d) \/ Chunk(d)
           \/ \E a \in Accounts, s \in SIds : RequestStream(a, s, d)
    PROVE  PlaybackInv'
  <1>1. DeliveriesKept
    <2>1. CASE StreamFailed(d)
      <3>1. PICK x \in Delivery : x = [deliveries[d] EXCEPT !.pc = "failed"]
                                  /\ x.session \in 1..sessionCount
        BY <2>1, DeliveryFacts DEF StreamFailed
      <3> QED BY <2>1, <3>1, DeliveryReplaced DEF StreamFailed
    <2>2. CASE Chunk(d)
      <3>1. PICK x \in Delivery : x = [deliveries[d] EXCEPT !.bytes = @ + 1]
                                  /\ x.session \in 1..sessionCount
        BY <2>2, DeliveryFacts DEF Chunk
      <3>2. deliveries' = [deliveries EXCEPT ![d] = x]
        BY <2>2, <3>1 DEF Chunk, PlaybackInv, TypeOK
      <3> QED BY <3>1, <3>2, DeliveryReplaced
    <2>3. ASSUME NEW a \in Accounts, NEW s \in SIds, RequestStream(a, s, d) PROVE DeliveriesKept
      <3>1. s \in 1..sessionCount
        BY <2>3, SessionFacts DEF RequestStream, ActiveSessions, Owned, Exists
      <3>2. [pc |-> "opening", session |-> s, bytes |-> 0] \in Delivery
        BY DEF Delivery
      <3> QED BY <2>3, <3>1, <3>2, DeliveryReplaced DEF RequestStream
    <2> QED BY <2>1, <2>2, <2>3
  <1>2. /\ sessions' = sessions /\ evidence' = evidence /\ authorized' = authorized
        /\ now' = now /\ accounts' = accounts /\ supporters' = supporters
        /\ sessionCount' = sessionCount /\ idempotency' = idempotency
    BY DEF StreamFailed, Chunk, RequestStream
  <1>3. Kept
    BY <1>2, NowKept DEF Kept
  <1>4. /\ accounts' \in [Accounts -> {"new", "present", "lost"}] /\ supporters' \subseteq Accounts
        /\ authorized' \in Nat
    BY <1>2 DEF PlaybackInv, TypeOK
  <1> QED BY <1>1, <1>2, <1>3, <1>4, QuietInv

(* Time, accounts, tiers, and a restart, which loses what is being served. *)
LEMMA EnvironmentInv ==
    ASSUME PlaybackInv,
           \/ Tick \/ Restart \/ UNCHANGED vars
           \/ \E a \in Accounts : CreateAccount(a) \/ ActivateTier(a)
    PROVE  PlaybackInv'
  <1>1. DeliveriesKept
    <2>1. CASE Restart
      <3> SUFFICES ASSUME NEW d \in Deliveries
                   PROVE  /\ deliveries'[d] \in Delivery \cup {Idle}
                          /\ deliveries'[d] # Idle => deliveries'[d].session \in 1..sessionCount
        BY <2>1 DEF Restart, DeliveriesKept
      <3>1. CASE deliveries[d].pc \in {"opening", "streaming"}
        <4>1. PICK x \in Delivery : x = [deliveries[d] EXCEPT !.pc = "lost"]
                                    /\ x.session \in 1..sessionCount
          BY <3>1, DeliveryFacts
        <4> QED BY <2>1, <3>1, <4>1 DEF Restart
      <3>2. CASE deliveries[d].pc \notin {"opening", "streaming"}
        BY <2>1, <3>2 DEF Restart, PlaybackInv, TypeOK, DeliveriesOfSessions
      <3> QED BY <3>1, <3>2
    <2>2. CASE ~Restart
      BY <2>2, DeliveriesUnchanged DEF Tick, CreateAccount, ActivateTier, vars
    <2> QED BY <2>1, <2>2
  <1>2. /\ sessions' = sessions /\ evidence' = evidence /\ authorized' = authorized
        /\ sessionCount' = sessionCount /\ idempotency' = idempotency
    BY DEF Tick, Restart, CreateAccount, ActivateTier, vars
  <1>3. Kept
    BY <1>2 DEF Kept, Tick, Restart, CreateAccount, ActivateTier, vars, PlaybackInv, TypeOK
  <1>4. /\ accounts' \in [Accounts -> {"new", "present", "lost"}] /\ supporters' \subseteq Accounts
        /\ authorized' \in Nat
    BY <1>2 DEF Tick, Restart, CreateAccount, ActivateTier, vars, PlaybackInv, TypeOK
  <1> QED BY <1>1, <1>2, <1>3, <1>4, QuietInv

-----------------------------------------------------------------------------
(* createPlayback, when the adapter has a reference for the track: the       *)
(* account held no unreleased session that could still be played.            *)
LEMMA CreatedInv ==
    ASSUME PlaybackInv, NEW a \in Accounts, NEW k \in Keys, NEW t \in Tracks,
           CreatePlayback(a, k, t), Mapped(t)
    PROVE  PlaybackInv'
  <1> DEFINE s == sessionCount + 1
             row == [owner |-> a, track |-> t, key |-> k, state |-> "AUTHORIZED",
                     expiresAt |-> now + TTL, leaseReleased |-> FALSE, bytes |-> 0]
             entry == [session |-> s, track |-> t]
  <1>1. /\ FirstUse(a, k) /\ LeaseFree(a) /\ sessionCount < MaxSessions
        /\ sessionCount' = s /\ sessions' = [sessions EXCEPT ![s] = row]
        /\ idempotency' = [idempotency EXCEPT ![a][k] = entry] /\ authorized' = authorized + 1
        /\ now' = now /\ accounts' = accounts /\ supporters' = supporters
        /\ deliveries' = deliveries /\ evidence' = evidence
    BY DEF CreatePlayback, DecisionRecorded, SessionCreated, ResponseSaved
  <1>2. /\ s \in SIds /\ sessionCount \in Nat /\ now \in Nat /\ s \in 1..MaxSessions
        /\ sessions[s] = NoSession /\ evidence[s] = 0
    BY <1>1, SessionFacts DEF PlaybackInv, TypeOK, Numbered, SIds
  <1>3. row \in Session /\ row.leaseReleased = FALSE
    BY <1>2, PlaybackAssumption DEF Session, Live
  <1>4. /\ sessions' \in [SIds -> Session \cup {NoSession}] /\ sessions'[s] = row
        /\ \A u \in SIds \ {s} : sessions'[u] = sessions[u]
    BY <1>1, <1>2, <1>3 DEF PlaybackInv, TypeOK
  <1>5. /\ idempotency' \in [Accounts -> [Keys -> [session : SIds, track : Tracks] \cup {NoKey}]]
        /\ idempotency'[a][k] = entry
        /\ \A b \in Accounts, j \in Keys :
               b # a \/ j # k => idempotency'[b][j] = idempotency[b][j]
    BY <1>1, <1>2 DEF PlaybackInv, TypeOK
  <1>6. TypeOK'
    BY <1>1, <1>2, <1>4, <1>5 DEF PlaybackInv, TypeOK
  <1>7. Numbered' /\ DeliveriesOfSessions'
    <2>1. Numbered'
      BY <1>1, <1>2, <1>3, <1>4 DEF PlaybackInv, Numbered, SIds
    <2>2. DeliveriesOfSessions'
      BY <1>1, <1>2 DEF PlaybackInv, DeliveriesOfSessions
    <2> QED BY <2>1, <2>2
  <1>8. Unreleased'
    BY <1>4 DEF PlaybackInv, Unreleased, Exists, Live
  <1>9. OneUnexpired'
    <2>1. ASSUME NEW u \in SIds, u # s, Exists(u)', sessions'[u].owner = a, ~sessions'[u].leaseReleased
          PROVE  sessions'[u].expiresAt <= now
      <3>1. Exists(u) /\ sessions[u] \in Session /\ sessions'[u] = sessions[u]
        BY <1>4, <2>1, SessionFacts DEF Exists
      <3>2. sessions[u].state \in Live /\ u \in Owned(a)
        BY <2>1, <3>1 DEF PlaybackInv, Unreleased, Owned, Exists
      <3>3. ~(sessions[u].expiresAt > now)
        BY <1>1, <3>2 DEF LeaseFree, ActiveSessions
      <3> QED BY <1>2, <3>1, <3>3 DEF Session
    <2> SUFFICES ASSUME NEW u \in SIds, NEW v \in SIds, Exists(u)', Exists(v)', u # v,
                        sessions'[u].owner = sessions'[v].owner,
                        ~sessions'[u].leaseReleased, ~sessions'[v].leaseReleased
                 PROVE  sessions'[u].expiresAt <= now \/ sessions'[v].expiresAt <= now
      BY <1>1 DEF OneUnexpired
    <2>2. CASE u # s /\ v # s
      BY <1>4, <2>2 DEF PlaybackInv, OneUnexpired, Exists
    <2>3. CASE u = s
      BY <1>4, <2>1, <2>3
    <2>4. CASE v = s
      BY <1>4, <2>1, <2>4
    <2> QED BY <2>2, <2>3, <2>4
  <1>10. KeyCreatesOneSession'
    <2> SUFFICES ASSUME NEW u \in SIds, Exists(u)'
                 PROVE  idempotency'[sessions'[u].owner][sessions'[u].key] =
                            [session |-> u, track |-> sessions'[u].track]
      BY DEF KeyCreatesOneSession, Exists
    <2>1. CASE u = s
      BY <1>4, <1>5, <2>1
    <2>2. CASE u # s
      <3>1. /\ sessions'[u] = sessions[u] /\ Exists(u) /\ sessions[u].owner \in Accounts
            /\ sessions[u].key \in Keys
        BY <1>4, <2>2, SessionFacts DEF Exists, Session
      <3>2. idempotency[sessions[u].owner][sessions[u].key] =
                [session |-> u, track |-> sessions[u].track]
        BY <3>1 DEF PlaybackInv, KeyCreatesOneSession, Exists
      <3>3. sessions[u].owner # a \/ sessions[u].key # k
        <4>1. [session |-> u, track |-> sessions[u].track] # NoKey
          BY DEF NoKey, SIds
        <4> QED BY <1>1, <3>2, <4>1 DEF FirstUse, IdempotentResponse
      <3> QED BY <1>5, <3>1, <3>2, <3>3
    <2> QED BY <2>1, <2>2
  <1>11. BytesFollowEvidence'
    <2>1. sessions'[s].bytes = 0 /\ evidence'[s] = 0
      BY <1>1, <1>2, <1>4
    <2> QED BY <1>1, <1>4, <2>1 DEF PlaybackInv, BytesFollowEvidence, Exists
  <1> QED BY <1>6, <1>7, <1>8, <1>9, <1>10, <1>11 DEF PlaybackInv

LEMMA CreateInv ==
    ASSUME PlaybackInv, NEW a \in Accounts, NEW k \in Keys, NEW t \in Tracks,
           CreatePlayback(a, k, t)
    PROVE  PlaybackInv'
  <1>1. CASE Mapped(t)
    BY <1>1, CreatedInv
  <1>2. CASE ~Mapped(t)
    <2>1. /\ sessions' = sessions /\ evidence' = evidence /\ authorized' = authorized + 1
          /\ now' = now /\ accounts' = accounts /\ supporters' = supporters
          /\ sessionCount' = sessionCount /\ idempotency' = idempotency /\ deliveries' = deliveries
      BY <1>2 DEF CreatePlayback, DecisionRecorded
    <2>2. Kept /\ DeliveriesKept
      BY <2>1, NowKept, DeliveriesUnchanged DEF Kept
    <2>3. /\ accounts' \in [Accounts -> {"new", "present", "lost"}] /\ supporters' \subseteq Accounts
          /\ authorized' \in Nat
      BY <2>1 DEF PlaybackInv, TypeOK
    <2> QED BY <2>1, <2>2, <2>3, QuietInv
  <1> QED BY <1>1, <1>2

LEMMA StepInv == PlaybackInv /\ [Next]_vars => PlaybackInv'
  <1> SUFFICES ASSUME PlaybackInv, [Next]_vars PROVE PlaybackInv'
    OBVIOUS
  <1>1. CASE \/ Tick \/ Restart \/ UNCHANGED vars
             \/ \E a \in Accounts : CreateAccount(a) \/ ActivateTier(a)
    BY <1>1, EnvironmentInv
  <1>2. ASSUME NEW a \in Accounts, NEW k \in Keys, NEW t \in Tracks, CreatePlayback(a, k, t)
        PROVE  PlaybackInv'
    BY <1>2, CreateInv
  <1>3. ASSUME NEW a \in Accounts, NEW s \in SIds, CloseSession(a, s) \/ ExpireOnRequest(a, s)
        PROVE  PlaybackInv'
    BY <1>3, ReleaseInv DEF CloseSession, ExpireOnRequest, Terminal
  <1>4. ASSUME NEW d \in Deliveries,
               \/ StreamFailed(d) \/ Chunk(d)
               \/ \E a \in Accounts, s \in SIds : RequestStream(a, s, d)
        PROVE  PlaybackInv'
    BY <1>4, DeliveryInv
  <1>5. ASSUME NEW d \in Deliveries, StreamOpened(d) \/ DeliveryCallback(d) PROVE PlaybackInv'
    BY <1>5, OpenedInv, CallbackInv
  <1> QED BY <1>1, <1>2, <1>3, <1>4, <1>5 DEF Next

THEOREM PlaybackHolds == Spec => []PlaybackInv
  <1> QED BY InitInv, StepInv, PTL DEF Spec

(* The rows of playback_sessions, idempotency_keys and delivery_evidence and *)
(* the deliveries being served are well typed in every reachable state.      *)
THEOREM TypeCorrect == Spec => []TypeOK
  <1>1. PlaybackInv => TypeOK
    BY DEF PlaybackInv
  <1> QED BY <1>1, PlaybackHolds, PTL

(* createPlayback grants an account one concurrency lease: of the sessions   *)
(* activeSessionForOwner would find, at most one was never released,         *)
(* although a delivery may revive a released one (StreamOpened).             *)
THEOREM OneLease == Spec => []LeaseIsExclusive
  <1>1. PlaybackInv => LeaseIsExclusive
    <2> SUFFICES ASSUME PlaybackInv, NEW a \in Accounts,
                        NEW s \in ActiveSessions(a), NEW t \in ActiveSessions(a),
                        ~sessions[s].leaseReleased, ~sessions[t].leaseReleased, s # t
                 PROVE  FALSE
      BY DEF LeaseIsExclusive
    <2>1. /\ s \in SIds /\ t \in SIds /\ Exists(s) /\ Exists(t)
          /\ sessions[s].owner = a /\ sessions[t].owner = a
          /\ sessions[s].expiresAt > now /\ sessions[t].expiresAt > now
      BY DEF ActiveSessions, Owned, Exists
    <2>2. sessions[s].expiresAt \in Nat /\ sessions[t].expiresAt \in Nat /\ now \in Nat
      BY <2>1, SessionFacts DEF Session, PlaybackInv, TypeOK
    <2> QED BY <2>1, <2>2 DEF PlaybackInv, OneUnexpired
  <1> QED BY <1>1, PlaybackHolds, PTL

(* An idempotency key creates one session, and its saved response names it.  *)
THEOREM KeyIsIdempotent == Spec => []KeyCreatesOneSession
  <1>1. PlaybackInv => KeyCreatesOneSession
    BY DEF PlaybackInv
  <1> QED BY <1>1, PlaybackHolds, PTL

(* The byte count of a session is the sum of the evidence recorded for it    *)
(* until its lease is released, and never more: record() skips a session     *)
(* only when it has ended.                                                   *)
THEOREM BytesAreEvidence == Spec => []BytesFollowEvidence
  <1>1. PlaybackInv => BytesFollowEvidence
    BY DEF PlaybackInv
  <1> QED BY <1>1, PlaybackHolds, PTL

-----------------------------------------------------------------------------
(* What was sent for a session: the deliveries recorded, each at its bytes. *)
Sent(s) == [d \in Deliveries |-> IF d \in Recorded(s) THEN deliveries[d].bytes ELSE 0]

EvidenceIsTheSum == \A s \in SIds : evidence[s] = SumFunctionOnSet(Sent(s), Deliveries)

LEMMA SumInit == Init => EvidenceIsTheSum
  <1> SUFFICES ASSUME Init, NEW s \in SIds PROVE evidence[s] = SumFunctionOnSet(Sent(s), Deliveries)
    BY DEF EvidenceIsTheSum
  <1>1. \A d \in Deliveries : Sent(s)[d] = 0
    BY DEF Init, Sent, Recorded, Idle
  <1>2. SumFunctionOnSet(Sent(s), Deliveries) = 0
    BY <1>1, PlaybackAssumption, SumZero
  <1> QED BY <1>2 DEF Init

(* A delivery that is recorded stays as it is, and none is recorded anew. *)
LEMMA NothingRecorded ==
    ASSUME EvidenceIsTheSum, evidence' = evidence,
           \A d \in Deliveries :
              /\ deliveries'[d].pc = "recorded" <=> deliveries[d].pc = "recorded"
              /\ deliveries[d].pc = "recorded" => deliveries'[d] = deliveries[d]
    PROVE  EvidenceIsTheSum'
  <1>1. \A s \in SIds : Sent(s)' = Sent(s)
    BY DEF Sent, Recorded
  <1> QED BY <1>1 DEF EvidenceIsTheSum

LEMMA SumCallback ==
    ASSUME PlaybackInv, EvidenceIsTheSum, NEW d \in Deliveries, DeliveryCallback(d)
    PROVE  EvidenceIsTheSum'
  <1>1. PICK x : x = deliveries[d]
    OBVIOUS
  <1>2. /\ x.pc = "streaming" /\ x.session \in SIds /\ x.bytes \in Nat
        /\ x \in [pc : {"streaming", "recorded", "lost"}, session : SIds, bytes : Nat, length : Nat]
    BY <1>1 DEF DeliveryCallback, NotRecorded, PlaybackInv, TypeOK, Delivery, Idle
  <1>3. /\ [x EXCEPT !.pc = "recorded"].pc = "recorded"
        /\ [x EXCEPT !.pc = "recorded"].session = x.session
        /\ [x EXCEPT !.pc = "recorded"].bytes = x.bytes
    BY <1>2
  <1>4. /\ deliveries'[d] = [x EXCEPT !.pc = "recorded"]
        /\ \A e \in Deliveries : e # d => deliveries'[e] = deliveries[e]
    BY <1>1 DEF DeliveryCallback, PlaybackInv, TypeOK
  <1>5. /\ evidence'[x.session] = evidence[x.session] + x.bytes
        /\ \A s \in SIds : s # x.session => evidence'[s] = evidence[s]
    BY <1>1, <1>2 DEF DeliveryCallback, EvidenceRecorded, PlaybackInv, TypeOK
  <1>6. SUFFICES ASSUME NEW s \in SIds
                 PROVE  evidence'[s] = SumFunctionOnSet(Sent(s)', Deliveries)
    BY DEF EvidenceIsTheSum
  <1>7. /\ Sent(s)[d] = 0
        /\ Sent(s)'[d] = IF s = x.session THEN x.bytes ELSE 0
        /\ \A e \in Deliveries \ {d} : Sent(s)'[e] = Sent(s)[e]
    BY <1>1, <1>2, <1>3, <1>4 DEF Sent, Recorded
  <1>8. \A e \in Deliveries : Sent(s)[e] \in Int
    <2> SUFFICES ASSUME NEW e \in Deliveries PROVE Sent(s)[e] \in Int
      OBVIOUS
    <2>1. deliveries[e].pc = "recorded" => deliveries[e].bytes \in Nat
      BY DEF PlaybackInv, TypeOK, Delivery, Idle
    <2> QED BY <2>1 DEF Sent, Recorded
  <1>9. SumFunctionOnSet(Sent(s)', Deliveries)
          = SumFunctionOnSet(Sent(s), Deliveries) - Sent(s)[d] + Sent(s)'[d]
    <2>1. Sent(s)'[d] \in Int
      BY <1>2, <1>7
    <2> QED BY <1>7, <1>8, <2>1, PlaybackAssumption, SumChanged
  <1>10. evidence[s] = SumFunctionOnSet(Sent(s), Deliveries) /\ evidence[s] \in Nat
    BY DEF EvidenceIsTheSum, PlaybackInv, TypeOK
  <1> QED BY <1>2, <1>5, <1>7, <1>9, <1>10

LEMMA SumInv == PlaybackInv /\ EvidenceIsTheSum /\ [Next]_vars => EvidenceIsTheSum'
  <1> SUFFICES ASSUME PlaybackInv, EvidenceIsTheSum, [Next]_vars PROVE EvidenceIsTheSum'
    OBVIOUS
  <1>0. DOMAIN deliveries = Deliveries
    BY DEF PlaybackInv, TypeOK
  <1>1. ASSUME UNCHANGED <<deliveries, evidence>> PROVE EvidenceIsTheSum'
    BY <1>1, NothingRecorded
  <1>2. CASE Restart
    <2>1. \A d \in Deliveries :
              /\ deliveries'[d].pc = "recorded" <=> deliveries[d].pc = "recorded"
              /\ deliveries[d].pc = "recorded" => deliveries'[d] = deliveries[d]
      <3> SUFFICES ASSUME NEW d \in Deliveries
                   PROVE  /\ deliveries'[d].pc = "recorded" <=> deliveries[d].pc = "recorded"
                          /\ deliveries[d].pc = "recorded" => deliveries'[d] = deliveries[d]
        OBVIOUS
      <3>1. CASE deliveries[d].pc \in {"opening", "streaming"}
        <4>1. PICK x : x = deliveries[d]
          OBVIOUS
        <4>2. x \in Delivery
          BY <3>1, <4>1 DEF PlaybackInv, TypeOK, Idle
        <4>3. [x EXCEPT !.pc = "lost"].pc = "lost"
          BY <4>2 DEF Delivery
        <4>4. deliveries'[d] = [x EXCEPT !.pc = "lost"]
          BY <1>2, <3>1, <4>1 DEF Restart
        <4> QED BY <3>1, <4>3, <4>4
      <3>2. CASE deliveries[d].pc \notin {"opening", "streaming"}
        BY <1>2, <3>2 DEF Restart
      <3> QED BY <3>1, <3>2
    <2> QED BY <1>2, <2>1, NothingRecorded DEF Restart
  <1>3. ASSUME NEW d \in Deliveries, NEW x, deliveries' = [deliveries EXCEPT ![d] = x],
               x.pc # "recorded", deliveries[d].pc # "recorded", evidence' = evidence
        PROVE  EvidenceIsTheSum'
    <2>1. \A e \in Deliveries :
              /\ deliveries'[e].pc = "recorded" <=> deliveries[e].pc = "recorded"
              /\ deliveries[e].pc = "recorded" => deliveries'[e] = deliveries[e]
      BY <1>0, <1>3
    <2> QED BY <1>3, <2>1, NothingRecorded
  <1>4. ASSUME NEW a \in Accounts, NEW s \in SIds, NEW d \in Deliveries, RequestStream(a, s, d)
        PROVE  EvidenceIsTheSum'
    <2> DEFINE x == [pc |-> "opening", session |-> s, bytes |-> 0]
    <2>1. x.pc # "recorded"
      OBVIOUS
    <2>2. deliveries[d].pc # "recorded" /\ deliveries' = [deliveries EXCEPT ![d] = x]
          /\ evidence' = evidence
      BY <1>4 DEF RequestStream, Idle
    <2> HIDE DEF x
    <2> QED BY <1>3, <2>1, <2>2
  <1>5. ASSUME NEW d \in Deliveries, StreamOpened(d) PROVE EvidenceIsTheSum'
    <2>1. PICK h \in Headers : \E r \in ParseSingleRange(h, MediaSize) :
            deliveries' = [deliveries EXCEPT ![d] =
              [pc |-> "streaming", session |-> deliveries[d].session, bytes |-> 0,
               length |-> ContentLength(r)]]
      BY <1>5 DEF StreamOpened
    <2>2. PICK r \in ParseSingleRange(h, MediaSize) :
            deliveries' = [deliveries EXCEPT ![d] =
              [pc |-> "streaming", session |-> deliveries[d].session, bytes |-> 0,
               length |-> ContentLength(r)]]
      BY <2>1
    <2> DEFINE x == [pc |-> "streaming", session |-> deliveries[d].session, bytes |-> 0,
                     length |-> ContentLength(r)]
    <2>3. x.pc # "recorded" /\ deliveries[d].pc # "recorded" /\ evidence' = evidence
      BY <1>5 DEF StreamOpened
    <2>4. deliveries' = [deliveries EXCEPT ![d] = x]
      BY <2>2
    <2> HIDE DEF x
    <2> QED BY <1>3, <2>3, <2>4
  <1>6. ASSUME NEW d \in Deliveries, StreamFailed(d) PROVE EvidenceIsTheSum'
    <2>1. PICK x : x = deliveries[d]
      OBVIOUS
    <2>2. x \in Delivery /\ x.pc = "opening"
      BY <1>6, <2>1 DEF StreamFailed, PlaybackInv, TypeOK, Idle
    <2>3. [x EXCEPT !.pc = "failed"].pc = "failed"
      BY <2>2 DEF Delivery
    <2>4. deliveries' = [deliveries EXCEPT ![d] = [x EXCEPT !.pc = "failed"]] /\ evidence' = evidence
      BY <1>6, <2>1 DEF StreamFailed
    <2> QED BY <1>3, <2>1, <2>2, <2>3, <2>4
  <1>7. ASSUME NEW d \in Deliveries, Chunk(d) PROVE EvidenceIsTheSum'
    <2>1. PICK x : x = deliveries[d]
      OBVIOUS
    <2>2. x \in Delivery /\ x.pc = "streaming"
      BY <1>7, <2>1 DEF Chunk, PlaybackInv, TypeOK, Idle
    <2>3. [x EXCEPT !.bytes = @ + 1].pc = "streaming"
      BY <2>2 DEF Delivery
    <2>4. deliveries' = [deliveries EXCEPT ![d] = [x EXCEPT !.bytes = @ + 1]] /\ evidence' = evidence
      BY <1>7, <2>1 DEF Chunk
    <2> QED BY <1>3, <2>1, <2>2, <2>3, <2>4
  <1>8. CASE \E a \in Accounts :
                \/ CreateAccount(a) \/ ActivateTier(a)
                \/ \E k \in Keys, t \in Tracks : CreatePlayback(a, k, t)
                \/ \E s \in SIds : CloseSession(a, s) \/ ExpireOnRequest(a, s)
    BY <1>1, <1>8 DEF CreateAccount, ActivateTier, CreatePlayback, CloseSession, ExpireOnRequest
  <1>9. CASE Tick \/ UNCHANGED vars
    BY <1>1, <1>9 DEF Tick, vars
  <1> QED BY <1>2, <1>4, <1>5, <1>6, <1>7, <1>8, <1>9, SumCallback DEF Next

(* The evidence of a session is the sum of what its recorded deliveries      *)
(* sent, each counted once whichever of end, abort and close came first, and *)
(* the session's own count is that sum until its lease is released.          *)
THEOREM EvidenceOfTheRecorded == Spec => []EvidenceIsRecordedOnce
  <1>1. PlaybackInv /\ EvidenceIsTheSum => EvidenceIsRecordedOnce
    BY DEF PlaybackInv, EvidenceIsTheSum, BytesFollowEvidence, EvidenceIsRecordedOnce, Exists, Sent
  <1> QED BY <1>1, SumInit, SumInv, PlaybackHolds, PTL DEF Spec

-----------------------------------------------------------------------------
(* The page (Player) as a client: every step of its behaviours is one of the *)
(* gateway's, or none.                                                       *)

Call == [pc : {"closing", "creating", "created", "starting", "ended"}, track : Tracks,
         session : 0..MaxSessions]

PlayerTypes ==
    /\ plays \in [Plays -> Call \cup {NotCalled}]
    /\ held \in 0..sessionCount
    /\ \A p \in Plays : plays[p].pc \in {"closing", "created"} => plays[p].session \in 1..sessionCount

(* A lease the gateway still counts. *)
Lease(s) == Exists(s) /\ ~sessions[s].leaseReleased /\ sessions[s].expiresAt > now

Known(s) ==
    \/ s = held \/ s \in forgotten
    \/ \E p \in Plays : plays[p].pc \in {"closing", "created"} /\ plays[p].session = s

(* A session on its way to the page is nobody else's, so nobody deletes it. *)
Expected(p) ==
    LET s == plays[p].session IN
    /\ s # held
    /\ \A q \in Plays : q # p /\ plays[q].pc \in {"closing", "created"} => plays[q].session # s
    /\ sessions[s].leaseReleased => sessions[s].expiresAt <= now

PlayerInv ==
    /\ PlaybackInv /\ PlayerTypes /\ OneAccount
    /\ \A p \in Plays : plays[p].pc = "created" => Expected(p)
    /\ \A s \in SIds : Lease(s) => Known(s)

LEMMA PlayerInitInv ==
    ASSUME OneAccount, PlayerInit
    PROVE  PlayerInv
  <1>1. PlaybackInv
    BY InitInv DEF PlayerInit
  <1>2. \A p \in Plays : plays[p] = NotCalled /\ plays[p].pc = "idle"
    BY DEF PlayerInit, NotCalled
  <1>3. PlayerTypes
    BY <1>2 DEF PlayerInit, Init, PlayerTypes
  <1>4. \A s \in SIds : ~Exists(s)
    BY DEF PlayerInit, Init, Exists, NoSession
  <1> QED BY <1>1, <1>2, <1>3, <1>4 DEF PlayerInv, Lease

(* What becomes of the rows while the page waits: none is inserted, and a    *)
(* lease is released only when it is over.                                   *)
RowsKept ==
    /\ sessionCount' = sessionCount /\ now' \in Nat /\ now' >= now
    /\ \A s \in SIds : Exists(s)' => Exists(s)
    /\ \A s \in SIds : Exists(s) =>
         /\ sessions'[s].expiresAt = sessions[s].expiresAt
         /\ sessions[s].leaseReleased => sessions'[s].leaseReleased
         /\ sessions'[s].leaseReleased => sessions[s].leaseReleased \/ sessions[s].expiresAt <= now

LEMMA RowsUnchanged ==
    ASSUME PlaybackInv, UNCHANGED <<sessionCount, sessions>>, now' \in {now, now + 1}
    PROVE  RowsKept
  BY DEF RowsKept, Exists, PlaybackInv, TypeOK

LEMMA OneRow ==
    ASSUME PlaybackInv, UNCHANGED <<now, sessionCount>>, NEW s \in 1..sessionCount, NEW row,
           sessions' = [sessions EXCEPT ![s] = row], row.expiresAt = sessions[s].expiresAt,
           \/ row.leaseReleased = sessions[s].leaseReleased
           \/ row.leaseReleased /\ sessions[s].expiresAt <= now
    PROVE  RowsKept
  <1>1. s \in SIds /\ Exists(s) /\ now \in Nat
    BY SessionFacts DEF PlaybackInv, TypeOK
  <1>2. sessions'[s] = row /\ \A t \in SIds : t # s => sessions'[t] = sessions[t]
    BY <1>1 DEF PlaybackInv, TypeOK
  <1> QED BY <1>1, <1>2 DEF RowsKept, Exists

LEMMA GatewayKeeps ==
    ASSUME PlaybackInv,
           GatewayStep \/ \E a \in Accounts, s \in SIds, d \in Deliveries : RequestStream(a, s, d)
    PROVE  RowsKept /\ Next
  <1>0. now \in Nat /\ now' \in {now, now + 1}
    BY DEF GatewayStep, Tick, CreateAccount, ExpireOnRequest, StreamOpened, StreamFailed, Chunk,
           DeliveryCallback, RequestStream, PlaybackInv, TypeOK
  <1>1. CASE Tick \/ \E a \in Accounts : CreateAccount(a)
    BY <1>0, <1>1, RowsUnchanged DEF Tick, CreateAccount, Next
  <1>2. CASE \E a \in Accounts, s \in SIds, d \in Deliveries : RequestStream(a, s, d)
    BY <1>0, <1>2, RowsUnchanged DEF RequestStream, Next
  <1>3. CASE \E d \in Deliveries : StreamFailed(d) \/ Chunk(d)
    BY <1>0, <1>3, RowsUnchanged DEF StreamFailed, Chunk, Next
  <1>4. ASSUME NEW a \in Accounts, NEW s \in SIds, ExpireOnRequest(a, s) PROVE RowsKept
    <2>1. s \in 1..sessionCount /\ sessions[s].expiresAt <= now
      BY <1>4, SessionFacts DEF ExpireOnRequest, Owned, Exists
    <2>2. PICK row \in Session : row = sessions[s]
      BY <2>1, SessionFacts
    <2>3. PICK new : /\ new = [row EXCEPT !.state = "EXPIRED", !.leaseReleased = TRUE]
                     /\ new.leaseReleased /\ new.expiresAt = row.expiresAt
      <3>1. LET new == [row EXCEPT !.state = "EXPIRED", !.leaseReleased = TRUE] IN
              new.leaseReleased /\ new.expiresAt = row.expiresAt
        BY DEF Session
      <3> QED BY <3>1
    <2>4. sessions' = [sessions EXCEPT ![s] = new] /\ UNCHANGED <<now, sessionCount>>
      BY <1>4, <2>2, <2>3 DEF ExpireOnRequest, Released
    <2> QED BY <2>1, <2>2, <2>3, <2>4, OneRow
  <1>5. ASSUME NEW d \in Deliveries, StreamOpened(d) PROVE RowsKept
    <2>1. PICK s \in 1..sessionCount : s = deliveries[d].session
      BY <1>5, DeliveryFacts DEF StreamOpened
    <2>2. PICK row \in Session : row = sessions[s]
      BY <2>1, SessionFacts
    <2>3. PICK new : /\ new = [row EXCEPT !.state = "STARTED"]
                     /\ new.leaseReleased = row.leaseReleased /\ new.expiresAt = row.expiresAt
      <3>1. LET new == [row EXCEPT !.state = "STARTED"] IN
              new.leaseReleased = row.leaseReleased /\ new.expiresAt = row.expiresAt
        BY DEF Session
      <3> QED BY <3>1
    <2>4. sessions' = [sessions EXCEPT ![s] = new] /\ UNCHANGED <<now, sessionCount>>
      BY <1>5, <2>1, <2>2, <2>3 DEF StreamOpened, SessionState
    <2> QED BY <2>1, <2>2, <2>3, <2>4, OneRow
  <1>6. ASSUME NEW d \in Deliveries, DeliveryCallback(d) PROVE RowsKept
    <2>1. PICK s \in 1..sessionCount : s = deliveries[d].session
      BY <1>6, DeliveryFacts DEF DeliveryCallback, NotRecorded
    <2>2. CASE UNCHANGED sessions
      BY <1>0, <1>6, <2>2, RowsUnchanged DEF DeliveryCallback
    <2>3. CASE ~UNCHANGED sessions
      <3>1. PICK row \in Session : row = sessions[s]
        BY <2>1, SessionFacts
      <3>2. PICK n : n = deliveries[d].bytes
        OBVIOUS
      <3>3. PICK new : /\ new = [row EXCEPT !.bytes = @ + n, !.state = "ACTIVE"]
                       /\ new.leaseReleased = row.leaseReleased /\ new.expiresAt = row.expiresAt
        <4>1. LET new == [row EXCEPT !.bytes = @ + n, !.state = "ACTIVE"] IN
                new.leaseReleased = row.leaseReleased /\ new.expiresAt = row.expiresAt
          BY DEF Session
        <4> QED BY <4>1
      <3>4. sessions' = [sessions EXCEPT ![s] = new] /\ UNCHANGED <<now, sessionCount>>
        BY <1>6, <2>1, <2>3, <3>1, <3>2, <3>3 DEF DeliveryCallback
      <3> QED BY <2>1, <3>1, <3>3, <3>4, OneRow
    <2> QED BY <2>2, <2>3
  <1> QED BY <1>1, <1>2, <1>3, <1>4, <1>5, <1>6 DEF GatewayStep, Next

LEMMA PlayerWaits ==
    ASSUME PlayerInv, PlaybackInv', RowsKept, UNCHANGED playerVars
    PROVE  PlayerInv'
  <1>1. UNCHANGED <<plays, held, forgotten>>
    BY DEF playerVars
  <1>2. PlayerTypes'
    BY <1>1 DEF PlayerInv, PlayerTypes, RowsKept
  <1>3. ASSUME NEW p \in Plays, plays[p].pc = "created" PROVE Expected(p)'
    <2>1. PICK s \in 1..sessionCount : s = plays[p].session
      BY <1>3 DEF PlayerInv, PlayerTypes
    <2>2. /\ s \in SIds /\ Exists(s) /\ sessions[s].expiresAt \in Nat /\ now \in Nat
          /\ now' \in Nat /\ now' >= now
      BY SessionFacts DEF PlayerInv, PlaybackInv, TypeOK, Session, RowsKept
    <2>3. sessions'[s].leaseReleased => sessions'[s].expiresAt <= now'
      BY <1>3, <2>1, <2>2 DEF RowsKept, PlayerInv, Expected
    <2> QED BY <1>1, <1>3, <2>1, <2>3 DEF PlayerInv, Expected
  <1>4. ASSUME NEW s \in SIds, Lease(s)' PROVE Known(s)'
    <2>1. Exists(s) /\ sessions[s].expiresAt \in Nat /\ now \in Nat /\ now' \in Nat /\ now' >= now
      BY <1>4, SessionFacts DEF Lease, RowsKept, PlayerInv, PlaybackInv, TypeOK, Session
    <2>2. Lease(s)
      BY <1>4, <2>1 DEF Lease, Exists, RowsKept
    <2> QED BY <1>1, <2>2 DEF PlayerInv, Known
  <1> QED BY <1>1, <1>2, <1>3, <1>4 DEF PlayerInv

(* A call goes on, and no row changes: who knew of a lease passes it on. *)
LEMMA CallStep ==
    ASSUME PlayerInv, PlaybackInv', UNCHANGED <<now, sessionCount, sessions>>,
           NEW p \in Plays, NEW c \in Call, plays' = [plays EXCEPT ![p] = c],
           c.pc # "created", c.pc = "closing" => c.session = held /\ held # 0,
           held' \in {0, held} \/ (held' = plays[p].session /\ plays[p].pc = "created"),
           forgotten \subseteq forgotten',
           \A s \in SIds :
              Lease(s) /\ (s = held \/ (plays[p].pc \in {"closing", "created"} /\ plays[p].session = s)) =>
                  s = held' \/ s \in forgotten' \/ (c.pc = "closing" /\ c.session = s)
    PROVE  PlayerInv'
  <1>1. plays'[p] = c /\ \A q \in Plays : q # p => plays'[q] = plays[q]
    BY DEF PlayerInv, PlayerTypes
  <1>2. sessionCount \in Nat /\ sessionCount' = sessionCount /\ 0 \in 0..sessionCount
    BY SessionFacts DEF PlayerInv
  <1>3. PlayerTypes'
    <2>1. held' \in 0..sessionCount
      BY <1>2 DEF PlayerInv, PlayerTypes
    <2>2. c.pc = "closing" => c.session \in 1..sessionCount
      BY <1>2 DEF PlayerInv, PlayerTypes
    <2> QED BY <1>1, <1>2, <2>1, <2>2 DEF PlayerInv, PlayerTypes
  <1>4. ASSUME NEW q \in Plays, plays'[q].pc = "created" PROVE Expected(q)'
    <2>1. q # p /\ plays'[q] = plays[q] /\ plays[q].pc = "created"
      BY <1>1, <1>4
    <2>2. PICK s \in 1..sessionCount : s = plays[q].session
      BY <2>1 DEF PlayerInv, PlayerTypes
    <2>3. /\ s # held /\ (sessions[s].leaseReleased => sessions[s].expiresAt <= now)
          /\ \A r \in Plays : r # q /\ plays[r].pc \in {"closing", "created"} => plays[r].session # s
      BY <2>1, <2>2 DEF PlayerInv, Expected
    <2>4. s # held'
      BY <1>2, <2>1, <2>2, <2>3
    <2>5. \A r \in Plays : r # q /\ plays'[r].pc \in {"closing", "created"} => plays'[r].session # s
      BY <1>1, <2>3
    <2> QED BY <2>1, <2>2, <2>3, <2>4, <2>5 DEF Expected
  <1>5. ASSUME NEW s \in SIds, Lease(s)' PROVE Known(s)'
    <2>1. Lease(s) /\ Known(s)
      BY <1>5 DEF PlayerInv, Lease, Exists
    <2>2. CASE s = held \/ (plays[p].pc \in {"closing", "created"} /\ plays[p].session = s)
      BY <1>1, <2>1, <2>2 DEF Known
    <2>3. CASE s \in forgotten
      BY <2>3 DEF Known
    <2>4. CASE \E q \in Plays : q # p /\ plays[q].pc \in {"closing", "created"} /\ plays[q].session = s
      BY <1>1, <2>4 DEF Known
    <2> QED BY <2>1, <2>2, <2>3, <2>4 DEF Known
  <1> QED BY <1>3, <1>4, <1>5 DEF PlayerInv

(* The call as a record that awaits something else. *)
LEMMA CallRecord ==
    ASSUME PlayerInv, NEW p \in Plays, plays[p].pc # "idle",
           NEW pc \in {"creating", "starting", "ended"}, Awaits(p, pc)
    PROVE  \E c \in Call : /\ c.pc = pc /\ c.session = plays[p].session
                           /\ plays' = [plays EXCEPT ![p] = c]
  <1>1. PICK y \in Call : y = plays[p]
    BY DEF PlayerInv, PlayerTypes, NotCalled
  <1>2. LET c == [y EXCEPT !.pc = pc] IN c \in Call /\ c.pc = pc /\ c.session = y.session
    BY DEF Call
  <1> QED BY <1>1, <1>2 DEF Awaits

LEMMA StillVars == PlayerInv /\ UNCHANGED vars => PlaybackInv' /\ UNCHANGED <<now, sessionCount, sessions>>
  BY StepInv DEF PlayerInv, vars

LEMMA PlayTrackStep ==
    ASSUME PlayerInv, NEW p \in Plays, NEW t \in Tracks, PlayTrack(p, t)
    PROVE  PlayerInv'
  <1>1. PICK c : c = [pc |-> FirstAwait, track |-> t, session |-> held]
    OBVIOUS
  <1>2. /\ c \in Call /\ c.pc = FirstAwait /\ c.session = held /\ c.pc \in {"closing", "creating"}
        /\ c.pc = "closing" <=> held # 0
    <2>1. held \in 0..MaxSessions
      BY SessionFacts DEF PlayerInv, PlayerTypes
    <2> QED BY <1>1, <2>1 DEF Call, FirstAwait
  <1>3. plays' = [plays EXCEPT ![p] = c] /\ held' = 0 /\ UNCHANGED vars /\ forgotten' = forgotten
        /\ plays[p].pc = "idle"
    BY <1>1 DEF PlayTrack, NotCalled
  <1>4. \A s \in SIds : s # 0
    BY DEF SIds
  <1> QED BY <1>2, <1>3, <1>4, StillVars, CallStep

LEMMA FailureStep ==
    ASSUME PlayerInv, NEW p \in Plays,
           CloseLost(p) \/ CreateRefused(p) \/ AnswerLost(p) \/ Started(p)
    PROVE  PlayerInv'
  <1>1. CASE CloseLost(p)
    <2>1. /\ plays[p].pc = "closing" /\ Awaits(p, "creating") /\ UNCHANGED <<vars, held>>
          /\ forgotten' = forgotten \cup {plays[p].session}
      BY <1>1 DEF CloseLost
    <2>2. PICK c \in Call : /\ c.pc = "creating" /\ c.session = plays[p].session
                            /\ plays' = [plays EXCEPT ![p] = c]
      BY <2>1, CallRecord
    <2> QED BY <2>1, <2>2, StillVars, CallStep
  <1>2. CASE CreateRefused(p) \/ Started(p)
    <2>1. /\ plays[p].pc \in {"creating", "starting"} /\ Awaits(p, "ended")
          /\ UNCHANGED <<vars, held, forgotten>>
      BY <1>2 DEF CreateRefused, Started, Ends
    <2>2. PICK c \in Call : /\ c.pc = "ended" /\ c.session = plays[p].session
                            /\ plays' = [plays EXCEPT ![p] = c]
      BY <2>1, CallRecord
    <2> QED BY <2>1, <2>2, StillVars, CallStep
  <1>3. CASE AnswerLost(p)
    <2>1. /\ plays[p].pc = "created" /\ Awaits(p, "ended") /\ UNCHANGED <<vars, held>>
          /\ forgotten' = forgotten \cup {plays[p].session}
      BY <1>3 DEF AnswerLost, Ends
    <2>2. PICK c \in Call : /\ c.pc = "ended" /\ c.session = plays[p].session
                            /\ plays' = [plays EXCEPT ![p] = c]
      BY <2>1, CallRecord
    <2> QED BY <2>1, <2>2, StillVars, CallStep
  <1> QED BY <1>1, <1>2, <1>3

(* The session just answered is a lease still counted, unless it is over:    *)
(* then no other session of the account is one.                              *)
LEMMA LoadedStep ==
    ASSUME PlayerInv, NEW p \in Plays, Loaded(p)
    PROVE  PlayerInv'
  <1>1. PICK s \in 1..sessionCount : s = plays[p].session
    BY DEF Loaded, PlayerInv, PlayerTypes
  <1>2. /\ plays[p].pc = "created" /\ Awaits(p, "starting") /\ held' = s /\ UNCHANGED vars
        /\ forgotten' = forgotten \cup (IF sessions[s].expiresAt <= now THEN {held} ELSE {})
    BY <1>1 DEF Loaded
  <1>3. PICK c \in Call : /\ c.pc = "starting" /\ c.session = plays[p].session
                          /\ plays' = [plays EXCEPT ![p] = c]
    BY <1>2, CallRecord
  <1>4. ASSUME NEW h \in SIds, Lease(h), h = held PROVE h \in forgotten'
    <2>1. s \in SIds /\ Exists(s) /\ sessions[s] \in Session /\ sessions[h] \in Session
      BY <1>4, SessionFacts DEF PlayerInv, Lease
    <2>2. sessions[s].owner = sessions[h].owner
      BY <2>1 DEF Session, PlayerInv, OneAccount
    <2>3. s # h /\ (sessions[s].leaseReleased => sessions[s].expiresAt <= now)
      BY <1>1, <1>2, <1>4 DEF PlayerInv, Expected
    <2>4. sessions[s].expiresAt \in Nat /\ sessions[h].expiresAt \in Nat /\ now \in Nat
      BY <2>1 DEF Session, PlayerInv, PlaybackInv, TypeOK
    <2>5. sessions[s].expiresAt <= now
      BY <1>4, <2>1, <2>2, <2>3, <2>4 DEF PlayerInv, PlaybackInv, OneUnexpired, Lease
    <2> QED BY <1>2, <1>4, <2>5
  <1> QED BY <1>1, <1>2, <1>3, <1>4, StillVars, CallStep

(* A session deleted is no lease: it is released, or was. *)
LEMMA CloseAnsweredStep ==
    ASSUME PlayerInv, NEW a \in Accounts, NEW p \in Plays, CloseAnswered(a, p)
    PROVE  PlayerInv' /\ [Next]_vars
  <1>1. PICK s \in 1..sessionCount : s = plays[p].session /\ plays[p].pc = "closing"
    BY DEF CloseAnswered, PlayerInv, PlayerTypes
  <1>2. s \in SIds /\ Exists(s) /\ sessions[s] \in Session
    BY SessionFacts DEF PlayerInv
  <1>3. PICK c \in Call : /\ c.pc = "creating" /\ c.session = plays[p].session
                          /\ plays' = [plays EXCEPT ![p] = c]
    BY <1>1, CallRecord DEF CloseAnswered
  <1>4. plays'[p] = c /\ \A q \in Plays : q # p => plays'[q] = plays[q]
    BY <1>3 DEF PlayerInv, PlayerTypes
  <1>5. [Next]_vars /\ PlaybackInv'
    <2>1. [Next]_vars
      BY <1>1, <1>2 DEF CloseAnswered, Next
    <2> QED BY <2>1, StepInv DEF PlayerInv
  <1>6. /\ UNCHANGED <<now, sessionCount, held, forgotten>>
        /\ \A t \in SIds : t # s => sessions'[t] = sessions[t]
        /\ ~Lease(s)'
    <2>1. CASE CloseSession(a, s)
      <3>1. PICK row \in Session : row = sessions[s]
        BY <1>2
      <3>2. [row EXCEPT !.state = "CLOSED", !.leaseReleased = TRUE].leaseReleased
        BY DEF Session
      <3>3. sessions' = [sessions EXCEPT ![s] = [row EXCEPT !.state = "CLOSED", !.leaseReleased = TRUE]]
        BY <2>1, <3>1 DEF CloseSession, Released
      <3> QED BY <1>2, <2>1, <3>2, <3>3
              DEF CloseAnswered, CloseSession, Lease, PlayerInv, PlaybackInv, TypeOK
    <2>2. CASE sessions[s].state \in Terminal /\ UNCHANGED vars
      <3>1. sessions[s].leaseReleased
        BY <1>2, <2>2 DEF PlayerInv, PlaybackInv, Unreleased, Live, Terminal
      <3> QED BY <2>2, <3>1 DEF CloseAnswered, Lease, vars
    <2> QED BY <1>1, <2>1, <2>2 DEF CloseAnswered
  <1>7. PlayerTypes'
    BY <1>3, <1>4, <1>6 DEF PlayerInv, PlayerTypes
  <1>8. ASSUME NEW q \in Plays, plays'[q].pc = "created" PROVE Expected(q)'
    <2>1. q # p /\ plays'[q] = plays[q] /\ plays[q].pc = "created"
      BY <1>3, <1>4, <1>8
    <2>2. PICK t \in 1..sessionCount : t = plays[q].session
      BY <2>1 DEF PlayerInv, PlayerTypes
    <2>3. /\ t # held /\ (sessions[t].leaseReleased => sessions[t].expiresAt <= now)
          /\ \A r \in Plays : r # q /\ plays[r].pc \in {"closing", "created"} => plays[r].session # t
      BY <2>1, <2>2 DEF PlayerInv, Expected
    <2>4. t # s /\ t \in SIds
      BY <1>1, <2>1, <2>2, <2>3, SessionFacts DEF PlayerInv
    <2>5. \A r \in Plays : r # q /\ plays'[r].pc \in {"closing", "created"} => plays'[r].session # t
      BY <1>3, <1>4, <2>3
    <2> QED BY <1>6, <2>1, <2>2, <2>3, <2>4, <2>5 DEF Expected
  <1>9. ASSUME NEW t \in SIds, Lease(t)' PROVE Known(t)'
    <2>1. t # s /\ Lease(t)
      BY <1>6, <1>9 DEF Lease, Exists
    <2>2. Known(t)
      BY <2>1 DEF PlayerInv
    <2> QED BY <1>1, <1>4, <1>6, <2>1, <2>2 DEF Known
  <1> QED BY <1>5, <1>7, <1>8, <1>9 DEF PlayerInv

LEMMA CreateArrivesStep ==
    ASSUME PlayerInv, NEW a \in Accounts, NEW p \in Plays, NEW k \in Keys, CreateArrives(a, p, k)
    PROVE  PlayerInv' /\ Next
  <1>1. PICK y \in Call : y = plays[p] /\ y.pc = "creating"
    BY DEF CreateArrives, PlayerInv, PlayerTypes, NotCalled
  <1>2. Next /\ PlaybackInv'
    <2>1. Next
      BY <1>1 DEF CreateArrives, Next, Call
    <2> QED BY <2>1, StepInv DEF PlayerInv
  <1>3. CASE ~Mapped(plays[p].track)
    <2>1. UNCHANGED <<now, sessionCount, sessions, held, forgotten>> /\ Awaits(p, "ended")
      BY <1>3 DEF CreateArrives, CreatePlayback, Ends
    <2>2. PICK c \in Call : /\ c.pc = "ended" /\ c.session = plays[p].session
                            /\ plays' = [plays EXCEPT ![p] = c]
      BY <1>1, <2>1, CallRecord
    <2> QED BY <1>1, <1>2, <2>1, <2>2, CallStep
  <1>4. CASE Mapped(plays[p].track)
    <2>1. PICK s \in SIds : s = sessionCount + 1
      BY <1>4, SessionFacts DEF CreateArrives, CreatePlayback, SIds, PlayerInv
    <2>2. PICK row : row = [owner |-> a, track |-> plays[p].track, key |-> k, state |-> "AUTHORIZED",
                            expiresAt |-> now + TTL, leaseReleased |-> FALSE, bytes |-> 0]
      OBVIOUS
    <2>3. /\ UNCHANGED <<now, held, forgotten>> /\ sessionCount' = s
          /\ sessions' = [sessions EXCEPT ![s] = row] /\ ~row.leaseReleased
      BY <1>4, <2>1, <2>2 DEF CreateArrives, CreatePlayback, SessionCreated
    <2>4. sessions'[s] = row /\ \A t \in SIds : t # s => sessions'[t] = sessions[t]
      BY <2>3 DEF PlayerInv, PlaybackInv, TypeOK
    <2>5. PICK c \in Call : c.pc = "created" /\ c.session = s /\ plays' = [plays EXCEPT ![p] = c]
      <3>1. LET c == [y EXCEPT !.pc = "created", !.session = s] IN
              c \in Call /\ c.pc = "created" /\ c.session = s
        <4>1. s \in 0..MaxSessions
          BY <2>1, PlaybackAssumption DEF SIds
        <4> QED BY <4>1 DEF Call
      <3> QED BY <1>1, <1>4, <2>1, <2>3, <3>1 DEF CreateArrives
    <2>6. plays'[p] = c /\ \A q \in Plays : q # p => plays'[q] = plays[q]
      BY <2>5 DEF PlayerInv, PlayerTypes
    <2>7. /\ sessionCount \in Nat /\ held # s /\ s \notin 1..sessionCount
          /\ 0..sessionCount \subseteq 0..s /\ 1..sessionCount \subseteq 1..s /\ s \in 1..s
      BY <2>1, SessionFacts DEF PlayerInv, PlayerTypes
    <2>8. \A q \in Plays : plays[q].pc \in {"closing", "created"} => plays[q].session \in 1..sessionCount
      BY DEF PlayerInv, PlayerTypes
    <2>9. PlayerTypes'
      BY <2>3, <2>5, <2>6, <2>7, <2>8 DEF PlayerInv, PlayerTypes
    <2>10. Expected(p)'
      BY <2>3, <2>4, <2>5, <2>6, <2>7, <2>8 DEF Expected
    <2>11. ASSUME NEW q \in Plays, plays'[q].pc = "created", q # p PROVE Expected(q)'
      <3>1. PICK t \in 1..sessionCount : t = plays[q].session /\ plays[q].pc = "created"
        BY <2>6, <2>8, <2>11
      <3>2. /\ t # held /\ (sessions[t].leaseReleased => sessions[t].expiresAt <= now)
            /\ \A r \in Plays : r # q /\ plays[r].pc \in {"closing", "created"} => plays[r].session # t
        BY <2>11, <3>1 DEF PlayerInv, Expected
      <3>3. t # s /\ t \in SIds
        BY <2>7, <3>1, SessionFacts DEF PlayerInv
      <3>4. \A r \in Plays : r # q /\ plays'[r].pc \in {"closing", "created"} => plays'[r].session # t
        BY <2>5, <2>6, <3>2, <3>3
      <3> QED BY <2>3, <2>4, <2>6, <2>11, <3>1, <3>2, <3>3, <3>4 DEF Expected
    <2>12. ASSUME NEW t \in SIds, Lease(t)' PROVE Known(t)'
      <3>1. CASE t = s
        BY <2>5, <2>6, <3>1 DEF Known
      <3>2. CASE t # s
        <4>1. Known(t)
          BY <2>3, <2>4, <2>12, <3>2 DEF PlayerInv, Lease, Exists
        <4> QED BY <1>1, <2>3, <2>6, <4>1 DEF Known
      <3> QED BY <3>1, <3>2
    <2> QED BY <1>2, <2>9, <2>10, <2>11, <2>12 DEF PlayerInv
  <1> QED BY <1>3, <1>4

LEMMA PlayerStepInv == PlayerInv /\ [PlayerNext]_allVars => PlayerInv' /\ [Next]_vars
  <1> SUFFICES ASSUME PlayerInv, [PlayerNext]_allVars PROVE PlayerInv' /\ [Next]_vars
    OBVIOUS
  <1>1. ASSUME GatewayStep \/ \E a \in Accounts, s \in SIds, d \in Deliveries : RequestStream(a, s, d),
               UNCHANGED playerVars
        PROVE  PlayerInv' /\ [Next]_vars
    <2>1. RowsKept /\ Next
      BY <1>1, GatewayKeeps DEF PlayerInv
    <2> QED BY <1>1, <2>1, StepInv, PlayerWaits DEF PlayerInv
  <1>2. CASE \E a \in Accounts, d \in Deliveries : FetchSource(a, d)
    <2>1. PICK a \in Accounts, d \in Deliveries : RequestStream(a, source, d) /\ UNCHANGED playerVars
      BY <1>2 DEF FetchSource
    <2>2. source \in SIds
      BY <2>1 DEF RequestStream, ActiveSessions, Owned
    <2> QED BY <1>1, <2>1, <2>2
  <1>3. ASSUME UNCHANGED <<vars, plays, held, source, forgotten>> PROVE PlayerInv' /\ [Next]_vars
    <2>1. PlaybackInv' /\ UNCHANGED <<now, sessionCount, sessions>>
      BY <1>3, StillVars
    <2> QED BY <1>3, <2>1 DEF PlayerInv, PlayerTypes, Expected, Lease, Known, Exists
  <1>4. CASE AudioEvent \/ UNCHANGED allVars
    BY <1>3, <1>4 DEF AudioEvent, allVars, playerVars
  <1>5. ASSUME NEW p \in Plays, NEW t \in Tracks, PlayTrack(p, t) PROVE PlayerInv' /\ [Next]_vars
    BY <1>5, PlayTrackStep DEF PlayTrack
  <1>6. ASSUME NEW p \in Plays, CloseLost(p) \/ CreateRefused(p) \/ AnswerLost(p) \/ Started(p)
        PROVE  PlayerInv' /\ [Next]_vars
    BY <1>6, FailureStep DEF CloseLost, CreateRefused, AnswerLost, Started
  <1>7. ASSUME NEW p \in Plays, Loaded(p) PROVE PlayerInv' /\ [Next]_vars
    BY <1>7, LoadedStep DEF Loaded
  <1>8. ASSUME NEW a \in Accounts, NEW p \in Plays, CloseAnswered(a, p)
        PROVE  PlayerInv' /\ [Next]_vars
    BY <1>8, CloseAnsweredStep
  <1>9. ASSUME NEW a \in Accounts, NEW p \in Plays, NEW k \in Keys, CreateArrives(a, p, k)
        PROVE  PlayerInv' /\ [Next]_vars
    BY <1>9, CreateArrivesStep
  <1> QED BY <1>1, <1>2, <1>4, <1>5, <1>6, <1>7, <1>8, <1>9 DEF PlayerNext

THEOREM PlayerHolds ==
    ASSUME OneAccount
    PROVE  PlayerSpec => []PlayerInv
  <1>1. PlayerInit => PlayerInv
    BY PlayerInitInv
  <1> QED BY <1>1, PlayerStepInv, PTL DEF PlayerSpec

(* The page makes only calls the gateway's specification has: what is proved *)
(* of Spec holds behind the page, however its calls of playTrack overlap.    *)
THEOREM PageIsAClient ==
    ASSUME OneAccount
    PROVE  PlayerSpec => Spec
  <1>1. PlayerInit => Init
    BY DEF PlayerInit
  <1> QED BY <1>1, PlayerHolds, PlayerStepInv, PTL DEF PlayerSpec, Spec

(* A lease the gateway still counts belongs to the session the page holds,   *)
(* or to one a call is about to delete or to be told of, unless an answer    *)
(* was lost or came after its session's life (App.vue, playTrack).           *)
THEOREM LeaseKnown ==
    ASSUME OneAccount
    PROVE  PlayerSpec => []PageKnowsItsLease
  <1>1. PlayerInv => PageKnowsItsLease
    BY DEF PlayerInv, PageKnowsItsLease, LeaseIsKnown, ActiveSessions, Owned, Lease, Known, Exists
  <1> QED BY <1>1, PlayerHolds, PTL
=============================================================================
