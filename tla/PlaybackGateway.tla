--------------------------- MODULE PlaybackGateway ---------------------------
(***************************************************************************)
(* The gateway's playback: createPlayback, deliverStream, the close route  *)
(* and the rows of playback_sessions, idempotency_keys and                 *)
(* delivery_evidence they share.                                           *)
(*                                                                         *)
(* Node runs one handler at a time and the SQLite calls are synchronous,   *)
(* so a handler is atomic up to an await.  deliverStream awaits the media  *)
(* adapter between its checks and its first write: RequestStream and       *)
(* StreamOpened are the two halves, and any other handler may run between. *)
(* The 'end', 'aborted' and 'close' callbacks of a delivery are            *)
(* DeliveryCallback.  A refusal only adds an audit row and is left out.    *)
(***************************************************************************)
EXTENDS RangeRequest, FiniteSets, Functions

CONSTANTS
    Accounts,         \* accountIds; each is created in memory once
    Keys,             \* idempotency keys a player sends
    Tracks, SupporterTracks, MappedTracks,  \* the catalog, the tracks that need an
                      \* SBT tier, and those the configured adapter has a reference for
    Deliveries,       \* requests for /v1/streams
    Headers,          \* Range headers a player sends
    MediaSize,        \* bytes of a track's file
    TTL,              \* config.playbackTtlMs
    ByteLimit,        \* config.monthlyByteLimit (the model stays in one month)
    MaxTime, MaxSessions, MaxDecisions   \* bounds of the model

SIds == 1..MaxSessions
Live == {"AUTHORIZED", "STARTED", "ACTIVE"}
Terminal == {"CLOSED", "REVOKED", "EXPIRED"}

ASSUME PlaybackAssumption ==
    /\ TTL \in Nat \ {0} /\ ByteLimit \in Nat /\ MediaSize \in Nat /\ MaxTime \in Nat
    /\ MaxSessions \in Nat /\ MaxDecisions \in Nat
    /\ Headers \subseteq Header /\ IsFiniteSet(Deliveries) /\ SupporterTracks \subseteq Tracks /\ MappedTracks \subseteq Tracks

NoSession == [state |-> "none"]
NoKey == [session |-> 0]
Idle == [pc |-> "idle"]

VARIABLES
    now,              \* Date.now()
    accounts,         \* the in-memory accounts map: new, present or lost
    supporters,       \* accounts whose tiers hold the artist's SBT tier
    sessionCount, sessions,   \* rows of playback_sessions
    idempotency,      \* rows of idempotency_keys
    authorized,       \* number of decisions recorded with reason AUTHORIZED
    deliveries,       \* the requests being served, with the bytes counted so far
    evidence          \* delivery_evidence, summed by session

vars == <<now, accounts, supporters, sessionCount, sessions, idempotency, authorized,
          deliveries, evidence>>

Init ==
    /\ now = 0
    /\ accounts = [a \in Accounts |-> "new"] /\ supporters = {}
    /\ sessionCount = 0 /\ sessions = [s \in SIds |-> NoSession]
    /\ idempotency = [a \in Accounts |-> [k \in Keys |-> NoKey]]
    /\ authorized = 0
    /\ deliveries = [d \in Deliveries |-> Idle]
    /\ evidence = [s \in SIds |-> 0]

Tick ==
    /\ now < MaxTime
    /\ now' = now + 1
    /\ UNCHANGED <<accounts, supporters, sessionCount, sessions, idempotency, authorized,
                   deliveries, evidence>>

CreateAccount(a) ==
    /\ accounts[a] = "new"
    /\ accounts' = [accounts EXCEPT ![a] = "present"]
    /\ UNCHANGED <<now, supporters, sessionCount, sessions, idempotency, authorized,
                   deliveries, evidence>>

(* supportRegistration of a confirmed support intent sets the tier. *)
ActivateTier(a) ==
    /\ accounts[a] = "present"
    /\ supporters' = supporters \cup {a}
    /\ UNCHANGED <<now, accounts, sessionCount, sessions, idempotency, authorized,
                   deliveries, evidence>>

(* The process restarts: SQLite stays, the accounts and the open responses go. *)
Restart ==
    /\ accounts' = [a \in Accounts |-> IF accounts[a] = "present" THEN "lost" ELSE accounts[a]]
    /\ supporters' = {}
    /\ deliveries' = [d \in Deliveries |->
            IF deliveries[d].pc \in {"opening", "streaming"}
            THEN [deliveries[d] EXCEPT !.pc = "lost"] ELSE deliveries[d]]
    /\ UNCHANGED <<now, sessionCount, sessions, idempotency, authorized, evidence>>

------------------------------------------------------------------------------
(* Creating and closing a session. *)

(* The session of a request's path, for the account of its cookie. *)
Owned(a) == {s \in SIds : sessions[s].state # "none" /\ sessions[s].owner = a}

(* activeSessionForOwner *)
ActiveSessions(a) == {s \in Owned(a) : sessions[s].state \in Live /\ sessions[s].expiresAt > now}

Mut_StartedOnly(a) == \A s \in ActiveSessions(a) : sessions[s].state = "AUTHORIZED"
Mut_HeldForever(a) == \A s \in Owned(a) : sessions[s].state \notin Live
(* The CONCURRENCY_LIMIT check. *)
LeaseFree(a) == ActiveSessions(a) = {}

CapabilityAllows(a, t) == t \in SupporterTracks => a \in supporters

BytesDelivered == SumFunctionOnSet(evidence, SIds)

IdempotentResponse(a, k) == idempotency[a][k]

Mut_KeyIgnored(a, k) == k \in Keys
(* No response was saved for the key; one that was is returned unchanged. *)
FirstUse(a, k) == IdempotentResponse(a, k) = NoKey

(* The rows createPlayback inserts. *)
DecisionRecorded == authorized' = authorized + 1
SessionCreated(s, a, k, t) ==
    /\ sessionCount' = s
    /\ sessions' = [sessions EXCEPT ![s] =
          [owner |-> a, track |-> t, key |-> k, state |-> "AUTHORIZED",
           expiresAt |-> now + TTL, leaseReleased |-> FALSE, bytes |-> 0]]
ResponseSaved(a, k, s, t) ==
    idempotency' = [idempotency EXCEPT ![a][k] = [session |-> s, track |-> t]]

(* adapterReference; the handler throws when it finds none. *)
Mapped(t) == t \in MappedTracks

(* The decision is recorded before the adapter's reference is looked up. *)
CreatePlayback(a, k, t) ==
    LET s == sessionCount + 1 IN
    /\ accounts[a] = "present" /\ FirstUse(a, k)
    /\ CapabilityAllows(a, t)
    /\ BytesDelivered < ByteLimit
    /\ LeaseFree(a)
    /\ authorized < MaxDecisions /\ sessionCount < MaxSessions /\ now + TTL <= MaxTime
    /\ DecisionRecorded
    /\ \/ /\ Mapped(t)
          /\ SessionCreated(s, a, k, t) /\ ResponseSaved(a, k, s, t)
       \/ /\ ~Mapped(t)
          /\ UNCHANGED <<sessionCount, sessions, idempotency>>
    /\ UNCHANGED <<now, accounts, supporters, deliveries, evidence>>

Released(s, state) == [sessions EXCEPT ![s].state = state, ![s].leaseReleased = TRUE]

CloseSession(a, s) ==
    /\ accounts[a] = "present" /\ s \in Owned(a)
    /\ sessions[s].state \notin Terminal
    /\ sessions' = Released(s, "CLOSED")
    /\ UNCHANGED <<now, accounts, supporters, sessionCount, idempotency, authorized,
                   deliveries, evidence>>

------------------------------------------------------------------------------
(* Delivering a stream. *)

(* deliverStream finds the session past its expiry: expireSession, whatever its state. *)
ExpireOnRequest(a, s) ==
    /\ accounts[a] = "present" /\ s \in Owned(a)
    /\ sessions[s].expiresAt <= now
    /\ sessions' = Released(s, "EXPIRED")
    /\ UNCHANGED <<now, accounts, supporters, sessionCount, idempotency, authorized,
                   deliveries, evidence>>

RequestStream(a, s, d) ==
    /\ accounts[a] = "present" /\ deliveries[d] = Idle
    /\ s \in ActiveSessions(a)
    /\ deliveries' = [deliveries EXCEPT ![d] = [pc |-> "opening", session |-> s, bytes |-> 0]]
    /\ UNCHANGED <<now, accounts, supporters, sessionCount, sessions, idempotency, authorized,
                   evidence>>

SessionState(s, state) == [sessions EXCEPT ![s].state = state]

(* After the await: setSessionState(sessionId, 'STARTED'), whatever the      *)
(* state is now.  The adapter has parsed the request's Range header.         *)
StreamOpened(d) ==
    /\ deliveries[d].pc = "opening"
    /\ \E h \in Headers : \E r \in ParseSingleRange(h, MediaSize) :
        deliveries' = [deliveries EXCEPT ![d] =
            [pc |-> "streaming", session |-> deliveries[d].session, bytes |-> 0,
             length |-> ContentLength(r)]]
    /\ sessions' = SessionState(deliveries[d].session, "STARTED")
    /\ UNCHANGED <<now, accounts, supporters, sessionCount, idempotency, authorized, evidence>>

(* RangeError (416) or another failure of the adapter (502), such as a file  *)
(* that is missing or Navidrome answering with another status.              *)
StreamFailed(d) ==
    /\ deliveries[d].pc = "opening"
    /\ deliveries' = [deliveries EXCEPT ![d].pc = "failed"]
    /\ UNCHANGED <<now, accounts, supporters, sessionCount, sessions, idempotency, authorized,
                   evidence>>

(* The 'data' event. *)
Chunk(d) ==
    /\ deliveries[d].pc = "streaming" /\ deliveries[d].bytes < deliveries[d].length
    /\ deliveries' = [deliveries EXCEPT ![d].bytes = @ + 1]
    /\ UNCHANGED <<now, accounts, supporters, sessionCount, sessions, idempotency, authorized,
                   evidence>>

Mut_RecordAlways(d) == deliveries[d].pc \in {"streaming", "recorded"}
(* record()'s `recorded` flag: the first of the three callbacks. *)
NotRecorded(d) == deliveries[d].pc = "streaming"

EvidenceRecorded(s, n) == evidence' = [evidence EXCEPT ![s] = @ + n]

(* The rows recordEvidence's UPDATE reaches. *)
Countable(s) == sessions[s].state \notin Terminal

(* record(): the evidence row, then the session's bytes unless it has ended. *)
DeliveryCallback(d) ==
    LET s == deliveries[d].session
        n == deliveries[d].bytes
    IN
    /\ NotRecorded(d)
    /\ deliveries' = [deliveries EXCEPT ![d].pc = "recorded"]
    /\ EvidenceRecorded(s, n)
    /\ \/ /\ Countable(s)
          /\ sessions' = [sessions EXCEPT ![s].bytes = @ + n, ![s].state = "ACTIVE"]
       \/ /\ ~Countable(s)
          /\ UNCHANGED sessions
    /\ UNCHANGED <<now, accounts, supporters, sessionCount, idempotency, authorized>>

Next ==
    \/ Tick
    \/ Restart
    \/ \E a \in Accounts :
        \/ CreateAccount(a) \/ ActivateTier(a)
        \/ \E k \in Keys, t \in Tracks : CreatePlayback(a, k, t)
        \/ \E s \in SIds :
            \/ CloseSession(a, s) \/ ExpireOnRequest(a, s)
            \/ \E d \in Deliveries : RequestStream(a, s, d)
    \/ \E d \in Deliveries :
        StreamOpened(d) \/ StreamFailed(d) \/ Chunk(d) \/ DeliveryCallback(d)

Spec == Init /\ [][Next]_vars

(* Time passes. *)
LiveSpec == Spec /\ WF_vars(Tick)

------------------------------------------------------------------------------
(* Properties. *)

Session == [owner : Accounts, track : Tracks, key : Keys, state : Live \cup Terminal,
            expiresAt : Nat, leaseReleased : BOOLEAN, bytes : Nat]
Delivery ==
    [pc : {"opening", "failed", "lost"}, session : SIds, bytes : {0}]
    \cup [pc : {"streaming", "recorded", "lost"}, session : SIds, bytes : Nat, length : Nat]

(* Every row and every map entry has the fields its writers give it. *)
TypeOK ==
    /\ now \in Nat
    /\ accounts \in [Accounts -> {"new", "present", "lost"}] /\ supporters \subseteq Accounts
    /\ sessionCount \in 0..MaxSessions /\ sessions \in [SIds -> Session \cup {NoSession}]
    /\ idempotency \in [Accounts -> [Keys -> [session : SIds, track : Tracks] \cup {NoKey}]]
    /\ authorized \in Nat
    /\ deliveries \in [Deliveries -> Delivery \cup {Idle}]
    /\ evidence \in [SIds -> Nat]

(* An account holds one concurrency lease: of its sessions that can be       *)
(* played, at most one was never released.                                   *)
LeaseIsExclusive ==
    \A a \in Accounts :
        \A s, t \in ActiveSessions(a) :
            ~sessions[s].leaseReleased /\ ~sessions[t].leaseReleased => s = t

(* A request key creates one session however often the player retries it,    *)
(* and a retry is answered with that session.                                *)
KeyCreatesOneSession ==
    \A s \in SIds : sessions[s].state # "none" =>
        idempotency[sessions[s].owner][sessions[s].key] =
            [session |-> s, track |-> sessions[s].track]

Recorded(s) == {d \in Deliveries : deliveries[d].pc = "recorded" /\ deliveries[d].session = s}

(* The evidence of a session is what its recorded deliveries sent, each      *)
(* counted once whichever of end, abort and close came first; and the        *)
(* session's own count is that sum until its lease is released, and never    *)
(* more.  A delivery that a restart cuts has no callback and leaves none.    *)
EvidenceIsRecordedOnce ==
    \A s \in SIds : sessions[s].state # "none" =>
        /\ evidence[s] = SumFunctionOnSet([d \in Deliveries |->
                            IF d \in Recorded(s) THEN deliveries[d].bytes ELSE 0], Deliveries)
        /\ sessions[s].bytes <= evidence[s]
        /\ ~sessions[s].leaseReleased => sessions[s].bytes = evidence[s]

(* A player that vanished without closing does not lock its account out: the *)
(* CONCURRENCY_LIMIT refusal ends with the lifetime of the session.          *)
LeaseIsFreed ==
    \A a \in Accounts : ~LeaseFree(a) ~> LeaseFree(a)

(* playback-authorization-spec: closing and expiry never restore access.     *)
ReleasedIsOver ==
    \A s \in SIds : sessions[s].state # "none" /\ sessions[s].leaseReleased =>
        sessions[s].state \in Terminal
=============================================================================
