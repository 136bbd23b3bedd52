-------------------------------- MODULE Player --------------------------------
(***************************************************************************)
(* The player's page (App.vue) as a client of the gateway's playback: its  *)
(* calls of playTrack, which overlap because every await lets the next     *)
(* click in, the session it holds and what it shows.                       *)
(*                                                                         *)
(* A call first deletes the session held, then creates one with a new      *)
(* idempotency key, then loads and starts the audio.  Requests and answers *)
(* may be lost; the page gives a fetch no timeout, so they may also take   *)
(* for ever.  The page is never unmounted while it is open.                *)
(***************************************************************************)
EXTENDS PlaybackGateway

CONSTANTS Plays       \* calls of playTrack

VARIABLES
    plays,            \* what each call awaits
    held,             \* playbackSession, 0 when undefined
    source,           \* the session whose stream the audio element has
    playbackState,
    forgotten         \* history: sessions whose deletion or answer was lost

playerVars == <<plays, held, source, playbackState, forgotten>>
allVars == <<vars, playerVars>>

NotCalled == [pc |-> "idle"]
PlayerInit ==
    /\ Init
    /\ plays = [p \in Plays |-> NotCalled] /\ held = 0 /\ source = 0
    /\ playbackState = "IDLE" /\ forgotten = {}

Shows(state) == playbackState' = state
Awaits(p, pc) == plays' = [plays EXCEPT ![p].pc = pc]
Ends(p, state) == Awaits(p, "ended") /\ Shows(state)

Mut_DropOnly == "creating"
(* closePlaybackSession: a session held is deleted first. *)
FirstAwait == IF held # 0 THEN "closing" ELSE "creating"

(* playTrack, from a click, from togglePlayback without a session, or from   *)
(* moveTrack when a track ends or its neighbour is asked for.                *)
PlayTrack(p, t) ==
    /\ plays[p] = NotCalled
    /\ plays' = [plays EXCEPT ![p] = [pc |-> FirstAwait, track |-> t, session |-> held]]
    /\ held' = 0 /\ Shows("AUTHORIZING")
    /\ UNCHANGED <<vars, source, forgotten>>

CloseAnswered(a, p) ==
    /\ plays[p].pc = "closing"
    /\ CloseSession(a, plays[p].session)
        \/ (sessions[plays[p].session].state \in Terminal /\ UNCHANGED vars)
    /\ Awaits(p, "creating")
    /\ UNCHANGED <<held, source, playbackState, forgotten>>

(* The failure of the deletion is swallowed. *)
CloseLost(p) ==
    /\ plays[p].pc = "closing"
    /\ forgotten' = forgotten \cup {plays[p].session}
    /\ Awaits(p, "creating")
    /\ UNCHANGED <<vars, held, source, playbackState>>

(* createPlayback answers with its session, or throws after the decision.    *)
CreateArrives(a, p, k) ==
    /\ plays[p].pc = "creating" /\ CreatePlayback(a, k, plays[p].track)
    /\ \/ /\ Mapped(plays[p].track)
          /\ plays' = [plays EXCEPT ![p].pc = "created", ![p].session = sessionCount']
          /\ UNCHANGED playbackState
       \/ ~Mapped(plays[p].track) /\ Ends(p, "ERROR")
    /\ UNCHANGED <<held, source, forgotten>>

(* The gateway denies the track, the lease is taken, or the request is lost. *)
CreateRefused(p) ==
    /\ plays[p].pc = "creating"
    /\ Ends(p, "ERROR")
    /\ UNCHANGED <<vars, held, source, forgotten>>

AnswerLost(p) ==
    /\ plays[p].pc = "created"
    /\ forgotten' = forgotten \cup {plays[p].session}
    /\ Ends(p, "ERROR")
    /\ UNCHANGED <<vars, held, source>>

(* An answer later than its session's life replaces a younger call's session. *)
Loaded(p) ==
    LET s == plays[p].session IN
    /\ plays[p].pc = "created"
    /\ held' = s /\ source' = s /\ Shows("READY")
    /\ forgotten' = forgotten \cup (IF sessions[s].expiresAt <= now THEN {held} ELSE {})
    /\ Awaits(p, "starting")
    /\ UNCHANGED vars

(* audioEngine.play() resolves, or rejects: autoplay, or another load. *)
Started(p) ==
    /\ plays[p].pc = "starting"
    /\ Ends(p, "PLAYING") \/ Ends(p, "ERROR")
    /\ UNCHANGED <<vars, held, source, forgotten>>

(* togglePlayback with a session, and the element's play, pause and error.   *)
AudioEvent ==
    /\ source # 0
    /\ \E state \in {"PLAYING", "ERROR", IF held # 0 THEN "PAUSED" ELSE "IDLE"} :
        playbackState # state /\ Shows(state)
    /\ UNCHANGED <<vars, plays, held, source, forgotten>>

(* The element asks for its source. *)
FetchSource(a, d) == source # 0 /\ RequestStream(a, source, d) /\ UNCHANGED playerVars

(* The gateway's own steps, and its database's clock.  No other client uses  *)
(* the account.                                                              *)
GatewayStep ==
    \/ Tick
    \/ \E a \in Accounts : CreateAccount(a) \/ \E s \in SIds : ExpireOnRequest(a, s)
    \/ \E d \in Deliveries : StreamOpened(d) \/ StreamFailed(d) \/ Chunk(d) \/ DeliveryCallback(d)

PlayerNext ==
    \/ GatewayStep /\ UNCHANGED playerVars
    \/ \E p \in Plays :
        \/ \E t \in Tracks : PlayTrack(p, t)
        \/ \E a \in Accounts :
            \/ CloseAnswered(a, p)
            \/ \E k \in Keys : CreateArrives(a, p, k)
        \/ CloseLost(p) \/ CreateRefused(p) \/ AnswerLost(p) \/ Loaded(p) \/ Started(p)
    \/ AudioEvent
    \/ \E a \in Accounts, d \in Deliveries : FetchSource(a, d)

(* The page's cookie is of one account, and its requests are that account's. *)
OneAccount == \A a, b \in Accounts : a = b

PlayerSpec == PlayerInit /\ [][PlayerNext]_allVars

------------------------------------------------------------------------------
(* Properties. *)

(* However calls overlap, a session that still holds the account's lease is  *)
(* the one the page holds, or one a call is about to delete or to be told    *)
(* of: only a lost or outdated answer leaves a lease nobody will release.    *)
LeaseIsKnown ==
    \A a \in Accounts : \A s \in ActiveSessions(a) : ~sessions[s].leaseReleased =>
        \/ s = held \/ s \in forgotten
        \/ \E p \in Plays : plays[p].pc \in {"closing", "created"} /\ plays[p].session = s

(* A page that has called is the account's only client, and knows its lease. *)
PageKnowsItsLease == (\E p \in Plays : plays[p] # NotCalled) => LeaseIsKnown
=============================================================================
