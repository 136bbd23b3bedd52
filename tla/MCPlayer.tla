------------------------------- MODULE MCPlayer -------------------------------
(* Values of the player's constants for TLC.  A behaviour's scope is either  *)
(* "clients", any client of the gateway, or "player", the page alone.        *)
EXTENDS Player, MCPlaybackGateway

CONSTANTS p1, p2, p3
VARIABLE scope

(* Calls and keys are interchangeable and used in one order; the page's      *)
(* stream is asked for once, and beside two calls.                           *)
PlayerScope ==
    /\ plays[p2] # NotCalled => plays[p1] # NotCalled
    /\ plays[p3] # NotCalled => plays[p2] # NotCalled /\ deliveries[d1] = Idle
    /\ idempotency[a1][k2] # NoKey => idempotency[a1][k1] # NoKey
    /\ deliveries[d2] = Idle /\ (deliveries[d1] # Idle => deliveries[d1].bytes = 0)
    /\ supporters = {} /\ now <= 3

(* The unmapped track is asked for once, and beside one stream. *)
ClientScope == authorized # sessionCount => authorized = sessionCount + 1 /\ deliveries[d2] = Idle

ScopedInit == PlayerInit /\ scope \in {"clients", "player"}

ScopedSpec ==
    /\ ScopedInit
    /\ [][/\ scope' = scope
          /\ \/ scope = "clients" /\ Next /\ UNCHANGED playerVars /\ ClientScope'
             \/ scope = "player" /\ PlayerNext /\ PlayerScope']_<<allVars, scope>>
    /\ WF_allVars(Tick /\ UNCHANGED playerVars)
=============================================================================
