----------------------- MODULE MCSupporterSbtRelayer -----------------------
(* Values of the constants for TLC.  A behaviour has one of five scopes:      *)
(*   relaying     any client of the relayer,                                 *)
(*   supporting   the listener's page receives a supporter token,            *)
(*   registering  any user of the creators' registry,                        *)
(*   listing      the relayer's directory of creators,                       *)
(*   readying     the relayers' answer to "may I relay".                     *)
EXTENDS SupporterRegistration, TLC

CONSTANTS c1, h1, h2, k1, o1, o2, f1, f2

VARIABLE scope

Policy(until, max, active) == [until |-> until, max |-> max, active |-> active]
(* A cap of two, and one of one that ends later, in either order.           *)
TwoPolicies == {Policy(2, 2, TRUE), Policy(3, 1, TRUE)}

(* Nothing distinguishes two holders, two keys, two calls or two looks.      *)
Symm == Permutations(Holders) \cup Permutations(Keys) \cup Permutations(Ops) \cup Permutations(Looks)

UnderWay == Cardinality({f \in Looks : looks[f] # NoLook})
Asked == Cardinality({o \in Ops : ops[o] # NoOp})

(* The tiers are the contract's affair, most of the registry its users'.     *)
InScope ==
    /\ scope = "listing" =>
        /\ ~registryPaused /\ releases = <<>> /\ hasRole /\ checks = [c \in Checks |-> NoRead]
        /\ \A s \in Scopes : creatorIdByScope[s] = 0
        /\ \A i \in CreatorIds : /\ creators[i].payoutAddress = creators[i].account
                                   /\ creators[i].profileCommitment = i
    /\ scope = "readying" => creators = <<>> /\ ~registryPaused
    /\ scope = "supporting" =>
        /\ now = 1 /\ \A c \in Creators : earlyPolicies[c] = NoPolicy
        /\ UnderWay + Asked <= 2 /\ Asked <= 1 /\ (request # NoLook => UnderWay <= 1)

ScopedInit ==
    /\ Init /\ SupporterPageInit /\ RegistryInit /\ DirectoryInit
    /\ scope \in {"relaying", "supporting", "registering", "listing", "readying"}
    /\ scope # "readying" => hasRole

(* Beside the page nobody signs an intent or asks the relayer.               *)
Others == Next /\ signed' = signed /\ \A o \in Ops : ops[o] = NoOp => ops'[o] = NoOp

ScopedSpec ==
    /\ ScopedInit
    /\ [][/\ \/ scope = "relaying" /\ Next /\ UNCHANGED <<supporterPageVars, creatorVars>>
             \/ scope = "supporting" /\ Others /\ UNCHANGED <<supporterPageVars, creatorVars>>
             \/ scope = "supporting" /\ SupporterPageNext /\ UNCHANGED creatorVars
             \/ scope = "registering" /\ RegistryNext /\ UNCHANGED <<vars, supporterPageVars, directoryVars>>
             \/ scope \in {"listing", "readying"} /\ DirectoryNext /\ UNCHANGED <<vars, supporterPageVars>>
             \/ scope = "listing" /\ ChainMoves /\ UNCHANGED <<vars, supporterPageVars>>
          /\ scope' = scope /\ InScope']_<<vars, supporterPageVars, creatorVars, scope>>
=============================================================================
