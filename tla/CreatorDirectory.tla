---------------------------- MODULE CreatorDirectory ----------------------------
(***************************************************************************)
(* What the gateway's relayers remember of the chain: SupporterSbtRelayer's *)
(* directory of registered creators and both relayers' answer to "may I    *)
(* relay".  Each is a value with the time of its arrival: a caller within  *)
(* the period is given it, another reads the chain again.  Reads overlap,  *)
(* take time and arrive in any order; those of the directory are one per   *)
(* creator.  A failed reading of the directory leaves it, a failed check   *)
(* of readiness is remembered as FALSE.                                    *)
(***************************************************************************)
EXTENDS CreatorRegistry

CONSTANTS
    Listings, Checks, NoRead,       \* bounds: readings under way at one time
    DirectoryTTL, ReadinessTTL,     \* 60 and 30 seconds
    ReadTime,                       \* what a reading takes at most: the transports' timeout
    MaxClock                        \* bound of the model

ASSUME DirectoryAssumption == DirectoryTTL \in Nat /\ ReadinessTTL \in Nat /\ ReadTime \in Nat

VARIABLES
    clock,
    hasRole,            \* chain: the relayer has its role and a balance
    directory, availability,        \* creatorDirectoryCache, availabilityCache
    listings, checks,               \* supportTargets, available
    wasActive, wasReady, wasNotReady    \* history: the last time it was so, or a check failed

directoryVars == <<clock, hasRole, directory, availability, listings, checks, wasActive, wasReady, wasNotReady>>

(* checkedAt: 0 is decades ago. *)
LongAgo == -1000

DirectoryInit ==
    /\ clock = 0 /\ hasRole \in BOOLEAN
    /\ directory = [checkedAt |-> LongAgo, value |-> {}]
    /\ availability = [checkedAt |-> LongAgo, value |-> FALSE]
    /\ listings = [l \in Listings |-> NoRead] /\ checks = [c \in Checks |-> NoRead]
    /\ wasActive = [a \in CreatorAccounts |-> LongAgo]
    /\ wasReady = (IF hasRole THEN 0 ELSE LongAgo) /\ wasNotReady = (IF hasRole THEN LongAgo ELSE 0)

(* History, of any step: what is so now was so at this time.                 *)
Seen ==
    /\ wasActive' = [a \in CreatorAccounts |->
           IF creatorIdByAccount'[a] # 0 /\ creators'[creatorIdByAccount'[a]].active THEN clock' ELSE wasActive[a]]
    /\ wasReady' = IF hasRole' THEN clock' ELSE wasReady

DirectoryFresh == clock - directory.checkedAt < DirectoryTTL
ReadinessFresh == clock - availability.checkedAt < ReadinessTTL

Underway == ({listings[l] : l \in Listings} \cup {checks[c] : c \in Checks}) \ {NoRead}

Later ==
    /\ clock < MaxClock /\ \A r \in Underway : clock + 1 - r.since <= ReadTime
    /\ clock' = clock + 1
    /\ wasNotReady' = IF hasRole THEN wasNotReady ELSE clock + 1
    /\ UNCHANGED <<hasRole, directory, availability, listings, checks>>

RoleChanges ==
    /\ hasRole' = ~hasRole /\ wasNotReady' = clock
    /\ UNCHANGED <<clock, directory, availability, listings, checks>>

(* supportTargets and registeredCreators: a caller outside the period reads  *)
(* how many creators there are, and then each.                               *)
ListTargets(l) ==
    /\ listings[l] = NoRead /\ ~DirectoryFresh
    /\ listings' = [listings EXCEPT ![l] = [since |-> clock, unread |-> CreatorIds, value |-> {}]]
    /\ UNCHANGED <<clock, hasRole, directory, availability, checks, wasNotReady>>

(* registeredCreator: an inactive one is filtered out. *)
CreatorRead(l, i) ==
    /\ listings[l] # NoRead /\ i \in listings[l].unread
    /\ listings' = [listings EXCEPT ![l].unread = @ \ {i},
                                    ![l].value = IF creators[i].active THEN @ \cup {i} ELSE @]
    /\ UNCHANGED <<clock, hasRole, directory, availability, checks, wasNotReady>>

Directory(l) == [checkedAt |-> clock, value |-> listings[l].value]

Listed(l) ==
    /\ listings[l] # NoRead /\ listings[l].unread = {}
    /\ directory' = Directory(l)
    /\ listings' = [listings EXCEPT ![l] = NoRead]
    /\ UNCHANGED <<clock, hasRole, availability, checks, wasNotReady>>

ListingFails(l) ==
    /\ listings[l] # NoRead /\ listings' = [listings EXCEPT ![l] = NoRead]
    /\ UNCHANGED <<clock, hasRole, directory, availability, checks, wasNotReady>>

(* available *)
CheckReadiness(c) ==
    /\ checks[c] = NoRead /\ ~ReadinessFresh
    /\ checks' = [checks EXCEPT ![c] = [since |-> clock, value |-> hasRole]]
    /\ UNCHANGED <<clock, hasRole, directory, availability, listings, wasNotReady>>

ReadinessKnown(c) ==
    /\ checks[c] # NoRead
    /\ \/ availability' = [checkedAt |-> clock, value |-> checks[c].value] /\ UNCHANGED wasNotReady
       \/ availability' = [checkedAt |-> clock, value |-> FALSE] /\ wasNotReady' = clock
    /\ checks' = [checks EXCEPT ![c] = NoRead]
    /\ UNCHANGED <<clock, hasRole, directory, listings>>

DirectoryNext ==
    /\ \/ Later \/ RoleChanges
       \/ \E l \in Listings : ListTargets(l) \/ Listed(l) \/ ListingFails(l) \/ \E i \in CreatorIds : CreatorRead(l, i)
       \/ \E c \in Checks : CheckReadiness(c) \/ ReadinessKnown(c)
    /\ UNCHANGED registryVars /\ Seen

(* A creator's or an operator's transaction. *)
ChainMoves ==
    /\ RegistryNext
    /\ UNCHANGED <<clock, hasRole, directory, availability, listings, checks, wasNotReady>> /\ Seen

DirectorySpec ==
    /\ RegistryInit /\ DirectoryInit
    /\ [][DirectoryNext \/ ChainMoves]_<<registryVars, directoryVars>>

------------------------------------------------------------------------------
(* What a caller is given without a reading was so at most a period and a    *)
(* reading ago: a creator of the directory was active, the relayer could     *)
(* relay, or could not or was not reached, however readings overlap and      *)
(* overwrite one another.                                                    *)
AnswersAreRecent ==
    /\ DirectoryFresh => \A i \in directory.value :
           clock - wasActive[creators[i].account] < DirectoryTTL + ReadTime
    /\ ReadinessFresh =>
           clock - (IF availability.value THEN wasReady ELSE wasNotReady) < ReadinessTTL + ReadTime
=============================================================================
