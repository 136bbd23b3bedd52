# Formal models of the Creator First platform

TLA+ models of the parts of this repository that hold state and can go wrong
under concurrency, retries, time or crashes; TLC configurations that check them
on small instances; and theorems about the contracts and the gateway's services,
checked by TLAPS.  The code is the reference: definitions are translated from the
Solidity, JavaScript and Vue sources (`PROJECT.json`, "map", names the lines),
documents are cited only where a run compares the code with what they say.

## 1. The system

### 1.1 Components, their state and operations

| Component | State | Operations that change it |
| --- | --- | --- |
| **Bicameral governor** (`contracts/testnet/CreatorFirstBicameralGovernor.sol`) | sessions, membership, proposals, ballots, per-session voice credits, tallies, evidence hashes, relay nonces, CFP index | createSession, registerMember, registerProposal, registerCfpProposal, recordPreVoteReview, recordHouseDeliberation, castVote, castCfpApprovalVote, castCfpApprovalVoteBySig, finalizeProposal, recordContractTestEvidence, recordConstitutionalEvidence, recordReview, queueProposal, executeProposal, cancelQueuedProposal |
| **Verifiable sortition** (`contracts/governance/CreatorFirstVerifiableSortition.sol`) | rounds, per-house configuration, the sparse shuffled pool, selections, claimed ranks, used identities | createRound, fulfillRandomness, finalizeNextSelection, claimSeat, activateNextAlternate |
| **Playback gateway** (`apps/gateway/src/server.js`, `GatewayStore.js`) and **range requests** (`media/`) | accounts (memory), decisions, sessions, idempotency keys, evidence (SQLite) | createPlayback, deliverStream and its callbacks, close, expiry |
| **Applications and invitations** (`ParticipantApplicationService.js`, `ParticipantInvitationService.js`) | applications, invitations, resend requests (SQLite), accounts and challenges (memory) | create, approve, reject, send, resend, createChallenge, verifyChallenge, claim |
| **Enrollment** (`ParticipantEnrollmentOperator.js`, `CreatorFirstTestnetParticipantRegistry.sol`) | enrollment rows (SQLite), running map and queue (memory), registry (chain) | process, reconcile; approveClaimedInvitation, fundInitial, registerSelf, setParticipantActive |
| **Account trust and wallet session** (`AccountTrustService.js`, `server.js`) | challenges, support intents, binding transactions and intents (memory), bindings, credentials, audit (SQLite) | createChallenge, verifyChallenge, createSupportIntent, submitSupport; begin, passkey ceremonies, walletOptions, verifyWallet |
| **Supporter SBT** (`SupporterSBTUpgradeable.sol`) **and its relayer** (`SupporterSbtRelayer.js`) | early policies, credentials, activeTokenOf, nonces, owners (chain); operations map, caches (memory) | setEarlyPolicy, registerSupporterWithSignature, revoke, burn, registerSelf; relay, supportTargets, available |
| **Governance vote relayer** (`GovernanceVoteRelayer.js`) | operations map, readiness cache | relay, available |
| **Creator registry** (`CreatorFirstCreatorRegistry.sol` and its adapter) | creators, indexes by account, commitment and scope, releases | registration, updates, releases, pause, linkCreatorScope |
| **Subscription and treasury** (`CreatorFirstSubscription.sol`, `CreatorFirstTreasury.sol`, `MockJPYC.sol`) | plan, subscriptions, payments, disbursements, balances, allowances | setPlan, pause, unpause, subscribe, claim, approve, disburse |
| **Mail transport** (`GmailSmtpTransport.js`, `InvitationMailer.js`) | one conversation at a time | deliver |
| **Player** (`apps/player/src/App.vue`) | current track, session, audio, wallet and support dialog | playTrack, closePlaybackSession, connectWallet, signSupportIntent, registerTestUser |
| **Pages of the site** (`docs/.vitepress/theme/*.vue`): invitation, applicant, administrator, governance, listener, account trust | what each shows, its requests and transactions under way | their buttons, timers and wallet events |
| POL distributor, ZK registry, governed policy | one contract each | not modelled |
| Configuration, documentation, scripts | none, or I/O | not modelled |

### 1.2 How they interact

* `claimSeat` of the sortition calls `registerMember` of the governor; both happen
  in one transaction or neither.
* The governor's `executeProposal` calls a target contract with the registered
  call data.
* The gateway's onboarding ends in a claimed invitation; claiming starts the
  enrollment operator, which sends two transactions to the participant registry,
  which calls the POL distributor.
* The relayers send signed ballots and support intents to the contracts; what they
  remember of the creators' registry and of their own role is a cache.
* The pages call the gateway's routes and, through the wallet, the contracts; the
  player calls the playback, wallet and support routes.
* Inside the gateway, one Node process runs one handler at a time; SQLite calls are
  synchronous.  A handler is therefore atomic between two `await`s, and every
  `await` is a point where any other handler, timer or callback may run.  The pages
  are single-threaded in the same way: an `await` lets the next click, poll or wallet
  event in.

### 1.3 What is hard, and what makes each component correct

`PROJECT.json` lists 40 hazards with their lines.  In short:

* **Governor**: replaced ballots and tallies, credits shared by proposals, relayed
  ballots late, twice or out of order, the timelock's boundaries, a second queueing
  or execution, a late member.  Correct when a call is made at most once, in its
  window, after both houses' approval and all later evidence, and when tallies,
  credits and participation are what the ballots add up to.
* **Sortition**: drawing without replacement from a sparse pool, a second random
  word, identities and wallets shared between houses, claims at the deadline.
  Correct when the draw is a permutation, final and complete, and every seat is
  held by the person drawn, who is a member of that house.
* **Playback**: state read before the await of the media adapter, retries,
  restarts, three callbacks that may each end a delivery.  Correct when an account
  holds one lease, a lease is always freed, and evidence counts every recorded
  delivery once.
* **Onboarding**: approve, reject, resend and claim overlapping at the await of the
  mail server, which may answer late, wrongly or never.  Correct when decisions and
  claims are final and tell the truth, and a mail said to be sent was accepted.
* **Enrollment**: receipts that time out before the transaction is mined, crashes
  between chain and store.  Correct when rows never say more than the registry and
  every claim ends funded unless the registry refuses it.
* **Account trust**: checks before an await of cryptography and writes after it, a
  unique index that refuses the second of two writes.  Correct when an active binding
  passed every level, and rows and transactions agree up to that refusal.
* **Supporter credential**: intents submitted again, revocations and burns between
  registrations, policies replaced, a relayer that forgets.  Correct when a holder has
  one active credential per creator, an intent mints once, and what was issued stays.
* **Pages**: overlapping refreshes, answers lost or overtaken, a wallet that changes
  its account between a click and a signature.  Correct when what a page says was done
  was done, by the account and on the terms it showed.

## 2. Modules

| Module | Models |
| --- | --- |
| `BicameralGovernor` | the governor contract, every state-changing function |
| `ProposalLifecycle` | abstract: what the governor promises about a proposal |
| `GovernanceVoteRelayer` | the gateway's relayer of ballots, EXTENDS `BicameralGovernor` |
| `GovernancePage` | a member's page, EXTENDS `GovernanceVoteRelayer` |
| `VerifiableSortition` | the sortition contract and the membership it fills |
| `RangeRequest` | the Range header's parser and what a single range means |
| `PlaybackGateway` | playback sessions, leases, deliveries, evidence |
| `Player` | the player's playback, EXTENDS `PlaybackGateway` |
| `ParticipantOnboarding` | applications, invitations, sending and resending, wallet proof, claim |
| `InvitationPage`, `ReviewPages` | the pages of the invitation, of the applicant and of the administrator, EXTEND `ParticipantOnboarding` |
| `MailTransport` | one mail: two conversations with the server, the webhook, the outbox |
| `RegistrationPages` | the handlers, those pages and a mail side by side |
| `ParticipantEnrollment` | the operator, its transactions and the registry |
| `WalletSession` | SIWE challenges, support intents, the demo user |
| `AccountTrust` | binding transactions, passkeys, wallet binding, EXTENDS `WalletSession` |
| `PlayerSupport` | the player's wallet and support dialog, EXTENDS `WalletSession` |
| `TrustPage` | the account trust page and the account's other tabs, EXTENDS `AccountTrust` |
| `SupporterSBT` | the supporter credential contract |
| `SupporterSbtRelayer` | the gateway's relayer and the adapter in front of it, EXTENDS `SupporterSBT` |
| `SupporterPage` | the listener's page, from choosing a creator to the token, EXTENDS `SupporterSbtRelayer` |
| `CreatorRegistry` | the creators' registry and its adapter |
| `CreatorDirectory` | what the relayers remember of the chain, EXTENDS `CreatorRegistry` |
| `SupporterRegistration` | `SupporterPage` and `CreatorDirectory` side by side |
| `Subscription` | subscription, treasury and practice money |
| `ListenerPage` | the listener's page, from the wallet to the subscription, EXTENDS `Subscription` |
| `MC*` | values of the constants for TLC, and the scopes of a run |
| `SumTheorems` | TLAPS: what the library's sum over a finite set computes |
| `BicameralGovernorProofs`, `VerifiableSortitionProofs`, `PlaybackGatewayProofs`, `ParticipantOnboardingProofs`, `ParticipantEnrollmentProofs`, `AccountTrustProofs`, `SupporterSBTProofs` | TLAPS proofs about the module of that name, and about its clients: `GovernanceVoteRelayer` and `GovernancePage` in the first, `RangeRequest` and `Player` in the third, `InvitationPage`, `ReviewPages` and `MailTransport` with `ParticipantOnboardingProofs`, `ListenerPage` with `ParticipantEnrollmentProofs`, `PlayerSupport` and `TrustPage` with `AccountTrustProofs`, `SupporterSbtRelayer`, `SupporterPage`, `CreatorRegistry` and `CreatorDirectory` in the last |

Operators whose names begin with `Mut_` are mutants: a definition as a plausible
bug would have written it, placed before the definition it stands against.  No
specification uses one.

Several runs explore more than one scenario.  Their MC module adds a variable
(`scope`, or `flow`) chosen initially and never changed, and a predicate on it that
says which part of the system moves in that scenario.  The sizes of the scenarios'
state spaces then add up where one state space of everything would multiply, and
the invariants are those of the modules, unchanged, in every scope.

### 2.1 Correspondence with the code

**BicameralGovernor.** `sessions`, `proposals`, `ballots`, ... are the contract's
mappings.  Each external function is one action; its `revert`s are the guards, in
named predicates where a property depends on one (`VotingOpen`, `HouseApproves`,
`Queueable`, `Executable`, `MembershipOpen`, ...).  Roles are left out: the
environment is whoever holds the role.  Hashes of evidence are facts (recorded or
not, for which call).  `performed` is a history of executed calls.  `SignBallot` is
external: a wallet signs a ballot with a nonce and a deadline, and anyone may relay
it while it is valid.  A proposal's class decides delay and post-vote evidence.

**VerifiableSortition.** `shuffle` is `_shuffleValues` with its encoding (0 means
"position unchanged", otherwise value + 1).  `RandomPosition` applies the modulus;
the word per rank is an arbitrary natural number, standing for the hash.  The
Merkle proof is what it proves: claimant, position and identity are those of the
roster committed to.  `RegisterByOther` is another registrar using the governor's
`registerMember`, so that a claimant may already be a member.

**PlaybackGateway.** `RequestStream` is `deliverStream` up to the await of the
adapter; `StreamOpened` and `StreamFailed` are what follows.  `DeliveryCallback` is
`record`, called by the end of the stream, the abort and the close.  `Restart`
drops accounts and deliveries and keeps the rows.  The bytes of a delivery come from
`RangeRequest`: `ParseSingleRange` is `parseSingleRange` with its regular expression
as the kinds of header it tells apart and its refusals as an empty set of answers.

**Player.** `plays` are the calls of `playTrack`, cut at their awaits, of which
several run at once; requests and answers may be lost, and no fetch has a timeout.
`held` is `playbackSession`.  `forgotten` is history: sessions whose deletion or
answer was lost.

**ParticipantOnboarding.** `Approve` / `ApproveSent` / `ApproveFailed`, `Send`,
`Resend` and `VerifyChallenge` with what follows each are handlers cut at their
awaits; `calls` holds the ones waiting.  `MailArrives` is separate from the mail
server's answer: a mail can arrive before it, or although the answer is an error.  A
token is the number of times the invitation's token was issued; a mail carries one,
and only the current one finds the row.  What follows the mail in `send` and
`approve` runs without another await on I/O and is one step.  Rows of version 1
are there at the start; `resendVerification` is left out, since nothing creates such
an application any more and an owner's account does not survive a restart.

**InvitationPage, ReviewPages.** Each is a client of `ParticipantOnboarding`.  An
inspection or a poll is answered when it is asked and delivered later or never, so two
may overtake each other; what the page shows is a copy of an answer.  Forms are filled
in as required, and texts are left out.

**MailTransport.** `position` is the reply awaited in the script of a conversation;
the server is external: one answer to each command, of one line or more, or 421,
silence, anything unreadable, a close.  A refusal ends the mail; any other failure of
the first conversation starts the second.

**ParticipantEnrollment.** `op.pc` names the await the operator is in; `Operate`
are its continuations.  The three reads of `status` are answered together: the
operator compares them one by one, and an approval mined between two of them shows
as not yet approved, which is a state it also sees when the answer comes earlier.
`pool` holds transactions by nonce; `CallFails` is a receipt wait that times out or
a failed RPC call and leaves the transaction in the pool.  `Restart` also covers
the crash between the two updates that record a confirmation.  The distributor's
own refusals (budget, balance, pause) are `MineReverted`.  The amount of the
initial transfer is only "measured" or the "zero" a later retry records.

**WalletSession, AccountTrust, PlayerSupport.** `requests` are handlers waiting for a
signature's recovery or a passkey's verification, which accept or not; what a handler
checked before is not checked again after, as in the code.  `transactions` is memory,
`rows` and `audit` the store with its unique indexes (`IndexAllows`).  An account is
one; the clients are arbitrary in the first two modules and the player's buttons in
the third.  There a call of `signSupportIntent` is an entry of `submissions` and goes
from the wallet's signature (`SignSupport`) over the submission (`SubmitSupport`) and
its two answers, the 202 after verification (`Accepted`) or the 200 at once to a request
that is no longer to be signed (`ReceiveSubmission`), to at most `Attempts` polls
(`Submitted`, `Poll`).  `SupportFails` is its catch, from any of these points, with a
request that was served or not: the page shows FAILED and the loop is over.  The handler
goes on when the page has given up, and its `Accepted` changes only the account.

**TrustPage.** `busy` is the operation `run()` lets go on, with the request whose answer
it awaits in `pending`; `transaction` is the one begun here, `seen` the status last read.
An answer may be lost (`GiveUp`), and its request goes on in the gateway.  The account's
other tabs take any step but those that need this page's CSRF token.  The two check
boxes, wording and the static site's notice are left out.

**SupporterSBT, SupporterSbtRelayer.** The contract is a specification of its own
(`SbtSpec`); the relayer's module composes it with `relay` and `#relay`.  `ops` says
where each call of `relay` is: `status` awaits the contract's status, `submit` the
RPC server.  `operations` is the map's order, which eviction follows; a request whose
key has an entry shares its promise and changes nothing.  An operation that fails
deletes the entry its key has by then, as the code does.  `pool` is the relayer
account's transactions: they outlive a restart, and `SubmitFails` leaves one in it or
not.  `Mine` registers the head of the pool, `Gone` is the revert or the drop.
`RegisterSelf` is the holder's own transaction through the adapter.  The four reads of
one status are answered together, since the contract decides again when the
transaction is mined; the server's clock and the block's are one.  `intentOf` and
`evicted` are history.

**SupporterPage.** `request` is `registerAsSupporter`, which reads the nonce with the
wallet it starts with, signs with the wallet of that later moment and names in the
request that of a third; `looks` are refreshes under way.  `met` is history.  In
`SupporterPageSpec` anyone signs, asks the relayer and registers beside the page; the run
leaves that to the scope without the page.

**GovernanceVoteRelayer.** As the other relayer: `ops`, `operations`, `pool`.  The
governor keeps its own steps, so members vote directly and a second relayer submits
the same ballot.  `available` is apart, in `CreatorDirectory`: it only ends a request
early.

**GovernancePage.** `loads` are `refreshMembership` and `refresh` under way, which
overlap and each clear `busy`; `registration` is the adapter's transaction, `casts`
are calls of `castVote`, which read the house and the intensity when the nonce has
come.  `joined` and `voted` are what the page last said to be confirmed.

**CreatorRegistry, CreatorDirectory.** Commitments are values, zero ones left out; roles
are the environment's.  A reading of the chain takes up to `ReadTime`, one reading per
creator for the directory, and the caches are a value with the time of its arrival.  Since
the creator a request may name is left out of the relayer, the two share no variable, and
`SupporterRegistrationSpec` is their conjunction.

**Subscription, ListenerPage.** Each contract function is one action.  `sends` are
calls of `transact`: the sender is the wallet of the click, the arguments are read when
the fees have come, the owner confirms and the chain mines later.  `reads` are
refreshes under way.  `completed` is the message that says an action is complete.

## 3. Runs

| Run | Shows | Bounds and why they suffice |
| --- | --- | --- |
| `GovernorLifecycle` | calls authorised and approved; electorate, ballots and results fixed once voting is over (`VoteStaysFixed`); implements `ProposalLifecycle` (one call, terminal states final); every proposal is decided | 1 proposal of either class, 2 call data, both sides of every delay and window; 2 sessions, the second registering members while the first votes |
| `GovernorRelay` | tallies and credits agree with the ballots; a relayed ballot counts once; CFP index inverse; the relayer's answers and the page's two messages are true; every request is answered | `votes`: 3 members (two in one house), 2 proposals sharing credits, a budget of 5 that pays for intensity 2 and 1 but not two 2s, 10 out of range; `replays`: 2 signed ballots late, repeated and reordered; `relayer`: 2 operations in a map of 1, a pool of 2, timeouts, losses and restarts; `joining` and `voting`: the page with 2 refreshes, 2 calls of castVote and 2 wallets |
| `PlaybackLeases` | lease exclusivity, idempotency, evidence; the page knows its lease; a lease is freed | `clients`: 1 account, 2 keys, 2 tracks, 2 deliveries of up to 2 chunks, 3 sessions, lifetime 2 of 4 ticks; `player`: 3 overlapping plays. A third track has no adapter reference: it is asked for once, beside one stream, since it only leaves a decision |
| `PlaybackRevival` | violation, see section 5 | - |
| `Sortition` | seats, membership and alternates; every draw is a permutation, final and complete | `seats`: 2 houses of 3 candidates sharing an identity and a wallet, 1 seat and 1 alternate, every draw; `draw`: all 24 sequences of positions of 4 of 4, with a second session competing for 2 request ids |
| `AccountFlows` | assurance earned, rows agree, capability follows support; the player and the account trust page show what is so | four flows. 2 wallets, 2 credentials, 2 requests in flight, 2 bindings with 2 intents; 2 challenges and 2 support intents with 2 keys; the player with 3 polls, with confirmation on both sides of the last, submissions and polls that fail, and a repeated submission answered at once; `page`: two bindings, of the page or of another tab, the second after the tick that ends the first, with one user key and authenticators without a counter (growing counters and an intent's end are the other flows') |
| `ChallengeReuse` | violation, see section 5 | 2 requests with one challenge |
| `OnboardingReview` | decisions and claims final, applications truthful, resends keep the cooldown; pages and mails say what was reached | `handlers`: 1 application, 2 invitations, 2 handlers waiting, 2 wallets, 1 challenge, 2 keys, 2 resends in a window of 3 with a cooldown of 2 ticks, expiry within the run; one scope for each page with 2 requests under way; `mail`: every script of replies |
| `OnboardingWallet` | violation, see section 5 | - |
| `EnrollmentRows` | rows never say more than the chain, wallets unique, queue consistent, funded rows final; every claim ends funded or refused for a lasting reason; the listener pays what was shown | `enrolling`: 2 invitations, 2 wallets (so also one wallet for both), 2 faults, expiry within the run; `listening`: 2 accounts of the wallet, 2 versions of the plan, 2 refreshes and 2 transactions |
| `EnrollmentExpired` | violation, see section 5 | no fault needed: only time |
| `SupporterRelay` | one active credential, intents mint once, credentials final and within the cap; the relayer runs a key once until it forgets it, the page's token is its own, the caches are recent, the registry's indexes follow its records | `relaying`: 2 holders, 2 intents and 2 tokens (so also one holder registering anew), 2 policy versions that lower or raise the cap, 2 operations in a map of 1 so that evictions happen, deadlines and the early period's end on both sides of the clock; `supporting`: the page with 2 looks; `registering`, `listing`, `readying`: 2 creator accounts, 2 commitments, 2 readings under way, both periods over within the run |

`CHECK_DEADLOCK FALSE` everywhere: the bounds on time and identifiers stop the
model, and contracts and servers may stay idle.  Symmetry is used only for sets
whose members nothing distinguishes, and not in runs with liveness.

`LeaseIsExclusive` is stated for sessions that were never released: once
`PlaybackRevival` has happened the code itself breaks exclusivity, so the property
says that nothing else does.

### 3.1 Fairness

* `GovernorLifecycle`: time passes and someone calls `finalizeProposal`, which is open
  to everyone once the window is over.  Nobody is assumed to vote or deliberate.
* `GovernorRelay`: the relayer's awaits are answered (`Answers`), if only by the
  timeout its client gives every receipt.  Blocks, members and requests are not fair.
* `Sortition`: someone keeps calling `finalizeNextSelection`, also open to
  everyone.
* `PlaybackLeases`: time only.  No client, adapter or restart is assumed fair.
* `EnrollmentRows`: the event loop resumes answered awaits (`Operate`), the
  reconciliation timer fires for each unfunded row (`Reconcile`), the chain mines
  its pool (`Mine`).  Timeouts, reverts for outside reasons, drops, crashes and
  deactivations are faults: never due, and bounded, since with unbounded ones no
  retry scheme terminates.

## 4. Proofs

`tlapm` checks every leaf.  Constants are arbitrary, under the named assumptions of
the modules (finite sets of members, positive delays, a numeric range for sizes), so
each theorem holds for any number of accounts, members, invitations, requests in
flight and deliveries.  None of the state predicates below is inductive as a run
states it; each proof has an invariant of its own, which TLC checked before it was
proved.

**Sums** (`SumTheorems`).  Tallies, spent credits and evidence are defined with the
library's `SumFunctionOnSet`, a fold over a finite set in an order `CHOOSE` picks.
`TableExists` and `TablesAgree` show that the fold's table of partial sums is there and
unique, `Picked` that the value over a set does not depend on the element picked; each
by a smallest counterexample among the subsets (`Smallest`, from the well-foundedness
of strict inclusion).  `SumStep`, `SumSame`, `SumOne`, `SumChanged`, `SumJoined` and
`SumZero` are what the other proofs cite.

**Governor** (`BicameralGovernorProofs`).  `TypeCorrect` first: it is inductive by
itself once the tallies and nonces range over integers and naturals.  Then four
invariants.

`OutcomeInv` says what a proposal's stage implies about earlier stages:

* `NewestUnused`, `BlankUntilRegistered`: identifiers above the count are blank, so
  registration cannot overwrite history;
* `StagesInOrder`: executed implies queued implies reviewed implies approved and
  finalised, and cancelled excludes executed;
* `EvidenceIsOfTheCall`: recorded evidence is of the registered call;
* `TimelockIsLongEnough`, `CallInWindow`: the timelock was set with the class's
  delay, and a call in the history was made in its window;
* `SessionBeforeVote`: a voting window starts no earlier than its session, so
  membership is closed before a ballot can be cast.

`ExecutionAuthorised` and `ExecutionOnce` follow from it;
`ElectorateIsFrozen` and `VoteIsFrozen` are action properties proved from the
guards under the invariant, and `VoteIsFixed` is both, as the run states them;
`GovernorImplementsLifecycle` shows that initial states
and every step map to `ProposalLifecycle`.

`BallotInv` is about the ballot box: ballots are of members with a house and of
registered proposals (`BallotsFit`), unregistered proposals have blank tallies
(`BlankTallies`), score and participants are what the ballots add up to
(`TalliesMatchBallots`), a member's spent credits are the squares of the member's
ballots in a session (`SpentIsCostOfBallots`), and a finalised result is that of the
tallies (`ResultIsOfTheTallies`).  Replacing a ballot changes one summand of each
(`SumChanged`).  `BallotsCounted` follows, and with `OutcomeInv` `CallsApproved`: a call
that was made had a majority and a quorum in both houses, counted anew from the box.
`RelayInv` (`RelayedAreSpent`: an accepted ballot's nonce is behind its member's, so the
next one is new) gives `NoncesCount`; `CfpInv` (`BindingsAreOfRegistered`) gives
`CfpBound`.

Beside others the governor's own specification is too narrow: the page signs for any
account and house, and the relayer sends what it was given.  `OpenSpec` therefore lets
anything be signed, and `SafeWhateverIsSigned` proves that the four invariants hold of
it: the contract checks what it is sent.  `RelayerRefinesGovernor` and `PageIsOpen` show
that the relayer takes only steps of `Spec`, the page beside it only steps of `OpenSpec`.
`AnswerInv` says of the relayer that a pool entry is of its operation (`PoolIsSent`) and
that an operation which told of a confirmation has its ballot counted (`ToldIsCounted`;
two such ballots differ since the second one's nonce was new): `ConfirmedIsCounted`.
For the page, `PageInv` adds that counted ballots are of seated members
(`RelayedAreSeated`), that proposals have no gaps (`NoGap`), and what a reading, a
registration or a call of `castVote` under way holds (`ReadsFit`, `JoinsFit`,
`VotesFit`): `PageIsTrue`, from `GovernancePageAssumption`.

**Sortition** (`VerifiableSortitionProofs`).  `DrawIsDuplicateFree` says that no
candidate is drawn twice, for any population and numbers of seats.  It needs
`DrawInv`: sizes fit, and for each session and house a partition - positions above
the remaining pool are untouched, drawn candidates are distinct (`DrawnApart`),
pool positions are distinct (`PoolApart`) and disjoint from the drawn, and no
candidate is in neither (`NoneLost`).  The step that draws swaps the last candidate
of the pool into the hole; `DrawPartition` is that step, for an arbitrary position.
For the seats, one lemma per action shows `Advances`: what exists of a round stays, the
order grows at its end, ranks and identities stay used, members stay in their house.
`SeatInv` then holds of each holder separately (`HoldersHold`), of two
(`HoldersApart`), of the limit of active ranks (`LimitFollows`) and of the order
(`OnlyDrawn`); `SeatsFollow`, `HoldersVote` and `DrawStays` follow.

**Playback** (`PlaybackGatewayProofs`).  `OneLease` needs two facts beside the types:
a session that was not released is in a live state (`Unreleased`), and of two
unreleased sessions of an account one is past its lifetime (`OneUnexpired`), since the
gateway lets an account begin anew when the lifetime is over without ending the old
session's row.  `KeyIsIdempotent` and `BytesAreEvidence` are parts of the invariant.
`EvidenceOfTheRecorded` adds that evidence is the sum over recorded deliveries (a
delivery that a restart cuts is not one of them, see section 5): a delivery is
recorded in one step with its session's evidence, and no other step changes either
summand or sum.  Of range requests, `ServesWhatWasAsked` and `RefusesForCause` compare
the parser with RFC 9110's single range for headers and files of every size;
`LengthFits` is used in the gateway's types.

The player is a client like any other: `PageIsAClient` shows that it takes only steps of
the gateway's specification.  For `LeaseKnown` the invariant says of a live session that
the page holds it, expects it from a play under way or has lost its answer (`Known`,
`Expected`), which needs `OneUnexpired` and that there is one account (`OneAccount`,
assumed for these theorems alone: the page has one cookie).

**Onboarding** (`ParticipantOnboardingProofs`).  The handlers that wait for the mail
server are what makes it hard: `CallsLinked` says what each still holds when its answer
comes (an approval, the invitation it made, of its own applicant; a verification, a
challenge that exists), and `Linked` that a decided application names an invitation.
`History` relates a row's memory of its resends to the resends there were, so that
`ResendsPaced` follows from the row alone.  `ApplicationsTrue` is part of the
invariant; `OutcomesStay` is proved from the guards under it.

The pages are clients like any other (`PagesAreClients`, over `RegistrationPages`, where
all of them act side by side).  `Lasting` is what a page may rely on while answers are
late: outcomes stay, mails and signatures are kept, and a challenge's number is not given
twice, also over a restart.  So what an answer under way says is still so when it comes
(`Shown`, `Line`, `ListsTrue`), and a wallet shown after its challenge is one that signed
this link (`WalletSigned`).  An applicant's confirmation needs more than its own
application's state (`Confirmed`: the invitation was claimed too, and an application
never changes its invitation after approval).  The mail is a lookup in two scripts:
`MailOnce` says that the second conversation has written nothing while the first goes on
and never begins after a refusal, `MailTold` that only an accepted text comes before QUIT,
`MailAddressed` that a bad address stops before RCPT.  `RegistrationSaysWhatIsSo` puts
them together.

**Enrollment** (`ParticipantEnrollmentProofs`).  `Knowledge` is the core: what a phase
of the operator or a receipt that succeeded tells about the registry is so.  It holds
because the registry only ever gains (`RegistryTrue` says what it may gain: the wallet
that claimed).  With `Awaiting` (the outcome of a receipt belongs to the kind of
transaction the phase sent), `RowInProgress` and `QueueOnce` it gives `RowsBacked`,
`RunsOnce` and `FundedStays`.  `WalletsAreUnique` is the registry's own
invariant, which holds although the operator looked before it sent.

The listener's page (`ListenerPage`) is about prices that travel: from the plan to a
reading, to what is shown, to the arguments of a transaction, and back with its receipt.
`ListenerInv` says of each place that the price there was its version's price (`Known`),
that references under way are apart (`ReferencesApart`) and which refreshes may still end
(`RefreshesEnd`); that a completed action was done stays true because the contracts only
add (`ChainMoves`): `PaysWhatWasShown`, from `ListenerAssumption`.

**Account trust** (`AccountTrustProofs`).  A binding's state may go back when two
requests of one transaction overlap, so the levels are stated as facts a binding never
loses (`Asserted`, `Registered`: audited, and a saved passkey), and the invariant says
which level each state implies (`Levels`) and which one a request in flight was
received at (`Held`).  `AssuranceHolds` and `RowsTrue` follow.  `SessionInv` says that
every support intent's address was proved, and that its confirmation lies at least the
delay ahead; `CapabilityEarned` follows.

`PlayerIsTrue` depends on numbers: each submission of an intent starts its confirmation
anew, so the polls of one submission see the activation only if they outlast all that
may be under way (`PollsOutlast`: finitely many requests, and more polls than the
confirmation's delay for each).  The page polls 6 times a second apart against 600 ms,
which covers five overlapping submissions; the run has 3 polls, 2 requests and a delay
of one tick.  `Outlasts`, in the invariant `PlayerInv`, counts what may still come,
including confirmations that submissions the page has given up may start.  The theorem
speaks of loops that reached their end: one that a failed poll cut short promises
nothing, and the page shows FAILED although the registration may be active.
`TrustPageIsTrue` rests on `LevelsShown`, what rows and audit keep of every binding and
never take back, and on `PendingIs`: the request awaited is for the binding the page
began, since `run()` lets one operation go on and nobody else has its CSRF token.
`PlayerOwnsNothing` and `TrustPageOwnsNothing` show that both clients take only the
account's steps.

**Supporter credential** (`SupporterSBTProofs`).  `OneCredential` is inductive with the
types, because each of revoke, burn and register changes the credential, its owner and
`activeTokenOf` in one step.  `HonouredOnce` is not: it needs that the nonce a token was
minted with is behind its holder's counter (`NoncesAreSpent`).  `EarlyCapped` needs
`IssuedCounts`, that `earlyIssued` is the number of early credentials ever issued.
`OnlyEnd` follows along the way.  `RelayerRefinesSbt` shows that the
contract behind the relayer takes only its own steps, so that all of them hold of the
composed system.

The relayer's memory is a sequence of operations (`EntriesOK`): each entry runs or has
answered, a key has one entry, and what runs without one was evicted.  A failing
operation forgets the entry its key has by now, which is another's only after an
eviction.  Of the page, `PageOK` says that every token shown or read by a look
was minted for a wallet and a creator of the page (`TokenOK`; the contract's part is
`ActiveTokens`, from `OneActiveCredential` and `OwnersSigned`), and what a request under way
holds; `OpsOK` that only what its holder signed goes on in the relayer.
`SupporterPageCorrect` follows for a contract for which anybody signs (`LedgerMoves`), and
so do the credential's own promises behind the page.

Of the registry, the indexes and the counts are inductive with the types
(`IndexesCorrect`).  For the caches, `ListingOK` and `CheckOK` say that what a reading has
found was so no earlier than it began, which rests on `HistoryOK`, that the history of an
active creator is up to date, and on `AccountsStay`: `AnswersRecent`.  `RelayIsTold` puts
the parts together.

**Model-checked only**:

* liveness: `ProposalsAreDecided`, `EveryRelayIsAnswered`, `LeaseIsFreed`,
  `DrawCompletes`, `EnrollmentCompletes`.  The prover has no `ENABLED`, so a step's
  fairness cannot be used.
* Scopes.  The theorems are about each module's own specification; an MC module runs one
  of several in a behaviour, within the bounds of the table above.  That a composition
  takes only the module's own steps is proved for the supporter relayer, the governor's
  relayer and page, the player (both parts), the account trust page and the onboarding
  pages; that an MC module's scopes restrict those compositions is read off its text.

## 5. Where code and documents differ

| Run | What the run shows | Document |
| --- | --- | --- |
| `PlaybackRevival` | a delivery that was waiting for the adapter sets STARTED on a session closed or expired meanwhile | `protocol/streaming/playback-authorization-spec.md:293`, `:175` |
| `OnboardingWallet` | the claiming wallet need not be the one that signed the invitation, after the account's wallet was replaced | ADR-0020 `:22`, `account-lifecycle-spec.md:227` |
| `EnrollmentExpired` | an enrollment not approved within its period is retried for ever with the expired date | `account-lifecycle-spec.md:235` |
| `ChallengeReuse` | two requests in flight with one challenge are both verified | `protocol/account/wallet-linking-spec.md:214` |

Smaller differences, which no run states as a property:

* Playback: an allowed decision is recorded before the adapter reference is looked up,
  so a track without one leaves a decision without a session (`CreatePlayback`,
  `server.js:304`).
* Playback: a delivery that is open when the gateway restarts leaves no evidence of the
  bytes it sent, since `record` is called only by callbacks in memory
  (`server.js:350`-`373`), where `playback-authorization-spec.md:173`
  (REQ-STREAMING-023) demands evidence of every accepted delivery response; `:93` of
  the same document allows that evidence be missing.  In the model `Restart` turns such
  a delivery to "lost"; `EvidenceIsRecordedOnce` is about the others.
* Onboarding: overlapping approvals, or one after an error answer to a mail that went
  out, mail two invitations where ADR-0020 speaks of one (`Approve`); a rejection while
  an approval awaits the mail server leaves the invitation claimable, where ADR-0020
  (`:20`) makes none; the resend limit counts in fixed windows from the first resend,
  so a period across two windows holds more resends than the limit (`ResendCount`).
  Nothing creates an application of version 1 any more, so `resendVerification` has no
  caller that can use it.
* Mail: a first conversation that breaks after the server accepted the text is followed
  by a second copy, and a refused QUIT reports failure of a mail that was accepted.
* Invitation page: a claimed invitation past its expiry is shown as unavailable; the
  retry button passes its event as `silent`; after a restart of the gateway the page
  still shows the wallet as verified, and only a reload recovers.  Applicant page: a
  poll answered after a change of session shows the previous applicant until the next.
* Governance page: `registrationHouse` survives a change of account; overlapping
  refreshes each clear `busy`; changing the proposal's number without a refresh votes on
  the other proposal in the shown one's session; the house may be a previous account's.
  The relayer or the contract refuses the last two where they matter.
* Account trust page: handlers do not look at the transaction's state after the await, so
  a second registration or wallet answer still under way moves an ACTIVE row back to
  PASSKEY_REGISTERED or replaces its wallet, while the page shows the level as reached;
  a lost answer to begin leaves the account refused (409) until the binding expires; the
  status is that of the latest row, which another tab may have begun; after a reload the
  buttons are enabled and throw, since the CSRF token is gone.
* Listener page: a refresh of an earlier account that ends late shows that account's
  data for the new one, or after leaving the network; connecting again during a
  transaction frees `busyAction`, so transactions overlap; a choice changed while a look
  is under way shows the earlier choice's token; the stage COMPLETE may stand with token
  0 after a change of account.

## 6. Not modelled, and the plan

Not modelled: roles and pausing of the contracts where they are only a reason for a
transaction to revert, events and audit rows, formatting and parsing other than the
Range header, the site's static content, scripts and deployment; of the pages the
manifest and metadata, the listener page's player of synthetic tones and the redirect
to the cloud; the participant registry's revocation; transfers of the practice money.
Mail servers, wallets, RPC servers and media are environments.

Next, in this order:

1. `PolDistributor` (caps, budget, cooldown, operation ids), composed with
   `ParticipantEnrollment`; the creator's page in front of `CreatorRegistry`.
2. The client that disconnects before the gateway's listeners are attached; a
   composition of onboarding and enrollment with an abstract specification "one
   application, one participant".
