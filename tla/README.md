# Verification of vgr-api

VGR is an emergency-reporting API: people report cases (a missing person, an
animal in danger, violence), others offer help, operators of a panel moderate,
authorities may freeze a case, and a monetary reward may stand behind it. The
implementation is a TypeScript/Express server over MariaDB (`src/src`), with
its decisions recorded in `src/docs`. "Decision n" below is the numbering those
documents and the comments of the code share.

This directory holds TLA+ models of it, the TLC runs that check them on small
instances, and TLAPS proofs for every value of the constants.

## How the program runs, and how the models run it

A route calls a controller, a service and a repository. A service is an `async`
function: it reads, checks, perhaps asks the Legal Gate, and writes, with an
`await` at every statement. Statements autocommit; only a few operations open a
transaction. Several requests therefore interleave at every `await`, in one
process or in several, and a failing statement or a dying process leaves what
was already written. Most checks are made on rows read some statements before
the write, and most writes name the row by id alone. That is what every model
here is about.

All modules share one form (module `Handlers` states it; the three older
families, reward, retention and legal, have it built in):

* a handler in flight is a **request slot** `rq[r]`: the operation, the await it
  stands at (`pc`) and what it has read so far. An action runs from one await to
  the next. Slots stand for any number of processes: nothing but the database
  and, in `LegalGate`, `PanelGuards` and `FeePolicy`, a process's caches is shared;
* `GivesUp(r)` (`Drop(r)` in the older modules) is a refusal by the Legal Gate,
  an error of the database or of the payment rail, and a crash, at any await;
* a handler that is refused before its first write changes nothing, so its begin
  action is simply not enabled;
* a transaction is one action where its locks order it with every other writer
  of its rows, and it reads the clock once if at all. The transaction of a
  sighting stamps two rows, and has an action for each;
* rows that the code never looks at again (forensic log entries, most audit
  rows) are left out unless a property is about them. What a property needs to
  remember and no table keeps is a variable or a field marked "history".

## Inventory

Paths are below `src/src`.

| Component | State it keeps | Operations | What is hard | What makes it correct | Status |
|---|---|---|---|---|---|
| `modules/reward` | offer, recipients, criteria, resolutions, contests, mediation log | offer, onboard, publish criteria, reserve, propose, approve, contest, close contest, cancel, execute, read state | check, gate and write are three awaits; two persons; a window in days; the rail moves money before the rows do | money moves only on the verdict of two mediators after the window; the stored status never runs ahead of the money | modelled, proved |
| `shared/payment` | the provider's charges | reserve, capture, cancel, retention state | capture of a settled charge succeeds; expiry by the provider | seen through `reward` | partly |
| `modules/reports` (life cycle, evidence, freeze) | report, timeline, media links, unfreeze requests | submit, edit, resolve, attach, freeze, ask and approve unfreeze, purge job | edits against resolve, freeze and purge; clocks rewritten by thaws | purge only after retention; nothing comes back; thaw by two | modelled, proved |
| `modules/reports` (reading) | none | detail for owner, participant, third party and panel; bytes of a medium; exact position | a view is put together from up to seven reads while the case changes | nothing shown that the reader was not entitled to at some moment of the request | modelled, proved |
| `modules/reports` (desk of the panel) | hidden and reviewed flags | queue, search, statistics, hide, unhide, review | tiers, count and rows are read apart; two moderators at once | no page passes anybody over; sums add up; the trail adds up to the flag | modelled, proved |
| `modules/media` (evidence) | media rows | block, unblock, freeze, expiry job | a job's batch against attaches and freezes | evidence enters one case, once, and is destroyed loose or with it | modelled, proved |
| `modules/media`, `shared/storage` (objects) | objects beside the rows | ingest, stream, delete | two stores without a transaction, runs that die | a living row has its objects | partly; what is modelled is proved |
| `gateway/scheduler`, `shared/db/job-lock` | database locks | hourly runs | a run that dies or overlaps | one run of each job | partly |
| `modules/legal-policy` | versioned rules, operational state | propose, approve, reject; request and confirm a state | overlapping approvals; stale comparisons | one rule in force, by two managers | modelled, proved |
| `shared/legal` | rule cache of each process, audit rows | may this capability execute? | cache age, outage window, kill switch, dependency | nothing allowed under a suspension or on stale grounds | modelled, proved |
| `modules/accounts`, `shared/auth` | accounts, provider links, refresh tokens, e-mail codes | register, log in, log in socially, refresh, sign out everywhere, verify e-mail | rotation, reuse detection, linking by address | one live token per family; revoked stays out; nobody enters somebody else's account | partly; what is modelled is proved |
| `modules/auth` | panel accounts, codes, TOTP, recovery codes | log in, recover, enrol, activate, renew | attempt counters; a secret that changes under an activation | guesses are bounded; no session without the second factor | modelled, proved |
| `gateway` (auth), `shared/acl` | 60 s caches of sessions and privileges | authenticate, authorize | invalidation against a lookup in flight, other processes | a revoked right is dead within the window | modelled, proved |
| `modules/users` | team users, grants | create, update, delete, grant, reset the second factor | guards that read before the write | somebody can still manage access, unless the last one gave it up | modelled, proved |
| `modules/admin-access` | requests, trail | request, approve | concurrent approvals | the trail names the two | modelled, proved |
| `modules/monetization-config`, `risk-config` | fee rules, tiers, a cache of each | set, read | two caches of different age | no peer-to-peer in high tiers | modelled, proved |
| `modules/messaging` | threads, participants, messages | first message, post, read; panel evidence | retries racing, a rate counted in the database, closing of the case | a retry gets the same answer; the rate holds | modelled, proved |
| `modules/panic` | alerts, recipients, responder pool | apply, decide; trigger, resolve | cooldown against concurrent triggers | one active alert per account | modelled, proved |
| `modules/help-offers`, `ratings` | offers and their fronts, ratings | offer, change fronts, rate | two unique keys, resolution in between | an accepted rating stands | modelled, proved |
| `modules/help-matching` | none | the public feed | tier, rows and direction read apart | as reading of reports | modelled, proved |
| `modules/direction-sightings` | log of sightings, sums | sight, estimate | two tables, retries, ties, two stamps | the estimate is the log's | modelled, proved |
| `shared/audit`, `modules/identity`, `admin-audit` | append-only logs | append, list | | | not modelled of itself |
| catalogue screens; migrations; utilities | rows of their own | | | | not modelled |

Components interact through the database only: the reward, the chat, the
ratings, the sightings, the feed and the jobs read the report that `reports`
writes, and the risk tier that `risk-config` writes; every consequential
service awaits `assertCapability` between its checks and its write, which widens
every race (the models make it one more await, at which the request may also
end); every panel route stands behind `PanelGuards`; jobs run hourly under a
database lock. Where a module needs of another component only the one UPDATE
that disturbs it (a case is resolved, hidden or purged), it has that UPDATE as
an action of its own, mapped to the same lines.

## Modules

| Module | Lines of `src/src` | Contents |
|---|---|---|
| `RewardMediation` | `modules/reward/*`, `shared/payment/asaas-payment-rail.ts` | the reward of one report |
| `EscrowedReward` | | the abstract promise of an escrow |
| `CaseRetention` | `modules/reports/reports.{service,repository}.ts`, `modules/media/*`, `gateway/scheduler.ts` | cases, evidence, the two jobs |
| `EvidenceCustody` | | the abstract promise about a piece of evidence |
| `LegalPolicy` | `modules/legal-policy/*` | rules and operational state |
| `LegalGate` (extends `LegalPolicy`) | `shared/legal/legal-gate.ts` | the gate of one process beside its administration |
| `Handlers` | `shared/http/controller-utils.ts` | how a request runs |
| `AppSessions` | `modules/accounts/*`, `gateway/app-auth.middleware.ts` | refresh families, reuse, sign-out everywhere |
| `AppAccounts` | `modules/accounts/*`, `shared/auth/social-verifier.ts` | registration, login, social login and linking |
| `VerificationCode` | `modules/accounts/*`, `modules/auth/password-recovery.service.ts` | the six-digit codes of both planes |
| `TwoFactor` | `modules/auth/*` | enrolment, login, recovery codes, reset |
| `PanelGuards` | `gateway/auth.middleware.ts`, `gateway/require-privilege.middleware.ts`, `shared/acl/*` | what stands before a panel route, with its caches |
| `PanelUsers` | `modules/users/*` | team users, grants, lockout guards |
| `DualControl` | `modules/admin-access/*`, `shared/audit/admin-audit.ts` | opening the accountability log by two |
| `FeePolicy` | `modules/monetization-config/*`, `modules/risk-config/*`, `shared/risk/risk-tier.ts` | fee rules, tiers, the veto |
| `MaskedChat` | `modules/messaging/*` | threads and messages of one case |
| `PanicAlerts` | `modules/panic/*` | responders, alerts, cooldown |
| `HelpAndRating` | `modules/help-offers/*`, `modules/ratings/*` | offers, fronts, ratings |
| `DirectionSightings` | `modules/direction-sightings/*`, `shared/direction-sighting/*` | the log, the sums, the estimate |
| `ReportViews` | `modules/reports/*`, `modules/help-matching/*`, `messaging/chat-admin.service.ts` | who is shown what of a case |
| `ReportLists` | `modules/reports/reports-{queue,admin,stats}.*` | queue, search, statistics |
| `Moderation` | `reports-admin.*`, `modules/media/media.*` | hide, block, review and their trail |
| `MediaStore` | `modules/media/*`, `shared/storage/*` | rows and objects |
| `KeyedWrites` | | the abstract promise of a client key: one row per key, and answers that name it |
| `MC...` | | instances for TLC |
| `LegalProofs` | | proofs about rules, states and the gate |
| `RewardProofs` | | proofs about the reward: types; verdict, window, contest, escrow |
| `CaseRetentionProofs` | | proofs about retention, thaws, custody and the evidence's clock |
| `PanelProofs` | | proofs about `DualControl`, `FeePolicy`, `TwoFactor`, `VerificationCode`, `PanelGuards`, `PanelUsers` |
| `AppProofs` | | proofs about `AppSessions`, `AppAccounts`, `MaskedChat`, `PanicAlerts`, `HelpAndRating` |
| `DeskProofs` | | proofs about `MediaStore`, `Moderation`, `ReportViews`, `ReportLists`, `DirectionSightings` |
| `ServiceProofs` | | proofs about `MCService`: the types of all its modules, and its client keys |

Operators named `...Misspelt`, `...Anyone`, `...ByKey` and the like stand
before the action whose plausible mistake they describe ("Mutated form"). No
specification uses them; each shows that a property would notice the mistake.

### RewardMediation

One report, hence at most one offer. `offer`, `recipients`, `onboarded`,
`criteria`, `resolutions`, `contests` and `log` are the tables, `rail` the
provider's charges, `now` the day. `ReadReservedOffer` is the common prefix of
the panel handlers (`reservedOffer`), `XCheck` the reads and checks of handler
X, and the action named as the repository function its write.

Abstractions. Days pass only while no request is in flight (a request is
seconds, the window and the retention are days). `findLiveResolution` has no
ORDER BY: any live row may be the answer. The rail refuses to refund a charge
it no longer retains, and accepts a capture of one that is DONE, as
`asaas-payment-rail.ts` does. Retained money leaves by the service's
instructions or by expiry. Onboarding is one step, since a UNIQUE key decides.
`Logged` bounds the operations whose log rows are kept.

### CaseRetention

`report`, `media`, `link` and `asks` are tables, `expiry` and `purge` the runs
of the two jobs (a batch selected, then worked off row by row). Expiry dates are
days left, `Never` for NULL, so that time needs no bound; what is still in
flight when a day passes has died. `term`, the days until the resolution is
`RETENTION_DAYS` old, is a history variable: the code only keeps the expiry,
which freezes and thaws rewrite, and the properties compare the two.
`Attachable` says which owner may present which upload; anonymous uploads may be
presented by anyone who has their key (`AnyOwner`). Timeline rows are kept as
the set of payloads not NULL. What `purgeReport` does to the chat is in
`MaskedChat`, what becomes of the objects in `MediaStore`.

### LegalPolicy and LegalGate

One jurisdiction, the installation's. A rule's id stands for its version. The
activation is one action: it is a transaction whose row locks order it with
other activations of the capability. `Lapse` passes a rule's `expires_at`.
`LegalGate` adds a process: its `ruleCache`, and questions that read the
jurisdiction, look in the cache, query, store the answer and go on to the
capability required. Query and continuation are two actions, since an
invalidation may come between. Ages are ticks since an event, and stop at `Old`,
past every window. `since`, `open` and `basis` are history. A question lasts at
most `Span` ticks.

### The app plane: AppSessions, AppAccounts, VerificationCode

`tokens[i]` is the pair that `issueSession` hands out, the row of
`tb_refresh_token` and the access token signed with the `session_version` its
handler had read. Three variables are history: they are written after every
step and guard none. `excused` has the families on which two handlers, or a
handler that died half-way, worked at once; the rotation is not atomic, and the
code does not keep such a family to one live token (see Deviations). `met` has
what a revocation between its two statements has met: the rotations under way and
the families founded meanwhile. `ended` has the families that a revocation
completed without meeting them; for these `RevokedStaysOut` holds whatever
overlapped before and whatever comes later. In `AppAccounts` an address has
one owner, but anybody may register it; an identity whose provider does not
vouch for the address is nobody's but its own. `entered` is who got in where.
`VerificationCode` has both planes' codes in one form, `age` measured by
`updated_at` as the code measures it and `trueAge` by when the code was sent.

### The panel: TwoFactor, PanelGuards, PanelUsers, DualControl, FeePolicy

`TwoFactor` follows the password-only attacker's view of one user: what is
`opened` by the password alone, by a code and by a recovery code. `crossed`
says that a secret was replaced or cleared while an activation was under way.
`PanelGuards` has the two caches of each process as entries with the time they
have left; `rq[r].late` is how long before a request was let in the row had
stopped saying what it was let in on. `FeePolicy` has the same two caches with
ages of their own; `high` is how long the tier has been high. In `PanelUsers`
what a user may do is read when the guard lets a request in, and the request
writes later.

### The community: MaskedChat, PanicAlerts, HelpAndRating, DirectionSightings

One case each. `answered` and `accepted` are what clients were told, which the
properties compare with the tables and with later answers. UNIQUE keys are
guards of the inserts; a handler whose insert fails goes on, as the code does,
by reading the row that won. `PurgeChat` is the purge's UPDATE of the messages.
It assumes of its surroundings that no post which found the case open
(`FoundOpen`) is still in flight when the retention of the case is over.

A device keeps its writes in an offline queue and sends each again, under the
same client key, until it is answered. `KeyedWrites` says what that rests on,
without requests or tables: a key stores one row, for good, and whoever sends it
is told of that row or of nothing. Four modules implement it, each by a mapping
of its own tables: messages by thread, sender and key (`ChatKeepsKeys`), alerts
by key with their recipients (`AlertsKeepKeys`), ratings by key with their offer
and score (`RatingsKeepKeys`), sightings by key (`SightingsKeepKeys`; a sighting
is answered with the estimate of the moment, so that nobody is told of a row).

### What is shown: ReportViews, ReportLists, Moderation, MediaStore

A reader changes nothing, so the models of readers turn things round: `dossier`
is everything a view depends on, other handlers appear as the changes they make
to it, and `span` is the history of the dossier during the request. A view is a
set of fields. In `ReportLists` a page is compared with what the list was
between its reads, with rows that `stirred` in between excused: a row that did
not change may not be missed because another did. Statistics below `CountFloor`
are told as "fewer than". `Moderation` has the whole of the acts that the two
others need as single UPDATEs, with the trail they leave; `unnoted` remembers
the flags of which an act died, or was overtaken, before its audit row.

## Runs

All runs say CHECK_DEADLOCK FALSE: a server at rest has nothing to do, and the
bounds on rows and days end the longer behaviours.

| Run | What it shows | Bounds and why they are enough |
|---|---|---|
| `reward` | `TypeOK`, `PaidNeedsVerdict`, `TwoPersonRule`, `WindowElapsed`: no interleaving reaches the rail or pays anyone on paper without two mediators and an elapsed window; `StandingContestBlocks`: a contest filed before an execute request and still open stops it; `KeepsTheEscrow`: the service implements `EscrowedReward` | two slots (every race known is between two handlers), two mediators, three help offers of which one anonymous; by `Narrow`, one recipient, one charge, and either a second resolution or a contest; or two recipients and the second charge, and neither: what the second row of each table adds is followed by itself |
| `drift` | `DriftReconciled` (liveness): an offer whose charge was refunded or expired does not say "reserved" for ever | one slot, two charges, two days, `LiveSpec`, no symmetry |
| `paid_refund` | counterexample to `PaidMeansReleased` | two slots, two resolutions, one charge: two proposals pass the check together and both resolutions are approved; the execute requests overlap, and the rail is asked to refund before it is asked to capture |
| `retention` | `TypeOK`, `PurgedIsBlank`, `PurgedOnlyAfterRetention`, `ThawByTwo`; `KeepsCustody`: the implementation of `EvidenceCustody`; `ClockKept`: evidence of a resolved case leaves its clock in three ways only: attached past the resolution, the resolution died between its two statements, or a thaw had read the case open | one anonymous upload, two slots, both jobs; by `Narrow`, two cases that contend for the upload; or one that is edited; or one that is frozen, thawed by two operators and frozen again, whose medium is never blocked and no longer waits for an owner once the second request for a thaw is filed |
| `live` | `OrphansGo`, `ResolvedCasesGo` (liveness): orphans are destroyed, resolved cases purged or frozen, although jobs and requests die | one case, one upload, one ask, no symmetry |
| `shred_frozen` | counterexample to `FrozenNeverShredded` | one case, one upload |
| `null_clock` | counterexample to `ResolvedHasClock` | one case, one ask |
| `gate` | `TypeOK`, `RuleByTwo`, `OneInForce`, `SuspensionStops`, `NoStaleAllowance` | two rules, the one dependent pair of capabilities, two managers; TTL 1, degraded window 2, a question of up to one tick. Four scenes, chosen in the initial state, keep apart what does not interact: overlapping rule handlers; overlapping state handlers; questions beside one handler; the same in the sandbox |
| `loosen_alone` | counterexample to `LooseningByTwo` | one rule, two slots |
| `service` | the properties of the next table, and that each module keeps its types (`ServiceTypeOK`); `KeysKept`: four of them implement `KeyedWrites` | sixteen scenes, below |
| `recovery_window` | counterexample to `PanelCodeExpires` | the scene `codes` |
| `no_factor` | counterexample to `NoSessionWithoutFactor` | the scene `factor` |

Every retention and window is one unit: a second unit only adds days on which
nothing new is enabled. What the small bounds do not show, the proofs below
cover where they exist.

### The scenes of `service`

`MCService` extends the sixteen modules written over `Handlers`. They share no
table, so that running them side by side would multiply their states and show
nothing more: a behaviour is about one of them, its `scene`, chosen in the
initial state, and the others stand still. All scenes have two slots. One run
checks all properties in all scenes: outside its own scene a property speaks of
initial tables.

| Scene | Module | Property | What it says | Bounds |
|---|---|---|---|---|
| `sessions` | `AppSessions` | `OneLiveToken`, `RevokedStaysOut` | a family has one live token; once a reuse or a sign-out has run to its end, no token of a family is live and no access token passes, except for a family being rotated or founded between the two statements | one account, three tokens and one bump of the version, or two and two (a revocation after a revocation); a handler gives up only once it has written, and a sign-in overlaps signing out alone |
| `accounts` | `AppAccounts` | `NoTakeover`, `ComesBackToSameAccount` | nobody enters what another made; a person let in once comes back to that account | one address, two identities that own it, one that claims it, one without; two accounts, one failed login counted |
| `codes` | `VerificationCode` | `GuessesBounded`, `WipedForItsOwnGuesses` | wrong guesses at a code are at most the tries, those in flight and those whose count died; a code is wiped for guesses made at it | both planes, two codes, three tries (the code has five), one lost count |
| `factor` | `TwoFactor` | `FactorIsProved` | unless a secret changed under an activation, the enabled factor is one its user proved | two secrets, two sets of one recovery code |
| `guards` | `PanelGuards` | `LetInWithinTtl` | a revoked version, flag or grant lets nobody in after the cache's life | one process, TTL of two ticks, one bump; one request beside one that kills sessions |
| `users` | `PanelUsers` | `LastGrantorGoes` | nobody may grant any more only because the last who could resigned (cut their own access down or deactivated themselves) or was removed by somebody who may not grant | two users, one of them administrator at first |
| `dual` | `DualControl` | `TrailNamesTheTwo` | the trail names the approver on the row, never the requester | three users, two requests |
| `fee` | `FeePolicy` | `PeerToPeerVetoed` | a category high for as long as a tier is cached is not answered with peer_to_peer | one process, tiers cached one tick and rules two (the code caches both 60 s; the shorter tier keeps the two caches out of step), rules set one at a time |
| `chat` | `MaskedChat` | `RateBounded`, `KeysKept` | the overshoot of the rate is below the slots; a retry is answered with the same message | one helper, three messages and keys, a rate of one; the helper posts by the report, the owner once by the thread and before the helper's first message is stored; what the owner reads is followed alone and last; hidden only while open |
| `panic` | `PanicAlerts` | `CooldownHolds`, `KeysKept` | one active alert per account unless triggers overlapped; a retry gets its own alert | one account and the anonymous, one responder with two memberships (so that a duplicate happens), two alerts; a denied membership is not approved again, and a trigger without an account is the first |
| `help` | `HelpAndRating` | `KeysKept` | what the owner was told is what the table holds, whoever asks again | two offers of a helper and of somebody without an account, two keys, two scores, two timeline items |
| `sight` | `DirectionSightings` | `EstimateIsTheLogs`, `KeysKept` | the direction picked from the sums is a heaviest one of the log and, of equally heavy ones, not one that was stored altogether after another; a sighting sent again is counted once | two directions, three sightings, weights 1 and 2, a second that passes (ties, and two stamps of one transaction); the first key reports one of the directions, and only the last one weighs 2 |
| `views` | `ReportViews` | `OnlyWhatWasVisible` | nothing shown that was not visible to the reader at some time | one helper, one medium, two changes under way; readers do not meet, so one request at a time; who has no account is shown what an account without an offer is |
| `lists` | `ReportLists` | `DeskMissesNothing` | a page passes nobody over; the statistics add up | two reports, one with a free tag, pages of one row, a floor of two (the code's is five), one change under way, one list at a time |
| `acts` | `Moderation` | `TrailAddsUp` | sets less clears of a flag are the flag, and the row's author is in the trail | two moderators, one act of each kind answered to each; the acts of a behaviour are about one flag |
| `media` | `MediaStore` | `LivingRowHasItsObjects` | a row with its key has its objects | one upload, three variants |

`KeysKept` is the conjunction of the four refinements of `KeyedWrites`; outside
its own scene each of them stutters. It subsumes `RetryAnsweredOnce` of the chat
and what `AcceptedRatingStands` says of the accepted row, which are theorems of
their own and not checked again here. Client keys are numbers and are drawn in order (`InOrder`), since they
are interchangeable. `Symmetry` permutes the slots only. The run has about 820 000
distinct states, and every action of the sixteen modules fires.

### Fairness

`ReadFairness` (reward): a request in flight takes its next step or ends, as
Node's event loop and the connection timeouts see to; the case is opened again
and again, and its reads do not fail for ever half-way (strong fairness of the
steps of `getRewardState`, since a read may be dropped any number of times).
`RetentionFairness`: days pass; the scheduler starts each job hourly (weak); a
run may die, but not before every row for ever (strong, on select and on the
work on a row); a request takes its next step or ends. Nothing says that a
panel operator acts, or that a person does; for the same reason the modules of
`service` state no liveness: a request that ends at any await is all that the
code promises, and what must happen later is somebody's next request.

## What is proved

TLAPS proves, for any number of slots, persons, rows, amounts and days:

* `TypeCorrect`: `Spec => []TypeOK` of `RewardMediation`, by `TypeInv`, which
  adds what each kind of request holds (a panel request names a mediator, an
  instructed one a resolution, a reservation a split of the amount);
* `RailNeedsTwoPersons` (`TwoPersonRule`), `RailWaitsForTheWindow`
  (`WindowElapsed`) and `PaymentsNeedVerdict` (`PaidNeedsVerdict`), by
  `VerdictInv`. None is inductive as it stands, because approve and execute
  write by id what they checked earlier. The invariant says why that is harmless:
  an approval in flight was made by another mediator than the proposer, and the
  row it will write over is unapproved or was approved the same day, so that
  its window is not over and no execute request can hold it (days do not pass
  under requests); an execute request past its check names a row two mediators
  agree on, whose window is over;
* `ContestStopsTheRail` (`StandingContestBlocks`), by `ContestInv`: the contests
  an execute request saw when it began exist, and once it is past its check
  none of them is an open contest of its resolution;
* `PolicyTypeCorrect`, `RulesNeedTwo` (`RuleByTwo`) and `NeverTwoInForce`
  (`OneInForce`) of `LegalPolicy`, by `PolicyInv`: the proposer of a rule that
  exists never changes, an approval in flight was made by another manager than
  the proposer of its rule, and any two active rules of one capability are the
  same;
* `GateTypeCorrect`, `KillSwitchHolds` (`SuspensionStops`) and
  `AllowancesAreFresh` (`NoStaleAllowance`) of `LegalGate`, by `PolicyInv` and
  `GateInv`. `GateInv` bounds how long ago a rule was last in force by how old
  each copy of it is: in the cache, in the hand of a question that found it
  there before its query failed, and in an answer not stored yet. It also says
  that a question past the read of the jurisdiction saw it open during the
  evaluation, and that a question under the required capability has passed its
  own. Needed from `PolicyInv` is only that what a rule declares never changes
  (`Grows`).

* `EscrowKept` (`KeepsTheEscrow`): the reward implements `EscrowedReward`, by
  `EscrowInv` beside the types. A step of the abstract escrow allows money to be
  promised, reserved, released or given back only from certain statuses, while
  the service writes the status of an offer it read some awaits ago. The
  invariant says what still holds of the offer then: while a reservation is in
  flight the offer is open or was reserved today, no window is over, and no
  reading of the state has found a charge ended; a reading about to write has
  the provider's word that the charges are settled or refunded; an execute
  request about to mark the offer left the charges settled or refunded. That days
  do not pass under requests is used once: what is reserved was reserved today,
  and cannot have expired while its row is written;
* `RetentionHolds` (`TypeOK`, `PurgedIsBlank`, `PurgedOnlyAfterRetention`),
  `ThawNeedsTwo` (`ThawByTwo`, about the request the thawing handler holds) and `CustodyKept` (`KeepsCustody`) of
  `CaseRetention`. The jobs work off batches selected earlier and requests write
  rows read earlier, so that the invariant is about what they hold: a case in
  the hand of a request is not over, one in a batch of the purge is and stays
  so until the batch is done, and evidence in a batch of the expiry was and
  still is to be destroyed (that it may have been frozen since is finding 2).
  `EvidenceKeepsItsClock` (`ClockKept`) adds what a thaw holds: the status it
  read is the case's or `open`, and the clock it will write is the one of that
  status, so that only a thaw which had read the case open takes a clock away;
* the panel. `DualTrail` (`TrailNamesTheTwo`): a request before its audit row
  holds what it is about to say. `Vetoed` (`PeerToPeerVetoed`): a copy of a
  tier, in the cache or in a request, has as much less to live as the tier has
  been high. `FactorHolds` (`FactorIsProved`): while no secret changed under an
  activation, an activation is about the confirmed secret, and a login that
  found the factor enabled had a code. `BruteForceBounded` and `WipedForItsOwn`
  (`GuessesBounded`, `WipedForItsOwnGuesses`): the invariant is an account of
  the guesses, those in the column, in the hands of requests and lost with them,
  as cardinalities of sets of requests. `KilledWithinTtl` (`LetInWithinTtl`): an
  entry that no longer says what its row says has as much less to live as the
  change is old, in every process, and what a lookup holds went stale within
  the tick. `AccessStaysManaged` (`LastGrantorGoes`): a request about to write does
  not delete its own author nor empty its author's access to either resource, so
  that a step after which nobody may grant is a resignation, or its author may
  not grant at that moment;
* the app. `SessionsHold` (`OneLiveToken`, `RevokedStaysOut`): for a family no
  two handlers worked on, a refresh about to mark has the only live token and one
  about to issue leaves none. For the second property the invariant follows a
  revocation through its two statements: what it has not met is behind the
  version once it has bumped it, is revoked once it has revoked it, and no
  handler that could store a token of it is under way; and it stays so, because a
  refresh goes on only from a live token. `AccountsStayTheirOwn` (`NoTakeover`, `ComesBackToSameAccount`): an
  address has one account, an identity is linked to an account of its own
  address and person, and so is what a social login holds before it links.
  `RetriesAnswered` and `RateHolds` (`RetryAnsweredOnce`, `RateBounded`): stored
  messages differ in thread, sender or key, every answer names one, and the
  recent ones and those about to be stored are at most the rate and the
  requests beside the one that counts. `CooldownKept` (`CooldownHolds`): a
  trigger past its cooldown looked at every alert of its account up to a point.
  `RatingsKept` (`AcceptedRatingStands`): a rating is never written again;
* client keys. `ChatKeysKept`, `AlertKeysKept`, `RatingKeysKept` and
  `SightingKeysKept`: the four modules implement `KeyedWrites`. Each mapping
  makes the abstract write the INSERT (or the transaction around it) and the
  abstract retry the answer from the row that is there. The invariant is what a
  request holds between the two: one about to answer from a row it found names
  a stored row of its own key, and one about to insert is held by the UNIQUE
  key at the INSERT itself, whatever it read before. `DevicesKeepKeys`
  (`KeysKept`) carries the four over to `MCService`;
* the desk. `KeyMeansObjects` (`LivingRowHasItsObjects`): an upload in flight
  belongs to one request, and the job deletes the objects of rows whose key it
  has put away. `TrailMatchesRow` (`TrailAddsUp`): the trail and the acts about
  to write theirs are counted together. `ShownWhatWasVisible`
  (`OnlyWhatWasVisible`): what a request saw stays in its span, so that what it
  was once entitled to show it may show to the end. `NobodyPassedOver`
  (`DeskMissesNothing`): the rank of a row is the number of rows ahead of it, so
  that a page of k rows holds every row of rank below k; a ranking read earlier
  is what the tiers are now, but for the cases that moved since; and while no
  case moves each count of the statistics is that of its part, of parts that are
  disjoint. `SumsAreTheLogs` (`EstimateIsTheLogs`): the row of a direction holds
  the weight of its part of the log, and a second between the stamp of one of its
  sightings and the commit of all of them. That a sum over a set
  may take any element first is a lemma proved without an induction rule, by a
  smallest finite counterexample (`WFMin`).

The modules of `service` share no variable but `rq`, whose slots each module
reads by its own operations; each theorem is about the specification of one
module (`DualSpec`, `ChatSpec`, ...), without the bounds of its scene.
`ServiceProofs` connects them with what TLC runs: by one lemma for each module,
a behaviour of `MCService` is, in its scene, a behaviour of the scene's module
(the bounds only take behaviours away), and outside it the module's tables stand
still. `ServiceTyped` (`ServiceTypeOK`) and `DevicesKeepKeys` follow from these
lemmas; the other properties of the scenes carry over in the same way.

The proofs use the assumptions named in the modules: NULL is no person, windows
are at least a day, a required capability requires none itself
(`RewardAssumption`, `PolicyAssumption`, `GateAssumption`); there are finitely
many slots (`HandlersAssumption`), since some invariants count them; and the
marks for NULL, for nobody and for an anonymous author are none of the values
beside which they stand (`AccountsAssumption`, `HelpAssumption`,
`ModerationAssumption`, `ListsAssumption` and their like); pages, floors and
weights are positive, and there are finitely many categories
(`ListsAssumption`, `SightingsAssumption`); a scene is one of the sixteen
(`ScenesAssumption`). TLC evaluates them in every run that
extends the module.

Only model-checked: the liveness properties (`DriftReconciled`, `OrphansGo`,
`ResolvedCasesGo`). Liveness under fairness, and ENABLED, are out of the prover's
reach.

## Findings

Each is a run whose counterexample is a behaviour of the code.

1. **Paid after a refund** (`paid_refund`). Two proposals pass the check for a
   live resolution together, and both resolutions live (`reward.service.ts:283`),
   one fulfilled, one not. Both are approved and, their windows over, executed at
   once: the rail refunds the payer, and is then asked to capture the refunded
   charge, which it reports DONE and the adapter takes for captured
   (`asaas-payment-rail.ts:126`). The recipients are marked paid. One request at a
   time gets there too, if a refund dies before `markResolved`, its resolution is
   cancelled and another is proposed, fulfilled.
2. **Frozen evidence shredded** (`shred_frozen`). The media-expiry job works
   through a batch by id; a medium frozen after the selection is destroyed.
3. **A resolved case without a clock** (`null_clock`). An approval of an
   unfreeze that read the case open writes `expires_at` NULL over a resolution
   committed meanwhile, and the case is never purged.
4. **A suspension lifted by one manager** (`loosen_alone`). A request for the
   current state compares it with what it read; a suspension in between is
   overwritten, with no second manager.
5. **A window that every guess restarts** (`recovery_window`). The 15 minutes
   of a panel recovery code are counted from `tb_user.updated_at`, which is
   `ON UPDATE CURRENT_TIMESTAMP` (`019_permission_model.sql:18`): a wrong guess,
   a login or an edit of the row starts them again.
6. **Enabled without a secret** (`no_factor`). An activation checks the code,
   hashes the recovery codes and then sets the flag by id
   (`two-factor.service.ts:54`); a reset in between has cleared the secret, and
   a login then asks for no code.

## Deviations without a run of their own

What the models reach, or what reading for them showed, and the properties
above therefore do not claim.

Rewards, retention and legal policy:

* a rejected or superseded rule may be approved by a request in flight; a
  confirmation applies the pending state it read even after a suspension;
* attaches in flight together exceed the media limit; a crash between the two
  statements of a resolve leaves evidence without a clock, and so does an attach
  that commits past the stamp, against the comment that the evidence of a
  resolved case gets its expiry (`reports.service.ts:229`). `ClockKept` names these and
  finding 3 as the only ways;
* two requests to unfreeze a case may be pending at once
  (`reports.service.ts:518`); the one that did not serve the thaw stays, and may
  serve the next freeze, approved by another operator then. `ThawByTwo` is about
  the request a thaw holds, not about the freeze that request was made under;
* the log row of a mediation handler is its last statement and may be missing;
  a reservation that fails after the rail answered leaves a charge no offer names.

App accounts:

* rotation is not atomic: two refreshes of one token give two live tokens;
* a revocation is two statements, for a reuse (`account.service.ts:258`) as for
  "sign out everywhere" (`:280`), of which the comment says "kills access tokens
  (<=cache TTL) and refreshes" (`:278`). A refresh under way between the two may
  insert its token after the revocation, live; and a family founded between bump
  and revoke keeps an access token that lives out its 30 minutes.
  `RevokedStaysOut` excepts exactly these;
* a social login whose provider does not vouch for the address of an existing
  account ends in a duplicate key, and so does every retry
  (`account.service.ts:179`);
* a first social login that dies between the insert and the link, or before the
  address is marked, leaves an account its owner cannot enter;
* identities without an address are not kept from making two accounts.

Panel:

* a recovery code presented by two requests at once opens both; the wipe after
  too many guesses may hit a code sent meanwhile;
* the enrolment token is not tied to `session_version` and may be used again;
* `syncUserPrivileges` refuses only the empty set, although its comment says that
  an admin cannot revoke "their own granting power", which "would leave the
  installation without anyone able to manage access" (`user.service.ts:161-164`):
  the last grantor may cut their own `user_privileges` down to VIEW.
  `updateUser` lets them deactivate themselves (`:46-54`); two may remove each
  other, and the Users screen alone is enough to delete or deactivate the last.
  `LastGrantorGoes` says that there is no further way. `updateUser` also writes
  back an `active` that it read earlier;
* a session may be renewed through a stale cache entry;
* an act whose reread finds the flag changed again answers 404 and leaves no
  audit row, although `media.controller.ts:79` says that every act does; a
  purged case may still be given a hidden note (the UPDATE does not look);
* pages by offset skip a row when an earlier one leaves the list between two
  pages; the label of a queue row may disagree with its place; a floored cell of
  the statistics can be told from the total and the other cells.

Community:

* the rate of the chat and the cooldown of panic alerts are overshot by what is
  in flight, as their properties say;
* a responder may be a member twice, and then no alert can be stored (recipients
  are UNIQUE within an alert), while `responder-pool.repository.ts:56-57` says a
  duplicate is harmless; denying one membership leaves the other;
* ids of messages and alerts may commit out of order, so that a reader's cursor
  passes over one;
* an offer may be inserted after the case was resolved, and its timeline item
  may be missing; two retries of an alert or of a sighting in flight together
  answer one of them with an error;
* the tie between equally heavy directions is decided by `first_reported_at`
  (decision 26), which the upsert stamps, not by the `created_at` that the log's
  insert stamped a statement earlier (`direction-sightings.repository.ts:77-89`),
  and nothing orders the transactions of two directions: when two first sightings
  overlap, the direction picked may be the one logged later. Within one second it
  is chosen by the order of rows;
* a view read across a change of tier may show a name that joined under the
  high one: each part was visible at some time, the whole at none.

## Not modelled

* The catalogue screens (interfaces, privileges, system modules, preferences,
  category forms): one screen's rows, a check and a write. The race of a
  deletion with a grant is known and harms a menu.
* The migrations runner: see PROJECT.json; what matters there is whether each
  statement of the SQL can be repeated.
* Lists over audit rows, the responder's inbox, a participant's list of threads:
  single queries over tables that are modelled.
* Formatting, masking, degrading of positions and times, mails, hashing, TOTP
  arithmetic, encryption, the image pipeline, storage back-ends beyond put, get
  and delete: they hold no state that two requests share.
* Handlers that no route reaches: `linkProviderToAccount`,
  `unlinkProviderFromAccount`, `changeEmail`, `setPasswordHash`.
* The internal locking of `job-lock.ts`: one run of each job is taken as given,
  and the liveness properties assume that no run hangs.

## What is left to prove

Every safety and action property of the passing runs is a theorem. Beyond what
the runs check:

1. an abstract specification of the panel's session (who may act, within which
   delay of a change), of which `PanelGuards`, `TwoFactor` and `PanelUsers` are
   parts;
2. the composition of `CaseRetention` with `MaskedChat`, in which the purge of a
   case blanks its chat and `FoundOpen` becomes a lemma about the days of
   retention rather than a guard of `PurgeChat`.
