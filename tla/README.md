# A verification project for the SouqOne API

SouqOne is a marketplace for vehicles and related services: a NestJS API
(`src/apps/api`) over PostgreSQL (Prisma), Redis, Bull queues and a Meilisearch
index, and a Next.js client (`src/apps/web`). The API runs as several
processes that share those stores, so nearly everything that can go wrong in
it goes wrong between an `await` and the write that follows it. This project
models the parts where that matters as TLA+ modules, checks them with TLC on
small instances, and proves their main invariants with TLAPS for all of them.

| module | models | runs | proofs |
|---|---|---|---|
| `TransportFlow` | requests, offers and bookings of the transport market | `TransportRaces`, `TransportReopened` | `TransportFlowProofs`, 11 theorems |
| `PaymentContract` | what the payments service promises | (through `PaymentFlow`) | |
| `PaymentFlow` | a payment from creation to what it activates; implements `PaymentContract` | `PaymentRaces`, `PaymentProgress`, `PaymentTorn` | `PaymentFlowProofs`, 7 theorems |
| `IndexContract` | what the search promises of its index | (through `SearchSync`) | |
| `SearchSync` | outbox, relay, worker, index, and hiding an owner's content; implements `IndexContract` | `SearchIndex`, `SearchProgress` | `SearchSyncProofs`, 6 theorems |
| `Accounts` | status, role and deletion of accounts, and the access gate's cache | `AccountRaces`, `AccountProgress` | `AccountsProofs`, 7 theorems |
| `JobBoard` | job postings, applications and the daily expiry | `JobRaces` | `JobBoardProofs`, 4 theorems |
| `Listings` | the limit on public listings, versioned edits, cached details | `ListingRaces` | `ListingsProofs`, 4 theorems |
| `Sessions` | refresh tokens, sign-in methods, one-time codes | `SessionRaces` | `SessionsProofs`, 7 theorems |

`MC*` modules add only the symmetry sets for TLC; each run is a `.cfg` of its name.
To repeat a run: `tlc -config SearchIndex.cfg MCSearchSync.tla`; a proof:
`tlapm SearchSyncProofs.tla`.

## 1. Inventory

Directories are under `src/apps/api/src`.

| component | state | operations | hard behaviour | correct when |
|---|---|---|---|---|
| `transport` | request, quote and booking rows, carrier profile and credit | create, cancel, repost, daily expiry; submit, accept, withdraw; start, complete, cancel a booking; administrators; account erasure | handlers read, await, and write by id; administrators overwrite; unique keys are the only guard | a request, its offers and its booking tell one story; a carrier is credited for what was completed |
| `payments` | payment row, checkout session at Thawani, webhook jobs, featured and subscription state | create, verify, webhook job, reconciliation, cleanup, expiry of featured items | three reporters of one fact, retries, crashes between statements | one open payment per target; activated once and only if paid; paid money is settled |
| `search` | outbox events, Bull queue, index | record, relay, sync job | duplicates, reordering, retries that end, swallowed errors | the index keeps no document it should not, and gets every one it should |
| `common` (visibility) | `hiddenByOwnerStatus` on eleven verticals | hide all, restore all, reconciliation, listener | two snapshots in a transaction, sweeps that fail half-way, listeners that die | a blocked account's content disappears, a reinstated one's returns |
| `common` (listings base), `listings`, `buses`, `equipment`, `operators`, `parts`, `services`, `cars` | listing rows with versions, list and detail caches, view counters | create, update, toggle, remove, count | version check in one path only, limit counted under an advisory lock but decided before it, cache filled from an old read | no lost edit, no listing over the limit, no stale copy for good |
| `auth` | refresh tokens, the gate's cache, one-time codes, ways to sign in | sign in, refresh with rotation, revoke, verify, validate each request | rotation against revocation, cache fill against removal, counted attempts | an ended session stays ended; a blocked account is refused |
| `users` | account, profile, scheduled deletion, sign-in methods | ask for a deletion, cancel it, the deletion job; change password or number, link and unlink | checks outside the transaction that acts | an account that is erased owed nothing and stays erased; one that is not can be signed in to |
| `admin-users`, `admin-audit`, `ban-blacklist` | account status and role, audit rows | suspend, ban, lift, change role | counts of administrators under locks, effects after the commit that may be lost | an administrator remains; a block holds until it is over or taken back |
| `jobs` | postings, applications | post, close, remove, apply, decide, withdraw, expire | expiry against decisions, late applications, one expiry over all replicas | nobody waits for ever for an answer; an acceptance stands |
| `chat` | conversations, messages, unread counts, sockets | send, read, disconnect | counts against marks, several sockets | unread counts what is unread |
| `notifications`, `mail`, `whatsapp` | rows and sends | send | errors only logged | nothing else waits for them |
| `reviews`, `favorites`, `contact` | one row each, recomputed averages | add, remove | two recomputations at once | the average is of the rows there are |
| `uploads`, `redis`, `prisma`, `config`, `locations` | clients and reference data | input and output | | |
| `src/apps/web` | client state | pages over the API | | |

How they interact: payments activate listings, jobs and subscriptions, and hold
up deletions; users and admin-users change an account, which the gate learns
from a cache and common turns into hidden rows, and search into missing
documents; every vertical records outbox events in its own transactions; the
deletion job reaches into transport and payments; notifications and chat are
called after the fact everywhere. Handlers of one process interleave at every
`await`; processes share nothing but the stores; crons run in every process.

`PROJECT.json` lists every component with its status, and the hazards at their
lines with the properties that would catch them. Where the code does run into a hazard, the
properties except just that, by a history variable or by the step's name, and the hazard
has a note; section 4 says what happens.

## 2. Plan

Done, in this order: `TransportFlow`, `PaymentFlow`, `SearchSync`, `Accounts`,
`JobBoard`, `Listings`, `PaymentContract` with its refinement, `Sessions`,
`IndexContract` with its refinement; each with its proofs. Left:

1. Expiry of featured listings against a second activation, composed with
   `PaymentFlow`; fraud counters.
2. The rest of the deletion job: anonymising other tables, files that are checked
   for other uses and then deleted.
3. Unread counts and sockets of `chat`; averages of `reviews` and of carriers.
4. What two index workers at once still keep of `IndexContract`.

## 3. Modules

### Conventions

A handler or cron in flight is a *slot*: what it has read, and where it stands.
Each `await` that another actor can get in before is a step boundary; what one
database transaction does is one step, unless READ COMMITTED lets others be seen
between its statements and it matters (`withdrawQuote`, the sweeps, locks, the
snapshot of a revocation). Guards that the code evaluates on what it *read* are
guards of the reading step; the writing step is guarded only by what its `where`
clause says. Definitions named in the comments as "Mutant" stand before the
definition they alter; nothing uses them but the mutation runs of `PROJECT.json`.
Variables commented "history" are not in the code: properties refer to them.

### TransportFlow

State: `request`, `quote`, `booking`, `bookedBy` (the booking's offer), `trips`
(`completedTrips`), `shipper` and `profile` (accounts), `due`, and `call`, the
slots; `raced` remembers that two handlers ever overlapped or an outside actor
stepped in. A (request, carrier) pair has one quote row and a request one booking
row, because the schema's unique keys say so. Actions carry the handlers' names:
`SubmitCheck`/`SubmitInsert`/`SubmitMark` are `submitQuote` up to the insert, the
insert, and the write of QUOTED; `Accept` is the transaction of `acceptQuote`;
`WithdrawRead`/`Count`/`Commit` are `withdrawQuote` with its row lock;
`CancelRead`/`Fetch`/`Write`/`Reject`, `RepostRead`/`Write`, `ExpireRead`/`Write`,
`StartRead`/`Write`, `CompleteRead`/`Write`, `BookingCancelRead`/`Write` likewise.
`Outside` switches on administrators (`AdminSetStatus`, `AdminDelete`,
`AdminDeleteCarrier`) and erasure (`EraseCarrier`, `EraseShipper`). A handler may
fail at any step.

Left out: the daily quota (a submission may be refused at any time, which the
model allows), notifications, prices, images, reviews.

### PaymentFlow and PaymentContract

`PaymentContract` has four facts about a payment: whether it is open, settled or
void, its target, whether the buyer paid, and how often it was activated. Its
steps are `Ask`, `Pay`, `Settle`, `Void`, `Grant`.

`PaymentFlow`'s state: the row (`status`, `target`, `linked`, `age`), the provider's
`session`, `grants`, webhook `attempts`, and slots for buyers' calls, webhook
jobs, the reconciliation and the cleanup. `Create`, `OpenSession`, `Link` are
`createFeaturedPayment`; `VerifyFetch`/`VerifyRead`, `Deliver`/`HookRead`/`Throw`,
`ReconcileList`/`One`, `CleanupList`/`One` are the four that learn about a session;
`SettleRead`, `SettleWrite` and `Grant` are `handlePaymentSuccess`; `VoidRead`,
`VoidWrite` are `markExpired`. The provider is external: a session is paid or gone
once and for all. `Crash` ends every slot. `Contract` maps the five statuses of
the row to those of the contract, and the session to *paid*.

Age is what the crons compare: *fresh*, older than an *hour*, older than a *day*.
One creating call is assumed to end within a day. One reconciliation and one
cleanup run at a time: replicas make more, and then each still only lists and
settles as any reporter does. A webhook job that stalls twice would be dropped by
Bull; the model lets it try again, which is more behaviour, not less.

Left out: fraud counters, the idempotency key (it answers a repeated request
with the same row), the expiry of featured items, creating and cancelling a
subscription, administrators' views.

### SearchSync and IndexContract

State: the owner's account (`status`, `leaving` for a scheduled deletion), `row`,
`hidden` and `text` of each listing (one per vertical), `event`, the outbox's
pending events, `queue` and `delayed` (Bull), `doc` (the index), a `relay` and a
`worker` for each replica, and `sweep` for runs of `hideAllForUser` and
`restoreAllForUser`. `lost` remembers listings of which an update was given up
after an error that was only logged (the index cannot be held to those), `moved`
that the account was ever touched.

`Create`, `Edit`, `Remove` are the writes of the base service and their `Record`
of an event; `SetStatus`, `SetLeaving` change the account. `SweepStart` stands for
the listener, the request and the cancellation of a deletion, and the
reconciliation; `SweepRead` and `SweepWrite` for the two statements of
`mutateVertical`. `RelayLock`, `RelayEnqueue`, `RelayCommit` are the relay's
transaction, `RelayFail` its exception and `RelayBackoff` its catch block.
`Take`, `Read`, `Check`, then `Index` or `Drop`, are the worker. `Orders` allows
any order within a batch: the locking SELECT has no ORDER BY. A place in `Events`
is free again once its event is done with; rows of the code are never reused.

`IndexContract` knows no events, queues, retries or workers. It has what a row says
(`shown`, `text`), what the index says of it (`doc`), which listings are `behind`, and
whether the account was ever `touched`. `Write` changes a row and leaves the listing
behind; `Look` brings the index up to date, after which the listing need not be behind
any more; `LookedBefore` is a look that was overtaken: it may put an earlier text in
the index, never one older than what is there, and the listing stays behind; `Again`
puts listings behind once more, as retries do; `Move` touches the account, and from then
on a look may lose a document, for the reason given in section 4. `Promise` maps
`SearchSync` to it: a row that is live and not hidden is shown; a listing is behind
while an event, a job or a worker is still to bring its document up to date
(`Settling`), and for good once an update of it was given up (`lost`), which the
contract admits as the code does.

Left out: caches, verticals that the index does not hold, queries, full
reindexing, batches of 500 within a vertical. A deletion is asked for by what was read
of the account a moment before, so `SetLeaving` does not look at the status again.

### Accounts

State: `status`, `role`, `until` (the end of a suspension), `deletion`, `paying` (an
open payment) of each account; `gate`, the copy by which requests are let in,
reduced to what it lets the user do; a slot for each handler or job and for each
validation that missed the cache. `lost` remembers removals from the cache that
never came.

An administrator's operation (suspend, unsuspend, ban, unban, change of role) reads
its target, locks the row, takes the advisory lock if the change may cost an
administrator, counts the others under it, commits, removes the copy, and removes
it once more by a two-second timer of its process. Lifting a suspension that is
over, asking for a deletion, cancelling it, and the job's steps write without
locking first, under the `where` clauses of the code. The job reads the accounts
that are due, looks at open payments outside the transaction, and erases the row
if it still is what the job saw. `PayRead`/`PayWrite` are the other side, the creation of a
payment: it looks at the scheduled deletion first and inserts the payment several awaits
later, in a transaction that does not look again, so it is a slot like the rest. The
checks in between (fraud, the target, a repeated request) may end it without a payment.

Timing that the steps assume: a validation under way at a commit ends before the
timer fires two seconds later; a handler that works on an account, the creation of a
payment among them, does not take five days, the notice of a deletion; copies last five
minutes. Left out: tokens
(`Sessions`), audits, mails, the moderators' narrower rights, the other tables
the job anonymises.

### JobBoard

State: each posting's status and whether it is `old` enough to expire, each
application's status, the expiry's `lock` in Redis, slots, and histories: how often
a posting was made active (`openings`), its owner told of an expiry (`notices`),
applications that came `late`, postings `torn` by someone who ended them and did not
reject what was pending. `ApplyRead`/`Write`, `DecideRead`/`Write` (with the
`where` on PENDING), `WithdrawRead`/`Write` (by id), `CloseRead`/`Write`/`Find`/`Reject`,
`RemoveRead`/`Write`, and the administrator's overwrite are handlers; the expiry takes
the lock, reads, writes, rejects, tells and releases. A process that dies leaves
the lock to lapse. One expiry is assumed not to outlast its lock of five minutes.

Left out: fields and profiles, contacts, cached copies, reviews, invitations.

### Listings

State: `row` of each listing (status, visibility, text, version), `copy` of the
detail in Redis, the advisory lock, and slots; histories of which rows were counted
in (`counted`) and which copies cannot be answered for (`slipped`). `create`,
`update` and `toggleStatus` read, decide whether the row becomes public, count
under the lock if so, write, commit, and delete the copy; a reader looks into the cache,
reads the row and fills the cache in another step. Sweeps hide and show all rows.

A row that becomes public by a decision made on an outdated read, and a row that a
sweep shows again, are not counted in: the code does not count them either
(section 4). Left out: cached lists, view counters, owners without a limit.

### Sessions

State of one account: its `methods` of signing in; each refresh `token` (live,
rotated within the grace period, spent, revoked) and its `family`; each
password-reset `code` with its `tries`; slots. Histories: sessions to which the
grace period gave a second token (`graced`), that were `ended`; tokens that the
revocation of their session could not see (`late`): made between its snapshot and its
effect, by the grace period after it, or from such a token; and how often a code was
accepted (`served`). A refresh that read its token before a revocation and writes after
it is not excused.

`RotateRead`/`RotateWrite`/`RotateLost`/`GraceIssue` are `rotateRefreshToken`. Every
revocation is one UPDATE whose snapshot is taken at its start: `Snapshot` and
`Revoke` are its two halves, as it waits for row locks in between and never sees rows
inserted meanwhile. `ChangePassword`, `ResetPassword` and `UnlinkLock` hold the
account's row between them (`RowLocked`); `EndAll` writes that row last and waits.
`UnlinkRead`/`UnlinkLock`/`DropProvider` are `unlinkGoogle` and `unlinkApple`,
`PhoneRead`/`PhoneWrite` a new phone number in `updateProfile`; `IssueRead`/`IssueCode`
and `VerifyRead`/`TryCode`/`Consume` the one-time code. A refresh is assumed not to
outlast the thirty seconds of grace that it was read in.

Left out: lifetimes, the account's status (`Accounts`), registration, lockout,
verification of providers' tokens, takeover of an unverified account.

## 4. Runs

All runs set `CHECK_DEADLOCK FALSE`: bounds on creations, edits and failures end
behaviours that the system would continue. Each property of a passing run has a mutant in
`PROJECT.json`: a change to the modelled code under which the same run finds it violated.

| run | instance | shows |
|---|---|---|
| `TransportRaces` | 1 request, 2 carriers, 2 slots, administrators, erasure | an accepted offer is the booked one; a booking stays; only an administrator engages a request without one; each completed booking was credited. As long as one handler ran at a time: booking and request agree, credit is exact, a QUOTED request has an offer |
| `PaymentRaces` | 2 payments of 1 target, 2 buyers, 2 webhook jobs, 2 attempts, 2 failures | the payment flow does what `PaymentContract` allows: one open payment per target, settled only if paid, activated once, nothing reopened or written off once paid |
| `PaymentProgress` | 2 payments, 2 targets, no webhook, batches of 1, 1 failure, fairness | what was paid is settled; a broken-off creation releases its target |
| `SearchIndex` | 1 listing, 1 replica, 2 events, 1 edit, retries, 2 failures, suspensions | the index follows the rows as `IndexContract` says, so it keeps nothing it should not once nothing is under way, nor misses anything while the account was never touched; no update on its way is lost but to a logged error |
| `SearchProgress` | 2 verticals, 1 failure, deletions scheduled and cancelled, fairness | what stays blocked leaves the index, what stays reinstated is shown |
| `AccountRaces` | 2 users of whom 1 may leave, 2 handlers, 1 validation, 1 failure | an administrator remains; blocks hold and reach the gate; erasure is final and owes nothing |
| `AccountProgress` | the same, 1 handler, fairness | who stays banned or is erased is refused although a removal was lost; a deletion that is due is carried out or given up |
| `JobRaces` | 1 posting, 2 applicants, 2 handlers, 2 openings, 1 failure, fairness | nobody is left pending unexplained; an owner is told once; an acceptance stands; old postings expire |
| `ListingRaces` | 2 rows of which 1 may be public, 2 handlers, 2 texts, 2 versions, 1 failure, fairness | the limit; no lost edit; a stale copy is explained, and goes |
| `SessionRaces` | 3 tokens, 2 providers, 2 handlers, 1 code, 2 tries | one live token per session; an ended session stays ended; a way to sign in remains; a code is accepted once |

Why the bounds are enough. *Transport*: a hazard needs a request, an offer, a
second offer that competes, and two handlers that overlap; guards never relate
two requests. A carrier's credit sums over requests, which the theorem
`CompletedWasCredited` covers. *Payments*: a target and two payments for it are what the
contract's `Ask` can tell apart; two jobs and two callers put every pair of
reporters in flight; one failure tears any two statements, two also exhaust the
attempts. *Search*: a listing's row, its document and its events meet no other
listing's; two events and a queue of two (`MaxQueue`, after which the relay waits)
give every order of an insert and a delete; two failures use up two attempts; two
verticals are needed only for sweeps that fail half-way. `SearchProgress` gives
a job one try: its retries are in the other run. `MaxAttempts` is 5 and
`MaxTries` 3 in the code; 2 has a retry and a last attempt, which is all the guard
tells apart. *Accounts*: two users are what "the other administrator" needs, and
the one who may leave can be promoted before the job is done with him. Two handlers put
any two operations against each other; that a payment is created, a deletion asked for and
the job at work all at once takes three, which pass as well (without a validation, 445,124
states), and any number in the proof. *Jobs*: two
applicants tell a decision on one from the rejection of the rest; two openings let a
posting be reactivated; two handlers may both be the expiry. *Listings*: a limit of one
and two rows is the smallest that can be exceeded; two versions make an outdated
edit. *Sessions*: three tokens give a session a second one by each of two ways, or a second
session; the code's five tries are two here. With one code none is made void by a
newer one: that case is covered by the proof only. `MaxText` bounds edits, `MaxTrips` the credit, `MaxFaults`
failures.

Fairness (only in `FairSpec`). *Payments*: the two crons fire, what is running
goes on, rows age, and a session does not stay open at the provider for ever;
nothing is assumed of buyers or webhooks. Payments are finite in number, so a
batch without an order cannot leave one out for ever; with an endless inflow it
could. *Search*: the reconciliation runs every five minutes, the relay every
second and oldest event first (`orderBy createdAt`), which is why each event's
locking is strongly fair; workers, retries and the sweeps go on; nothing is
assumed of the owner. *Accounts*: what has started goes on, strongly, since it may
wait for row locks, which PostgreSQL grants in turn; validations finish, copies
expire, open payments end (`PaymentProgress` shows it); the jobs run every minute
and every quarter of an hour, whoever else works on the account in between.
*Jobs*: handlers go on, the lock lapses, and the daily expiry, which may find the lock
taken on any one day, takes it in the end. *Listings*: Redis forgets a copy after ten
minutes; nothing is assumed of handlers. Failures are finite in number.

### Disagreements

Two runs end in a counterexample, each of one sentence of the repository; the
findings in `PROJECT.json` quote it.

| run | what happens |
|---|---|
| `TransportReopened` | a request reopened after its booking was cancelled takes offers that cannot be booked |
| `PaymentTorn` | PAID is written, the activation is not, and every later report skips the row |

Seen while modelling, part of the behaviour of the modules, without a run of its own:

- *Transport.* `submitQuote` marks a request QUOTED by the status it read before the
  insert, so also one that is no longer open. Expiry writes by id what it listed: an
  offer accepted in between leaves an expired request with a booking, and offers
  of an expired request stay PENDING. A withdrawal can reopen an expired request. A
  booking that was completed meanwhile can still be cancelled.
- *Search.* A sweep writes events for the rows it read, whatever its update then
  matched, and a DELETE that comes late or for a row that was not hidden takes a
  shown listing out of the index. Nothing brings it back before its next edit. This
  is why `IndexContract` lets a document be lost once the account was touched, and
  `NothingMissing` is for accounts at rest.
- *Accounts.* The job looks at a role when it reads the account and not when it erases:
  one who is promoted in between is erased. Neither the job nor the creation of a payment
  looks again, in its transaction, at what it checked of the other: only the five days
  between asking for a deletion and its falling due keep them apart. Without them (a step
  that lets a deletion fall due under a handler) `ErasedOwesNothing` is violated.
- *Jobs.* Expiry and closing overwrite each other's status by id. An application read
  against an active posting comes in after it ended, and nobody answers it (`late`);
  nor does an administrator who ends a posting reject what is pending (`torn`). A
  withdrawal is written by id over an acceptance.
- *Listings.* Whether an update makes a row public is decided by an outdated read, so
  the limit can be exceeded, as it can when hidden rows are restored. A change
  of status leaves the version as it is. A reader overtaken by a write caches
  the old detail for up to ten minutes.
- *Sessions.* A revocation does not see a token that a refresh in flight inserts, and the
  grace period makes one after it (`late`). A sign-in that has checked its password
  when a reset begins finishes after it. A change of phone number with an
  outdated check can take the last way to sign in. Two issues of a code at once
  leave both open. `revokeAllSessions` locks tokens and then the account, a change of
  password the other way round: met together, PostgreSQL aborts one of them (`Fail`).

## 5. Proofs

The theorems hold for any constants that satisfy the named assumptions of the modules
(bounds are naturals, model values are distinct, some sets are finite).

**Transport.** `TypeCorrect` is inductive alone. `BookingInvariant` proves
`BookingInv == AcceptedIsBooked /\ BookedOfferExists /\ BookingWhole`:
`BookingWhole`, that a slot in a booking handler has read a booking that exists and
that a booking names a carrier, is what makes the first two inductive, since the
handlers write a booking by id without looking again. Most steps are `Harmless`
(they leave booking rows alone, accept nothing and delete no booked offer), so each
handler's lemma shows just that; `Accept` and the booking handlers are shown by
hand. `BookingStays` proves the action property from the same invariant.
`EngagedHasBooking` excepts only a step in which an administrator sets a status.
`CompletedWasCredited` counts: the step that completes a booking adds one to the
set of a carrier's completed bookings and one to the credit, and no step adds to
the set without it.

Three properties are about handlers that never overlapped (`~raced`), a failed one among
them: each write of a handler is torn from the next, yet what it leaves must be a story
somebody can go on from. `AloneInvariant` proves `AloneInv`: at most one slot is busy
(`Alone`), all it has read is still so (`Claim`, which for each place in a handler says what its
earlier writes have done), a booked request has no offer pending (`BookedIsClosed`), and
the three properties. `Claim` survives because nobody else writes (`OnlyMover`): a
second handler that starts, or anybody from outside, sets `raced`. `BookingTellsRequest`,
`QuotedShowsOffer` and `CreditedExactly` follow; the last counts as `CompletedWasCredited`
does, and that the booking was in progress when it was read makes the credit exact.

**Payments.** `PaymentInv` adds to the properties what each row (`RowInv`), each slot
(`SlotInv`), each cron's batch (`BatchInv`) and each job (`JobInv`) can rely on, and that one call
creates and one winner activates (`AloneInv`). The heart is `SlotInv`: a handler's
reading of a session stays true while it works, because sessions only settle once.
So `markExpired`, which writes by id what it read before, never hits a paid row, and
the compare-and-set of `transitionStatusIfCurrent` picks one winner to activate.
`ImplementsContract` rests on it: under `PaymentInv` each step is a step of the contract
under the mapping, or leaves its variables alone. `OneActive`, `ActivatedOnce`,
`ActivatedWasPaid` and `PaidStaysOpen` state what the contract implies, directly.

**Search.** For any number of replicas: `TypeCorrect`, where the retries' bounds are part
of the types; `RestInvariant`, that until the account is touched no sweep has anything to do
and every event, batch, job and worker tells of a row that was made, and of a removal only
of one that was removed (rows never come back, so what was `Told` once stays so); and
`NoUpdateIsLost`. The latter follows an update, not an event: when a relay's transaction
fails after its jobs are in the queue, the event is pending again *and* the jobs stand.
It needs `BatchesAgree`, since a relay that gave up an event writes by id what it read,
perhaps after another relay has locked or completed the same event: what they hold may differ
in the attempts, never in what is to be done. TLC checks it with one replica in
`SearchIndex`; the same instance with two replicas and `Moves = {}` passes as well.

With one replica (`OneReplica`): `ListedCorrect`. Its invariant `IndexInv` adds to
`ListedIsCurrent` that what a worker holds is what the row says, or another look is
coming (`HeldIsCurrent`), and that the relay goes by what the outbox says
(`BatchIsEvent`). Each step either leaves documents and workers alone and takes no
coming look away (`NoneStray`, `StayBehind`), or is the worker's. With two replicas the
property does not hold: a worker that has read a row may index it after the other has
removed it. `NothingIsMissing` adds `RestInv`: while the account is at rest, a document is
dropped only of a row that was removed, so what `IndexInv` lets be missing is not.
`ImplementsIndex` adds `FreshInv`, that texts only move on from index to worker to row:
under the three, a writer's step is a `Write`, the worker's last step a `Look` or, when
the row changed since it was read, a `LookedBefore`, and every other step an `Again`, a
`Move` or a stutter. `ListedIsCurrent` and `NothingMissing` are what the contract comes to
once nothing is behind; the theorems state them directly, and no run repeats them.
The lemmas about sequences (`AboutConcat`, `AboutTail`, `RangeSplit`, `OrdersAll`) say
which jobs a queue holds after each step.

**Accounts.** `LocksAreHeld` (`LockInv`) is about both locks: their holders exclude each
other, the row that an operation locked is not erased and still has the block that is
to be lifted. `AdminInv` adds to the property that, while a count made under the
advisory lock is acted on, another administrator is there; it is inductive because
whoever could take one away needs that lock. `ErasureIsSettled` rests on `OwesInv`: an
account that the job has checked owes nothing, or its deletion is no longer due. A payment
being created may outlive the request for a deletion, but not the five days to the
deletion's falling due (`At(p, "payRead", u) => deletion[u] # "past"`), and while it is due
no creation begins; the job checks and erases only then. `BlockIsFelt` (`GateInv`) follows an old copy from the validation that
read it to the removal that is still to come.

**Jobs.** `NobodyWaits` is inductive with what each handler in flight has ended. `OwnersToldOnce`
rests on `TallyInv`, which weighs notices given and still to be given against the
times the posting was made active, and on the exclusion of two expiries by the lock;
`AcceptancesStand` is an action property of the `where` clauses.

**Listings.** `LimitHolds` (`LimitInv`): whoever has counted holds the advisory lock, and the
rows counted in are then fewer than the limit. `EditsAreKept` (`PageInv`): rows only move
on, so a version that is still the one on an author's page comes with the text on it,
where only the version has been compared. `CopiesAreExplained` follows each handler
from its write to its removal of the copy.

**Sessions.** `SessionInvariant` adds to its two properties `MadeInv`, that what calls and
histories refer to was made before, and `WindowInv`, that a revocation in flight has seen
every live token of the sessions in its scope, but those that are `late`. A refresh keeps
it because its token, live in an ended session, would be late itself.
`RowLockHolds` (`LockInv`): at most one transaction is past the lock on the account's row,
and the other method that an unlinking counted is still there, as whoever takes one
away waits for that lock. `MethodRemains` follows for all but the change of phone
number. `CodeAcceptedOnce` (`CodeInv`): a code that was accepted is not open again.

The strengthenings named here (`AloneInv`, `RestInv`, `FreshInv`, `BatchesAgree` and the rest)
were each checked with TLC on the instances of the runs before they were proved.

**Only model-checked.** Liveness under fairness (`PaidIsSettled`, `PendingIsResolved`,
`BlockedIsUnlisted`, `ReinstatedIsShown`, `RefusedInTheEnd`, `DeletionIsDone`,
`OldOnesExpire`, `StaleCopiesGo`), as anything with ENABLED is: TLAPS as installed does
no liveness, no induction over data and no RECURSIVE operators; the modules use none of the
last two. Every other property of the passing runs is stated by a theorem.

## 6. Not modelled

Known to be exposed to interleavings and left for later (section 2): the expiry of
featured listings, fraud counters and the daily quota on offers, which are checked and
then counted; carriers' and listings' averages, recomputed from a read; two index
workers at once (their updates arrive, which is proved; what they leave in the index is
not claimed); the reconciliation's lock, which lapses after four minutes; the deletion
of files after their rows; unread counts and sockets of chat.

Of `auth` the registration, the lockout and the verification of providers' tokens; of
`users` profiles and dashboards. Providers (mail, WhatsApp, push, file store),
infrastructure, reference data, seeds, scripts and the web client are input and output
around the handlers above, or hold no state that several actors change.
