# TrustRoute backend v2: TLA+ models, model checking and proofs

TrustRoute is a TypeScript backend for reaching people without giving away a
number: an Express API (`apps/api`), a BullMQ worker (`apps/worker`) and a shared
core (`packages/core`) over PostgreSQL (READ COMMITTED, through drizzle) and Redis,
with external providers for payments, payouts, telephony, media, identity and
storage. The repository has no tests; what it promises is said in the README and in
comments, and those are what the models are held against.

This directory models the parts of it in which money moves or in which several
requests and jobs race for one row, key or group of rows. Each module is translated from the code;
`PROJECT.json` maps every definition to its source lines.

* [The system](#the-system)
* [The modules and the code](#the-modules-and-the-code)
* [What each run checks](#what-each-run-checks)
* [Bounds](#bounds) and [fairness](#fairness)
* [What is proved](#what-is-proved)
* [Where the code and its comments disagree](#where-the-code-and-its-comments-disagree)
* [What is not modelled](#what-is-not-modelled)
* [Plan](#plan)

Run a model with `tlc -config X.cfg M`. The proofs are in eight modules, each checked
with `tlapm M.tla`: `WalletTxnProofs`, `WalletProofs`, `MaskedCallProofs`, `CallsProofs`,
`ReferralsProofs`, `AccountsProofs`, `IdempotencyProofs` and `ServicesProofs` (the last
one takes about ten minutes).

## The system

`A` is `src/apps/api/src/modules`, `W` is `src/apps/worker/src`, `C` is
`src/packages/core/src`. Routes validate, services decide, repositories hold the SQL
("Only `*.repository.ts` touches the DB"); the worker runs SQL of its own.

| Component | State | Operations | What is hard | What makes it correct |
|---|---|---|---|---|
| **Wallet engine** `A/wallet/wallet.repository.ts` | `wallets`, `wallet_transactions` | `ensureWallet`, `applyTxn` | lookup before lock, unique index, rollback, several requests per user | running balance; a reference is applied once; no lock outlives its transaction |
| **Wallet service** `A/wallet/*` | `payment_orders`; the provider's orders and payments | top-up order, verify, webhook, hold, settle | verify races webhook; repeated webhooks; two transactions per credit | captured payments credit their user once, and in the end; a refund is within its hold |
| **Masked calling** `A/masked/*` | `masked_calls`, `number_pool`; bridges at the telephony provider; the wallet | initiate (hold, lease, dial, insert), mark connected, end (hang up, mark, settle), precheck | five steps with compensation; two ends; provider failures; crashes | a dial costs no more than its hold and its recorded cost; nothing is held for nothing |
| **In-app calls** `A/calls/*`, `W/jobs/ringTimeout.ts` | `calls`; ring-timeout jobs | initiate, answer, decline, end, ring timeout, quality report | `end` chooses its UPDATE from an old read; late or repeated jobs; queue outages | one truthful and final outcome; an unattended call is missed in the end |
| **Referrals** `A/referrals/*`, `W/jobs/referralQualification.ts` | `referrals`, `referral_wallets`, `referral_ledger`, `payouts` | apply a code, qualification scan, request a payout | overlapping scans; money sent before it is debited | balances equal their ledger; every referral pays once |
| **Sessions and PIN** `A/auth/*`, `C/auth/*` | `refresh_tokens`, PIN counters of `users` | login, refresh, logout, set and change PIN | revoke all, then insert; two refreshes of one token; the lock is checked before the comparison | sessions end with the next sign-in; guesses are bounded |
| **Onboarding, identity** `A/onboarding/*`, `A/identity/*` | `onboarding_sessions`, `identities`, appeals | start, DigiLocker, liveness, match, handle, complete, appeal | read the session, wait, then patch it unconditionally; account creation against unique indexes; death during completion | one account per identity; a completion opens an account of the verified document |
| **Users, moderation** `A/users/*`, `A/admin/*` | account status, handles, audit log | moderate, delete, change handle | unconditional changes of any account; read-then-write of handles | one account per identity; a handle is its owner's to return to |
| **Idempotency** `C/http/idempotency.ts` | Redis keys pending / done | wrap a mutation | crash while pending; 5xx clears the key; fail-open; the write of the key is not awaited | a retried request has one effect |
| **Contacts and chat** `A/connections/*`, `A/reports/*`, `A/chat/*`, `W/jobs/connectionExpiry.ts` | `connections`, `user_reports`, `chat_channels` | add, update, remove, block, unblock, report and block, expiry, open a chat, webhook | a block is an upsert and an update; the expiry job and other requests come between | a block holds until its owner lifts it |
| **Reachability** `A/reachability/*`, `W/jobs/channelExpiry.ts` | channels, share tokens, scans | create, resolve and scan, revoke, expire | use limits under concurrency | no scan over its limit or after a revocation |
| **Approvals** `A/approvals/*` | `approval_requests` | create, respond, lazy expiry | the sweep and the response look at different things | one answer, the one its client is told |
| **Groups** `A/groups/*` | members and roles | create, add, remove, change role, leave | last-admin and size checks read, then write | a group keeps an admin and its limit |
| **Activities** `A/activities/*` | sessions, participants, state revision | start, join, leave, move, end | a session is loaded, then written in later statements | no active session without its host |
| **Business** `A/business/*` | businesses, API key hashes, counter QRs in Redis | verify, reject, mint and take a QR | the key in clear exists once; GET then DEL of a single-use code | a key is handed out once, a code is taken once |
| **Message delivery** `A/business/*`, `A/_compat/subscriptions.routes.ts`, `W/jobs/businessMessageDeliver.ts` | subscriptions, blocks, messages, deliveries | subscribe, pause, block, broadcast, deliver | claim then death; a job handed out twice; the daily limit | what a message reports is what happened |
| **Standing** `src/apps/api/src/lib/trustScore.ts`, `W/jobs/trustRecompute.ts`, `A/admin/*`, `A/onboarding/appeals.*` | score, tier, review flag, score history, audit log, appeals | rewrite of the score, recompute, moderate, appeal, resolve | unlocked against locked read-modify-write; audit row after the change | the record explains the standing |
| **Data export, handle propagation** `W/jobs/*` | `data_export_requests`, `handle_propagation_jobs`, queue jobs | request, enqueue, backstop, claim, build; scan, claim, upsert | kept job ids, jobs handed out twice, overlapping scans | a row is worked once at a time; only a fault leaves it undone |
| **Configuration cache** `A/config/*`, `C/cache/index.ts` | `feature_flags`, one Redis key | cached read, write and invalidate | a read fills the key after the invalidation; swallowed errors | old flags only after a named fault or race |
| **Crowd reputation** `A/_compat/numbers.routes.ts`, `W/jobs/shadowRecompute.ts` | `dialer_observations`, `shadow_numbers` | observe, nightly recompute | the job chooses its input by its own last output | the row aggregates the window |
| Queue, scheduler `C/queue`, `W/scheduler.ts` | BullMQ jobs | enqueue with job id, period buckets | dedupe, no retries | appears in the models of the jobs |
| Outreach detection, ML feedback, token rotation, status posts, rate limits, notifications, media, backups, simulation, site, providers, logging, envelope, migrations | mostly inserts, sweeps and outside services | | little protocol state | |

Interactions that matter here: masked calling takes and releases holds through the
wallet service, which posts through the wallet engine; top-ups post through the same
engine; the calls service schedules a job that the worker runs against the same
rows; the API and the worker both move referral balances, write trust scores and expire
connections; reports block contacts, and blocks decide whether a chat opens. They share no memory, only
PostgreSQL rows and Redis, so an action of a model is one SQL statement (with its
wait for a row lock where that matters), one transaction where no other step can see
inside it, or one call of a provider.

## The modules and the code

**`WalletTxn`** is `applyTxn` (wallet.repository.ts:56-93) statement by statement.
`wallets` and `entries` are the two tables (`Null`: no wallet row yet), `tx` what
each request's transaction has read, and holding `rowLock` is holding the row lock
of `SELECT ... FOR UPDATE`. `ReadPrior` is the idempotency lookup, which runs before
the lock; `LockRow` waits for the row and computes the balance; `WriteAndCommit` is
the UPDATE and the INSERT that the unique index on `ref` may refuse, with the commit
or the rollback that follows. `AbortTxn` is a lost connection.

**`Ledger`** is what that promises: posting is one atomic step that does nothing if
the reference is known, and is refused without funds.

**`Wallet`** is the wallet service around the engine (it EXTENDS `WalletTxn` and
reuses its actions for the transaction in the middle of a request). `orders` is
`payment_orders`, `issued` and `captured` what the provider knows, and `req` where
each request is. Top-up: `TopupStart`, `TopupCreateOrder` (the provider's order),
`TopupInsertOrder`. Credit: `VerifyStart` and `WebhookStart` read the order,
`MarkPaid` is the first transaction, `applyTxn` the second. `Hold` and
`SettleHold` are the two sides of a hold; other components' use of them is a fresh
token per hold. `Crash` ends a request anywhere; what the database had committed
stays.

**`MaskedCall`** is masked.service.ts over `WalletTxn`: `initiate` takes the hold
(`InitiateStart`, the transaction, `HoldDone`), leases a number (`LeasePick` picks and
locks with SKIP LOCKED, `LeaseCommit` stamps it), refunds when there is none
(`LeaseThrows`, `RefundDone`), dials (`PlaceCall`, `PlaceThrows`) and inserts the call.
`MarkConnected` is the conditional UPDATE. `end` reads the row (`EndStart`, which also
fixes the cost), hangs up, marks the call ended (`MarkEnded`, which settles whether or
not its own UPDATE matched) and returns. `live` is what the provider knows of bridges.

**`Calls`** is calls.service.ts and the worker's `ring-timeout` job. The four UPDATEs
of calls.repository.ts keep their names. `now()` is the moment a statement began: it
may have waited up to `StatementWait` for the row, so it can be older than what it
overwrites (`Now`). `EndStart` is the read that chooses between `EndDecline`,
`EndMiss` and `EndFinish`; the first two fall through to the last when another
request was faster. The job is delayed, active, updated, done or failed; a worker
that dies lets the queue hand it out again `MaxStalls` times.

**`Referrals`** is `apply` with its unique constraint, the qualification scan of
several workers over batches (LIMIT without an order), and `requestPayout`: read the
balance (`PayoutStart`), ask for the payout (`PayoutSend`, which the provider may also
answer with status `failed`), debit (`createPayout`). The
worker's `qualifyOne` and the API's `qualifyReferral` are the same transaction
(`Qualify`). Balances keep GREATEST(0, ...) and the CHECK constraint.

**`AccountState`** says which statuses may authenticate and which hold an identity
(the partial unique index). Two modules build on it:

**`Sessions`** is auth.service.ts with its SQL. `pin` is the failure counter and the
lock of each user, `tokens` the refresh tokens that are neither revoked nor expired,
`auth` where each request is. `PinStart` checks the lock, `ComparePin` is bcrypt,
`RecordPinFailure` and `ClearPinFailures` are the UPDATEs. `RefreshStart`,
`RefreshLoad` and `RevokeToken` are `refresh`; every sign-in ends in
`RevokeAllForUser` and `InsertRefreshToken` (`issueSession`). `blocked` changes at any
time (`AccountChanges`): that is what the other module does to an account.

**`Onboarding`** is the onboarding service with identities, deletion, handle changes
and moderation. `onb`, `identities` and `accounts` are the rows of the three tables, and
`work` where each request is. A step reads the session under its guard
(`Loads`) and patches it later (`PatchStatus`, `PatchVerified`, `PatchHandle`), whatever
the row says by then. `CompleteRecovery` and `CompleteSignup` keep what they read for
the rest of the request. `CreateAccount` is the one transaction, with the three unique
indexes that may refuse it. `Moderate` is `applyAccountState`, which looks at nothing.
`MCAccounts` checks both in one run: a behaviour follows one of them and leaves the
other where it began, since a sign-in is one step for `Onboarding` and an account's
status is arbitrary for `Sessions`.

The smaller services share `Requests`: `req[p]` is where a request or job of process `p`
stands and what it carries over the await, and `Die` loses it. Each has one module.
Where the code protects something only against requests one after the other, the
module keeps a history variable that records the overlap or the death which excuses a
violation, so the property still says everything about the other behaviours:

* **`Idempotency`**: idempotency.ts around a handler that acts, or refuses or fails with or
  without having acted: `requestPayout` sends the money before it answers 402. `Acquire` is
  SET NX, `Look` the GET of the others, `Record` the write nobody waits for. `excuses`
  counts outages, expiries and 5xx that hid an effect; a refusal that hid one needs none,
  because the middleware keeps it.
* **`Groups`**: groups.service.ts; a handler is a chain of reads (`FindTarget`,
  `CountAdmins`, `CountMembers`, `LeaveCounts`) and one write.
* **`Activities`**: activities.service.ts; `StartActivity`, `CreateActivity` and
  `AddParticipant` are one start, `Leaves` and `MarkLeft` one leave.
* **`Contacts`**: one owner's edge to one contact. `Upsert` and `SetType` are the two
  statements of a block, for `block` and for a report with `blockAlso`; `ConnectionExpiry`
  is the worker; the contact's `OpenChannel` reads the block.
* **`Grants`**: one share, approval or channel. A handler looks (`ResolveShare`,
  `RespondBegins`) and changes with a condition (`RecordScan`, `RespondIfPending`).
* **`Business`**: verification, the hand-over of the key, rejection, and the counter QR
  (`ReadCounterQr`, `DeleteCounterQr`).
* **`Delivery`**: `Broadcast`, `RecordDeliveries` and `Push` of the API; `ClaimMessage`,
  `FindSubscribers`, `InsertPending`, `Push`, `MarkDelivery`, `FinalizeMessage` of the job.
* **`Standing`**: `PersistVerificationScore` (four statements without a transaction),
  `ApplyRecompute` (one locked transaction), `ModerateUser` and `LogAction`, `Submit` and
  `CreateAppeal`, `ResolveAppeal`. The model's verdict is a choice from `Deltas`.
* **`Jobs`**: rows of both kinds and the export's queue job with its lock. `JobStalls` hands
  a job out again, or gives it up when it stalls once too often (`MaxStalls`; BullMQ's own
  limit, which workers.ts leaves, is one); a worker without the lock ends no job.
  `JobEvicted` lets an id be used again. A claim may throw before its commit or lose its
  answer after it (`ClaimFails`), and the catch that should record a failure may throw
  too (`WorkFails`).
* **`Caches`**: `CacheGet`, `Load`, `CacheSet` of a read; `SetFlag`, `CacheDel` of a write.
* **`Reputation`**: `Observe` stamps a row and `RecordObservation` commits it;
  `ShadowRecompute` is the snapshot of the job's statement, `UpsertReputation` its commit.

`MCPlatform` puts them side by side: a behaviour follows one of them, its `side`, and
leaves the others where they began, because they share processes and users only.

`MC*` modules give the constants; operators that a comment calls `(Mutant: ...)` are
mistakes the code could contain, kept to show that each property would notice one.

## What each run checks

| Run | Shows |
|---|---|
| `wallet` | Two sides. The engine alone under its most general caller, which repeats references and amounts and is aborted anywhere: `RunningBalance`, `AppliedOnce`, the engine implements `Ledger` (`ImplementsLedger`), every transaction ends (`TxnEnds`). The service: orders, verify, webhooks and holds race; `CreditBacked` (every top-up entry is a captured payment of that user and amount), `RefundWithinHold` (of the rows of a hold and its refund: one refund, after the hold, in its wallet, no more than it), `CapturedIsCredited` (liveness), and the composed system is still the engine (`ImplementsTxn`). |
| `masked` | Two dials over one number with provider failures and a crash: `NetWithinHold`, and nothing is charged for a call nobody answered; `LiveIsPaidFor` (no bridge without a hold), `EndedIsSettled` (liveness, unless a request died). |
| `masked_bill`, `masked_number`, `masked_lost` | Three statements of the code's comments that the code does not keep; see below. |
| `calls` | `LogIsTrue`, `OverIsFinal`, `OutcomeHasItsCause`, `EndTakesEffect`, and in the end `BackstopFires` and `InitiateResponds`, with a queue that goes away and comes back, requests and workers that die, and jobs that fail or run twice. |
| `referrals` | `SnapshotIsLedger`, `PaidPerReferral`, `RowsAreAnsweredAndDebited` (a payouts row has an answer of the provider and a debit), and `GenuineIsRewarded` although failures may keep filling the batch. |
| `referrals_sent` | `SentIsEarned`, which the code does not keep. |
| `accounts` | Sign-in: `SessionPerSignIn` (the tokens of a user are at most the sign-ins that were between their two statements), `GuessesAreBounded` (concurrent guesses cannot outrun the lock by more than the requests in flight). Accounts: `OneAccountPerIdentity`, `RecoveryIsOwn` (a completion signs in to an account of the document its session verified, although a stale step may replace the session's document meanwhile). |
| `accounts_handle` | `HandleIsReserved`, which the code does not keep. |
| `platform` | One property per service. `OneEffectPerKey`: retries have one effect, except one more for each outage, expiry or 5xx behind an effect; without these all answers kept or replayed are one, which tells the effect. `GroupIsGoverned`: an admin, and no more members than allowed, unless two requests contended. `HostIsPresent`: an active session has its host in it. `BlockStands`: told blocked is blocked until the owner undoes it. `GrantsHonoured`: no use above the limit or after a revocation, one answer. `HandedOutOnce`: a key that was handed over works, a verified business has one, a QR subscribes one customer. `ReportIsTrue`: counts are those of the rows, and nobody is called twice by a job run twice. `StandingIsOnRecord`: history, review flag and audit log account for score and status, and open appeals that name one subject were filed at once or reopened. `RowsAreWorkedOnce`: one worker per row; a row nobody works on any more, or that no job and no scan will start again, had the fault the code has no answer to. `FlagsAreFresh`: old flags are served only after a lost deletion or an overtaken read. |
| `platform_window` | `AggregatesWindow`, which the code does not keep. |

Deadlock is checked wherever the system can always go on. `MaskedCall` bounds its
clock and its dials and then really stops, so its configurations switch the check
off; so do the others that say CHECK_DEADLOCK FALSE, for the same reason.

## Bounds

* `wallet`: two handlers are enough for every race of the engine, because a
  third can only wait for the same row or the same unique key; two users and two
  references give the cases of same and different wallet and key. References are
  used again and again, so duplicates of all ages occur. The ledger's length is
  bounded by the references. On the service's side two requests at a time, with the
  transaction, payment and crash of each in every order; one crash. Holds and top-ups
  compete for one balance.
* `masked`: two dials, one number, a hold of two minutes and funds for one hold and a
  half, so that a second hold can be refused and go through after a refund; the clock's
  range lets an end measure zero or one started minute, which is what separates two
  racing ends. `MaxCrashes` = 1. `masked_number` needs three dials and
  two numbers.
* `calls`: one call, because no step of one call reads another's rows; two requests
  race on it, together with the participants' direct answer and decline and the job.
  `RingTimeout`, `StatementWait`, `LastTick`, `MaxStalls` and `MaxLost` are one tick or
  one event each: enough for a timeout that is early, due, late, repeated or lost.
* `referrals`: two members who refer each other, two API callers, two workers with a
  batch of one, so that a batch can be full of the wrong rows.
* `accounts`: two users, two requests, two tokens that are used again and again, a lock
  after two failures that runs out once; two documents, each with or without an account
  from before, one onboarding session that both requests may step (requests of two
  sessions meet only in the accounts and identities, which deletion, renames and
  moderation race for here), one wanted handle, so that everybody wants the same one,
  and one action of a moderator.
* `platform`: two requests or jobs at a time, because each hazard is of two steps that
  meet between a read and a write; three users, so that a group of two is full and a
  third wants in, and a message has more than one recipient; one death. Per service:
  limits of two members, two uses, one message a day; two keys, two reports, two rows,
  two messages, two subscribers; one session with one update; three units of work on a
  standing and a verdict that crosses the review threshold; two failures, one stall
  that is forgiven (`MaxStalls`) and one eviction of the queue; two writes of the flags
  and one Redis error; two nights, two of the outcomes, and a score from two
  observations on. Each bound lets its limit be reached and passed.

Bounds on clocks, crashes, losses and sends are constants of the modules and named in
their guards; they limit the environment, never the code. For the safety properties the
theorems below drop all of these values: they hold for any finite number of requests, rows
and events.

## Fairness

Liveness is checked under fairness that the deployment justifies: a request whose
process lives takes its next step (an SQL statement, a reply of a provider); a
transaction that waits for a row gets it if the row is free again and again (strong
fairness: PostgreSQL queues waiters); time passes; a Redis outage ends; the
scheduler keeps starting scans. Where a captured payment must be credited, the
provider's webhook is repeated until it is answered, as the provider's retries do.
No user ever has to answer, pay, end or retry. A crashed request is not restarted.

## What is proved

Every invariant and every action property of the passing runs is a theorem, for all
values of the constants, under the assumptions each module names and the runs evaluate:

* bounds, amounts, prices and times are numbers (`AmountsAssumption`,
  `MoneyAssumption`, `BillingAssumption`, `CallsAssumption`, `CallsBounds`,
  `ReferralBounds`, `PinAssumption`, `OnboardingAssumption`, `FaultsAssumption`,
  `DeathsAssumption` and those of the small services);
* processes, users, dials and the like are finitely many where something is counted
  (`ProcsAssumption`, `UsersAssumption`, `DialsAssumption`, `NumbersAssumption`,
  `AccountsAssumption`);
* the null value is none of the values it stands beside (`NullAssumption`,
  `NullOrderAssumption`, `NullCallAssumption`, `NullIsNoRow`, `NoReferralAssumption`,
  `OnbRowsAssumption`, `NoRowAssumption`);
* the amounts and references a service posts are among those the engine is proved for.

**`WalletTxnProofs`** (`TxnTypeCorrect`, `TxnRunningBalance`, `TxnAppliedOnce`,
`TxnLockedRead`, `TxnImplementsLedger`). `RunningBalance` alone is not inductive: a
commit writes a balance computed earlier, so one must know that it is still current.
The inductive invariant is the conjunction of type correctness,
`LockedReadIsCurrent` (who holds the row lock has read the present balance and the
result is not negative), `RunningBalance` and `AppliedOnce`. A commit extends the
ledger by one row whose predecessor is the row that was read; every other step
leaves the tables alone. Refinement of `Ledger` follows: a commit is a `Post`, an
early return is a repeated `Post` or a stutter, anything else is a stutter.

**`WalletProofs`** (`WalletTypeCorrect`, `WalletImplementsTxn`,
`WalletRunningBalance`, `WalletAppliedOnce`, `WalletCreditBacked`,
`WalletRefundWithinHold`). Every step of the service is a step or a stutter of the
engine, so the theorems about the engine carry over to it. `CreditBacked` is not
inductive: the entry is written three steps after the order was looked up. `WalletInv`
carries the lookup along: an order id belongs to one request until its row is there
(`OrdersAreFresh`), a request that looked an order up still agrees with its row
(`LookupsHold`), and every transaction and every entry is legal (`Legal`): a credit of
a captured, paid order of that user and price, a hold of the fixed amount, or a
refund not above it to a wallet that has the hold. `RefundWithinHold` counts rows, by
wallet and position. That a refund has one row is `AppliedOnce`; that it comes after its
hold in the same wallet is an invariant of its own (`RefundsFollow`): the engine only
appends, and what it appends as a refund has its hold among the rows already there.

**`CallsProofs`** (`CallsTypeCorrect`, `CallsLogIsTrue`, `CallsOverIsFinal`,
`CallsOutcomeHasItsCause`, `CallsEndTakesEffect`). The invariant `CallsInv` adds to
the types that rows are in order (created, then answered, then over), that a request
about to create a call is alone with it, and that a job is due no sooner than the
timeout after its row and runs when due. One lemma says what each conditional UPDATE
does to its row, a second that every step leaves the rows alone, creates one, or moves
one that was not over; the theorems are read off these. `OutcomeHasItsCause` needs
one more invariant, `EndsKnowTheirReason`: a request that reached `markEnded` had no
reason, or the call had stopped ringing.

**`MaskedCallProofs`** (`MaskedTypeCorrect`, `MaskedLedger`, `MaskedLiveIsPaidFor`,
`MaskedNetWithinHold`). As for the wallet service every step is one of the engine, so the
tables stay a running balance. `NetWithinHold` is not inductive: whether a refund may be
posted was decided by another request, some steps ago. The invariant says who may still do
what: a dial is driven by one request at most, and between its hold and its row that
request has the hold and no refund; who is ending a call has a row; the row of a call has
its hold; a dial that failed is over and refunds the whole hold once; a bridge is held;
each transaction in progress is the one its request asked for; and every ledger entry of a
dial is its hold or a refund not above it. A dial thus has at most two entries, and the
sum in `NetWithinHold` is over these two.

**`ReferralsProofs`** (`ReferralTypeCorrect`, `ReferralSnapshotIsLedger`,
`ReferralPaidPerReferral`, `ReferralRowsAreAnsweredAndDebited`). `SnapshotIsLedger` needs that
no `GREATEST(0, ..)` ever takes effect, that is, that the pending balance covers the
rewards not yet moved: the invariant counts them, one reward for each of the referrer's
referrals that has not qualified. A qualification moves one such reward and takes the
referral out of the count. For the payouts, what was answered and not yet debited
is owed by the requests between answer and debit; `TransfersCovered` carries that sum
over any number of them.

**`AccountsProofs`** (`AccountsTypeCorrect`, `SessionsPerSignIn`, `WrongGuessesAreBounded`,
`OneAccount`, `RecoveriesAreOwn`) is about `MCAccounts` with any number of users, requests,
tokens, documents and handles. A user's active tokens and the sign-ins about to insert one
are together no more than the overlap the property allows; so are the wrong guesses and
the comparisons past the lock check. For the accounts, a request carries over its awaits
which account belongs to which identity: this stays true although others rename, delete
and moderate in between, because an account keeps its identity and rows never vanish, and
the partial unique index has one holder. An onboarding row's branch, target and
identity agree from the verification on, whatever stale patch is written.

**`IdempotencyProofs`** (`IdemTypeCorrect`, `IdemOneEffectPerKey`). `OneEffectPerKey`
is not inductive: an effect is decided long before it happens. `IdemInv` counts
licences: every handler that runs, every reply under the lock that will clear the key,
and an absent key may each lead to one more effect. Effects and licences together never
exceed one more than the excuses (`Licensed`): a step that adds one gives up another or
is excused. That answers agree, refusals after the effect included, follows from
`AnswerIsLast`: unexcused, an answer that was given or is kept leaves no licence behind and
tells all the effects there are.

**`ServicesProofs`** is about `MCPlatform` with any number of users, processes, rows and
deaths (`PlatformInvHolds`, `PlatformTypeCorrect`, and one theorem for each property of the
`platform` run). `PlatformInv` says that the side satisfies its service's invariant and the
others are where they began; each service begins in its invariant and keeps it. None of the
properties is inductive, and what has to be added is what each request knows at its
next await:

| Theorem | The invariant adds to the property |
|---|---|
| `GroupStaysGoverned` | nobody asks anything of a group before it exists or after it has emptied; the creator is alone until the members are written (`CreatesAlone`); as long as no race is recorded, what a check has found still holds at the write (`AdminsStay`, `RoomStays`) |
| `HostStaysPresent` | who is about to enter a new session is its host (`StartersAreHosts`); a host who was let go without ending the session had none to end (`HostsLeaveTheEnded`) |
| `BlockStaysStanding` | between the two statements of a block its row is there, or it was torn (`CutsHaveARow`) |
| `GrantsStayHonoured` | requests match the kind of the row; who is about to tell an answer has written it; a looked-at row that has expired was overtaken (`LateIsOvertaken`) |
| `KeysAreHandedOutOnce` | every key told or in hand opens the business until a rejection (`OpensUntilRejected`); the QR is untaken, being taken by one request, or taken (`OneTaker`) |
| `ReportsAreTrue` | a message queued or being sent is one request's (`Alone`); its rows, calls and counts are as far as that request (`EachUnderway`); to nobody but the crowded are two jobs on their way (`LimitKept`) |
| `StandingStaysOnRecord` | the one row in hand continues the history up to the score (`ScoreOnRecord`); rows are dated by decisions; decisions are logged, about to be, or lost with a death (`DecisionsAreLogged`); an appeal about to be filed overlaps no open one (`AppealsApart`) |
| `RowsStayWorkedOnce` | a worker's row is processing and nobody else's (`WorkersHaveTheRow`); jobs and their requests come after the row (`JobsHaveARow`); locks and stalls keep their types (`LocksTyped`) |
| `FlagsStayFresh` | nothing: with the types of the requests the property is inductive, since a write stays in flight until it has deleted the key or left an excuse |
| `PlatformOneEffect` | the licences of `IdempotencyProofs` |

The score is a sum over a set, which the library defines by recursion over the set. That it
is an integer is proved by the least counterexample: of the subsets without a sum take one
of the smallest size (`WFMin` over the natural numbers), and take an element away. `Clamp` and the
choice of the tier then keep score and tier in range.

Only model-checked: liveness (`TxnEnds`, `CapturedIsCredited`, `EndedIsSettled`,
`BackstopFires`, `InitiateResponds`, `GenuineIsRewarded`), because temporal reasoning
under fairness and ENABLED are beyond the prover. The six violations below are TLC's.

## Where the code and its comments disagree

Each of the first six is a run in which TLC finds the property violated.

1. **The bill and the charge** (`masked_bill`, masked.service.ts:184). "so the net
   debit equals the actual cost": of two ends that measured different minutes one
   records its cost, and the other may settle first. A call that outlasts
   `MAX_MINUTES_HOLD` also records a cost above what was held and charged.
2. **Numbers are never taken out of the pool** (`masked_number`,
   masked.repository.ts:30). SKIP LOCKED keeps two simultaneous leases apart, but the
   row stays `active` and nothing reads `assigned_ref`.
3. **A refused dial keeps the hold** (`masked_lost`, masked.service.ts:72). Only the
   lease is inside the `try` that refunds.
4. **Money is sent before it is debited** (`referrals_sent`, referrals.service.ts:183).
5. **A deleted account's handle is not reserved** (`accounts_handle`,
   onboarding.repository.ts:73). `handleTaken` looks at `users.handle`, which deletion
   overwrote; `last_handle` reserves nothing. The returning owner, who may choose no
   other handle, can then not come back.
6. **From the second night on the reputation forgets** (`platform_window`,
   shadowRecompute.ts:34). "Aggregates the last 180 days": the filter that should pick
   the hashes with news picks the observations, and the upsert replaces the row by what
   these alone give. A number with a long record is neutral again when fewer than five
   observations are new.

Seen while modelling, without a run of their own:

* The loser of a racing verify and webhook can get the unique-index error instead of
  the promised no-op (wallet.service.ts:75): the lookup of `applyTxn` precedes the
  row lock. The money is right (`AppliedOnce`), the answer is an error.
* A failed payout is debited (referrals.service.ts:183): razorpayx.ts:122 turns the
  provider's `failed` or `reversed` into a handle, not into a throw, and nobody looks at
  the handle's status. The member is debited, the row says `processing`, and "payouts go
  out via RazorpayX" (schema/referrals.ts:5) is not so. `PayoutSend` answers both ways;
  `RowsAreAnsweredAndDebited` therefore speaks of answers, and `failed` counts what of
  them was never sent.
* A payout that was sent can be answered with 402 (referrals.service.ts:193), and the
  idempotency middleware keeps that refusal: the client is told for 24 hours that nothing
  happened. `OneEffectPerKey` holds, because the retries send nothing more.
* "move both parties' reward from pending" (referrals.repository.ts:140): only the
  referrer's moves; the referee's signup bonus never becomes withdrawable.
* "Only the callee can decline", but a caller's `end` with reason `declined` records
  the call as declined (calls.service.ts:189).
* "Best-effort" scheduling of the ring timeout (calls.service.ts:93): during a Redis
  outage the queue client retries without limit, so the request hangs rather than
  going on without the backstop. `InitiateResponds` holds because the outage ends.
* A crash between `markEnded` and `settleHold` loses the refund: the retry finds the
  call ended. `EndedIsSettled` says so by its exception for crashes.
* "One active refresh token per user (single session)" (auth.service.ts:4) holds when
  sign-ins do not overlap: `issueSession` revokes and inserts in two statements, and of
  two refreshes with one token both succeed. `SessionPerSignIn` says what is left.
* "Refresh tokens are dropped so existing sessions die" (users.repository.ts:232):
  deletion leaves them; what ends the session is the status check of `refresh` and of
  `requireAuth`.
* A completion goes by the branch stored when the document was verified: an identity
  banned since then is set to active again by a `self_deleted` branch
  (onboarding.repository.ts:151), and a recovery sets the PIN of an account suspended
  since then (onboarding.service.ts:368).
* A delete request that is overtaken by another delete and its owner's return releases
  the identity of the account that is live by then (users.repository.ts:256); restoring
  a deleted account makes its identity active without a current account, so that
  recovery falls through to the signup path and fails (onboarding.service.ts:365).
* "A group must keep at least one admin" (groups.service.ts:100) is read before it is
  relied on: two admins who demote each other, or leave together, leave none.
* A plain re-add of a blocked contact unblocks it (connections.repository.ts:109); a
  second block lifts the first between its statements; re-adding with a new type keeps
  the old `temporary_expires_at`, so the expiry job takes it away early.
* An answer to an approval, or a scan, that looked at the row before its expiry is
  accepted after it (approvals.service.ts:80).
* Two customers can take one counter QR (business.service.ts:266). A request that dies
  after the verification leaves a verified business whose key nobody has.
* A broadcast ignores the daily limit the job keeps, writes `delivered` before it
  pushes, and one that dies stays `queued` for ever (business.service.ts:185).
* The export backstop enqueues under the id of the first job: while that job is kept,
  failed or given up after its second stall, the enqueue does nothing. A row left
  `processing` by a death, by a claim whose answer was lost or by a catch whose own UPDATE
  failed is never claimed again, neither here nor in handle propagation (dataExport.ts:84
  and 97, handlePropagation.ts:12 and 35). The recompute jobs of avatars and outreach flags use one id
  per user as well, so later ones are swallowed while the first is kept.
* The API's rewrite of the score drops the model's penalty until the next recompute and
  can race it (trustScore.ts:99).
* Moderation takes effect before its audit row (admin.service.ts:32): "every state change
  writes an immutable record" misses the one whose request dies in between.
* "One open appeal at a time" (appeals.service.ts:78): `findOpen` compares the ids that
  this request names (appeals.repository.ts:31), so an appeal by the document and a later
  one by the account are both open without any race. `StandingIsOnRecord` keeps open
  appeals apart by what they name only. Two that name the same are open when they were
  filed at once. Resolving an appeal as `restored` restores nothing.

## What is not modelled

Read-only operations (lists, prechecks, balances), formatting, validation of request
bodies, authentication of the caller, push notifications and logging. In the modelled
components: `setAutoRecharge` (columns nothing reads), DTMF, abuse and quality reports
(plain inserts), profile and settings, the expiry of an onboarding session (it only
refuses further requests), deletion of payout methods (it appears as the reason why
`createPayout` throws), issuing of referral codes, group names, presenters of
activities, labels and notes of contacts, read marks of messages. The clock is
abstract. Signature checks of the payment provider are modelled by what they guarantee:
only a captured payment verifies. Rate limits (a library's counter that nothing else
reads), status posts (every read filters on the expiry, the sweep is cosmetic), outreach
detection, ML feedback and token rotation (one query each), media and backups, the
development simulation and the site pages have no module. `PROJECT.json` lists every
component with its status and the reason.

## Plan

1. Refinements: an atomic specification of the small services (a block, a use of a share, a
   hand-over of a key as one step) implemented by the modules wherever no overlap is recorded.
2. What the excuses mean: that a run without overlaps and deaths leaves every history
   variable (`raced`, `excuses`, `crowded`, `torn`) unset.
3. Liveness of the delivery and export jobs under a worker that comes back.
