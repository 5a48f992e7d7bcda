# Caelo CMS: verification of the publishing core

TLA+ models of how Caelo CMS puts a site live, TLC runs that check them on small
instances, and TLAPS proofs for every instance. Paths are relative to the
repository; `admin-core` stands for `packages/admin-core/src`.

## 1. The system and its parts

Caelo is a CMS whose admin (SvelteKit, `apps/admin`) runs *operations*
(`packages/query-api`, `packages/admin-core/src/ops`) in Postgres transactions.
A site is rendered to static files by `apps/static-generator`, put into staging
storage, shown to the team by the staging gateway (`apps/api-gateway/src/staging`)
and copied to the live channel of the hosting provider. Several admin instances
may run at once, so everything that two of them could do at the same time is
ordered by rows in the database.

| Part | State | Operations | Talks to | What is hard | What makes it correct |
|---|---|---|---|---|---|
| Deploy leases (`admin-core/deploy/deploy-lease.ts`, `deploy-run-lock.ts`, `ops/deploy-lease-steps.ts`) | rows of `deploy_leases` (holder, expiry), `deploy_runs.lease_expires_at` | claim, renew, release, fence, heartbeat, sweep | every publisher | expiry while the holder lives, late answers, crashed holders | one holder; a run past its fence keeps the lease; a healthy run is not stopped |
| Live release (`live-release-lock.ts`, `ops/deploy-promote.ts`, `ops/deploy-rollback.ts`, `plugin-data/build.ts`, `firebase-custom-domain.ts`) | live version at the provider, `deploy_runs` | Publish live, rollback, plugin-data build, CDN purge | leases, provider, redirect sync | provider calls outside transactions, crash between release and record | writes to the live channel are ordered; the books name what is live; no copy brings an old build back |
| Redirect sync (`deploy/redirect-sync.ts`, `redirect-sync-worker.ts`) | `redirect_changes`, `redirect_sync_state`, the provider's redirect table | save, sync (fold, claim, read, push, record), retry, "Try again", mark behind | leases, publishes, scheduler | two statements of one READ COMMITTED transaction, skipped targets, failing pushes, backoff | "in sync" is exact; every change goes live in the end |
| Stage publication (`deploy/staging-slots.ts`, `staging-publication-lock.ts`, `ops/deploy-trigger.ts`) | two slots with manifests, `staging_access` | Stage: acquire, open, write, clean, manifest, record, fail | leases, projection, staging gateway | background writes, a Stage that dies halfway, stalls or fails with writes in flight | the served slot is whole; a record never republishes a slot in place |
| Staging gateway (`apps/api-gateway/src/staging/site.ts`) | the served build as projected, a cache of two manifests | load, serve | Stage publication, projection | a projection that trails the record | it shows the build it names (section 6) |
| Public projection (`packages/migrations/src/public-projection.ts`, `admin-core/public-projection.ts`, `packages/query-api/src/adapter.ts`) | outbox, two public databases, the queue of each process, the projection lock | write, drain, full publish, backstop | every write, gateway | outbox rows that commit late, coalesced drains, one database written and the other not | a call that returned is published; nothing is forgotten; nothing published is taken back |
| Gateway caches (`apps/api-gateway/src/published-changes.ts`, `server.ts`) | settings and other published rows in memory, the LISTEN subscription | read, cache, invalidate, relisten | public databases | a read across a notification, a lost connection | no stale value is cached; a stale one is dropped |
| Change journal (`packages/query-api/src/change-journal.ts`, `packages/plugin-host/src/change-consumers.ts`) | journal rows, consumer cursors and claims | poll, commit, claim, collect garbage, rebuild | plugins | snapshot order against id order, lost claims, a cursor behind the horizon | every change is delivered, in an order that respects commits |
| Chat locks and shared draft (`locks.ts`, `lock-takeover.ts`, `entity-leases.ts`, `draft.ts`) | branch locks, entity leases, observations | lock, take over, observe, release | AI chats | takeover during a turn, a read across another's write, lapsed leases | one branch per entity; adopted changes are not lost; nothing is overwritten unseen |
| Stage flow of chats (`stage/stage-chats.ts`) | pending changes per unit | classify, merge, finalize | locks, Stage | changes that move on, a crash between units | what is merged is what was classified |
| Proposals (`ops/deploy_pending.ts`, `ops/_proposal-claim.ts`, `proposal-gc-worker.ts`) | `deploy_pending_actions` rows with a claim | propose, approve (claim, run, record), reject, withdraw, collect | runs | an Approve that dies, fails or races another outside any transaction | published once; the decision agrees with the runs on record; never stuck |
| Scheduler (`scheduler/tick.ts`) | task leases | tick, run bounded, finish | every worker | a task that outlives its lease | no due task is starved |
| Plugin host (`packages/plugin-host`) | activation lease, plugin state | activate, disable, reconcile | plugins | an instance that dies during an activation | one activation at a time |
| Mail outbox (`mail-queue.ts`, `email/outbox.ts`) | queued mails | enqueue, claim, send, retry | SMTP | crash after the send | sent at least once, not for ever |

The other parts (admin interface, generator, MCP server, site importer, media,
fonts, quality audits, snapshots, shipped plugins, provisioning, platform
updates, bug intake) are listed in `PROJECT.json` with the reason they have no
module: they compute, render or translate, and keep no protocol state of their
own.

## 2. Modules

| Module | Models | Extends |
|---|---|---|
| `DeployLease` | the lease row and a run's own lease as operators on values | |
| `LiveRelease` | the five writers of the live channel | `DeployLease` |
| `LiveReleaseProofs` | theorems about `LiveRelease` | `LiveRelease`, `TLAPS` |
| `RedirectSync` | the redirect sync of the staging and production targets | |
| `RedirectSyncProofs` | theorems about `RedirectSync` | `RedirectSync`, `TLAPS` |
| `MCRedirectSync` | symmetry of the runs of `RedirectSync` | `RedirectSync` |
| `StagePublication` | Stages, slots, the record | `DeployLease` |
| `StagePublicationProofs` | theorems about `StagePublication` | `StagePublication`, `TLAPS` |
| `MCStagePublication` | two small builds, symmetry | `StagePublication` |
| `PublicProjection` | the outbox and its publishers | |
| `PublicProjectionProofs` | theorems about `PublicProjection` | `PublicProjection`, `TLAPS` |
| `MCPublicProjection` | two processes, two writes | `PublicProjection` |
| `PublishedCache` | a live gateway's cache of what is published | |
| `PublishedCacheProofs` | theorems about `PublishedCache` | `PublishedCache`, `TLAPS` |
| `ChangeDelivery` | abstract: what the journal promises one consumer | |
| `JournalSnapshots` | transaction snapshots and visibility, as Postgres has them | |
| `ChangeJournal` | the journal, its consumer and its garbage collection | `JournalSnapshots`; instantiates `ChangeDelivery` |
| `ChangeJournalProofs` | the refinement, and other theorems about `ChangeJournal` | `ChangeJournal`, `TLAPS` |
| `ChatLocks` | locks, takeover, Stage, undo and discard for one entity | |
| `ChatLocksProofs` | theorems about `ChatLocks` | `ChatLocks`, `TLAPS` |
| `MCChatLocks` | one isolated chat, two on the shared draft, symmetry, a view | `ChatLocks` |
| `ProposalClaims` | the Approves and other decisions of one deploy proposal | |
| `ProposalClaimsProofs` | theorems about `ProposalClaims` | `ProposalClaims`, `TLAPS` |

Operators marked "mutant" stand next to the definition they vary. They are what a
plausible mistake in that code would be, and are used to confirm that each
property notices it; no specification refers to them.

### Conventions

A database transaction is one action, with everything it changes. A provider or
storage call is open between two actions, so anything may happen while it is in
flight; when the caller dies or the call throws, the call may or may not have
taken effect. A commit whose answer is lost is an alternative of the action.
READ COMMITTED transactions that read twice are split at the point where another
commit can come in between (`RedirectSync!Prepare` and `ReadTable`).

Time in `DeployLease` is a countdown on the one database clock: `left > 0` is
`expires_at > clock_timestamp()`. `Tick` lets it run.

### LiveRelease

`pc` says where each process is; `status` and `runLeft` are its row of
`deploy_runs`; `lease` is the `live-release` row of `deploy_leases` and `rowLock`
the purge whose transaction has it locked (`SKIP LOCKED` for claims, a wait for
renewals and releases of one's own row); `beat`, `expects` and `lost` are the
`DeployRunHeartbeat`; `live` is what the provider serves, `record` what
`deploy_runs` says it serves; `base` and `seen` are what a plugin-data build and
a copier read earlier and rely on later. Actions follow the code's steps: start
(with the sweep of dead runs), acquire, plugin-data begin, check of the live
version, fence, provider call, record, `deploy.fail_run`, heartbeat, sync and
purge, crash.

The one assumption on time is the code's own: a provider release takes less than
what is left of the lease its fence just renewed (`InProviderCall` in `Tick`). A
redirect push has no fence; `LateCopies = FALSE` makes the same assumption for
it and for the purge's transaction, `TRUE` drops it. `ChecksLive` says whether the
publisher compares the live version before a plugin-data release (Firebase does,
GCS and self-hosted do not).

### RedirectSync

The redirects table is the number of changes saved so far. A sync has a trigger,
its targets and a round; `Prepare` folds the change rows (only a sync of all
targets does), claims the free leases and reads the revision, `ReadTable` reads
the table and commits, `PushSucceeds`/`PushFails` are the provider calls, `Record`
writes the revision that was read and releases the claims. A publish carries the
table of its build's start, releases, records and marks its target as behind.
Leases are held or not here; their clock is `LiveRelease`'s subject. A provider
call of a dead sync is taken to have ended before its claim lapses. The
coalescing of saves (`coalescedSave`) is left out: the model lets any number of
save syncs run, which includes what the code does.
`LatePushes` lets a push outlast its claim; `LostRecords` lets a publish release
and not record.

### StagePublication

A build is a function from files to contents; a manifest is the run that wrote
it. A Stage takes the `staging-publication` lease and reads the served location
(`AcquireStagingPublication`), reads and deletes the manifest of the other slot,
takes its files (a file whose hash the manifest lists is not written), waits for
the background writes, deletes what is stale, writes the manifest, and records.
Everything else ends in `FailRun`, which gives the lease up and waits for no write, as
`fail()` does. A lease may lapse under a live Stage and a live Stage may be swept: no
action has a guard on time. `overruns` counts the Stages that lost the lease while they
still worked on their slot or had writes in flight (`AtWork`); `MaxOverruns` bounds it.
`ManifestTruthful` and `ServedIsWhole` speak of the states before the first of them,
`StageFlips` of every state.

### PublicProjection

Published content is the set of writes it reflects; a key is what is republished
as a whole (a section, or one comment). `call` follows a writing call from its
transaction to the answer; an outbox row has the id its transaction drew, so rows
become visible in any order. `queue` and `job` are the two waiting slots and the
running publish of `createPublicProjectionPublisher`. A publish takes the lock,
reads the outbox, reads the snapshot, writes the live database, writes the staging
database, consumes the ids it read: six actions, between which the process may die
and each of which may fail. A process that starts publishes in full; the backstop
task drains what is left.

### PublishedCache

`listen` is the connection as the database sees it, `gateway` what the process
believes. A generation is a flag on the read (`current`): it is dropped by every
invalidation. The model has one cache; the gateway's other caches ask the same
`mayCacheRead`.

### ChangeJournal

`JournalSnapshots` gives what Postgres does (marked external in the map): ids are
drawn in order, commits come in any order, a snapshot is the ids below xmin and the
committed ones. `row` is the consumer's row with its cursor, the target and page key
of a read in pages, the pending rebuild and the claim; `drain` is `drainOne` of an
instance with the token it holds; `loop` the wake-up loop with its retry and
backoff. `Owed` maps all of it to `ChangeDelivery`: rows past the cursor, or
everything when a rebuild is due. `DeliversAtLeastOnce` is the refinement.

An adopted renewal may mark a later dispatch of the same drain as lost; the code
cancels that renewal first, so the model allows a superfluous failure there, which
costs nothing but a retry.

### ChatLocks

One entity, any chats. A change is its number in the order of the clock, its
content the set of changes it builds on; `main` is the content of the main line, and
a merge replaces it (latest state wins). A write is a transaction of three steps
(begin, lock and check, commit), a read of two, because the code compares the clock
of one with the start of the other; a read takes no lock and may begin at any time.
A read records in the step that ends it: nobody but the chat reads its observations,
so a commit between its last look and its record is, here, a commit after it. `known` and
`missed` are history: what a chat was shown, and what was in flight (written or being
taken over, and not committed) when one of its reads began. A write whose
`SELECT ... FOR UPDATE` finds the row gone (`NoRow`) is permitted unchecked and locks
nothing, as in the code; only a release between the two statements gets there. A
takeover adopts the other branch's pending
changes at its commit (`Adopted`). The adopted headers are stamped again in the
code, just before the taker's own change; the model keeps their number, which has
the same order. `concurrentCall` (`locks.ts:286`) is left out: it refuses a write whose
tool call began before another call's write of the entity, for calls that run inside
`withToolCallVersion` only. The model lets such a write go on to the checks that
follow, so it has more behaviours; the traces of section 5 write in a call that begins
after the other's commit and are not refused by it.

### ProposalClaims

One proposal, any number of Approves, each with the run id it mints. `proposal` is
the row with its claim and the age of the claim in three classes (below the 15
minutes of `CLAIM_WITHOUT_RUN_MS`, below the day of the garbage collection, above
it). A run is what `LiveRelease` details, reduced to its leases: start with sweep,
acquire, fence, release, record, fail. `deploy.finish_promote` records whatever
became of the lease, `deploy.finish_rollback` looks (`Recorded`). The other tables'
proposals are applied in one transaction; the publish-anyway proposals of
`ops/quality/pending.ts` repeat this protocol on their own table.

## 3. Runs

| Run | Instance | Shows |
|---|---|---|
| `live_runs` | one rollback, one plugin-data build, TTL 2, fair | `RollbackRecordTruthful`: a recorded rollback is live. `PluginDataKeepsPublish`: a plugin-data build replaces only what it was baked from. `EverySettled`: no row says running for ever |
| `live_copiers` | one Publish live, one sync, one purge, TTL 2 | `OneWriter`: writes to the live channel never overlap. `ReleaserOwnsLease`: nothing takes lease or row from a run past its fence. `NoSpuriousStop`: the heartbeat stops a run only for a reason. `CopyKeepsPublish`: a copy never changes which build is live |
| `redirect_order` | two targets, two syncs, two changes, one publish, one round | `InSyncIsExact` (also when a sync folds for both targets and claims one), `NewChangeNeverBacksOff`, `TableMovesForward` |
| `redirect_settles` | one target, two syncs, one change, publish, crash, two rounds, fair | `EventuallyServed`: every change goes live and stays. `InSyncIsExact` across rounds and a crash |
| `stage_slots` | three Stages, two builds of two files, TTL 1, one overrun | `ManifestTruthful`: a manifest describes its slot. `ServedIsWhole`: the served slot holds its build. `StageFlips`: a record never republishes the served slot in place, also after a stall or with writes in flight |
| `journal_delivery` | two transactions, two instances, pages of one row, one fault, fair | `DeliversAtLeastOnce`: `ChangeJournal` implements `ChangeDelivery`. `ContinuousIsComplete`: a cursor that was never reset has everything applied or waiting. `EveryChangeApplied`: every committed change reaches the plugin |
| `projection` | two processes, two writes, one fault, fair | `ReturnedIsPublished`, `NothingForgotten`, `PublicMovesForward`, `EveryChangePublished` |
| `gateway_cache` | three publishes, two reads, two dropped connections, fair | `CacheFresh`: what is cached is current. `StaleIsDropped` |
| `chat_locks` | one isolated chat, two on the draft, three changes | `OneBranch`: two branches never hold unstaged changes. `StageKeepsChanges`: what was staged stays in the main line. `BlindOnlyByOverlap`: a draft chat overwrites nothing it was not shown, save what was in flight when it read |
| `proposals` | three Approves, fair | `PublishedOnce`, `DecisionNamesRelease`, `ClaimEnds`: a dead attempt does not block the proposal |
| `chat_locks_stage` | as `chat_locks`, edits during the build | expected to fail: `StageKeepsChanges` (section 5) |
| `chat_locks_reads` | as `chat_locks` | expected to fail: `NoBlindWrite` (section 5) |

Every passing run but `live_runs` and `redirect_settles` also checks the `TypeOK` of its module.

**Why the bounds are enough.** TTL 2 gives a lease that is fresh, about to lapse
and lapsed; TTL 1 in the Stage runs drops the middle, which only matters to
renewals. A race for the channel needs two runs; a third would only repeat the
part of the second, and the theorems below cover every number. A stale redirect
push needs two syncs and two changes (one read, one missed). One round per sync
keeps the two-target run small; `redirect_settles` has a last and a not-last
round. Three Stages are needed to fill the first slot
again; two builds, which any Stage may have, change a file and drop a file, so that a
sync skips, writes and deletes. One overrun is what it takes to meet the lease check of
`deploy.finish_trigger`; the other two Stages are those it may come between. Two
transactions give the journal one that commits late below an id that was delivered, and
pages of one row make the read of both a paged one; the safety properties are proved for
every number. Two writes of two processes, of the same section or of a section
and a comment, give the projection a row that commits late, a joined drain and two
publishers that compete; one fault (a crash, a failed step) meets each step of it.
Two readers and two drops give the cache a read across an invalidation and across a
reconnect. Three changes let one branch stage, another stage over it and the first
stage again. `MCView` keeps that run small: states that differ only in what no later
step or property looks at (owner and content of staged or undone changes, which of them
were shown, the start of a transaction that is no later than what its chat has seen)
count as one. Three Approves are a stale one, its successor and one that meets both.
The theorems below cover every number where there is one.

`CHECK_DEADLOCK FALSE` where each process runs once or within bounds, and then the
system may rest; `projection` has a backstop that always runs and checks for
deadlock.

**Fairness.** `LiveRelease!FairSpec`: a live process goes on (each wait in the
code has a deadline), statements and provider calls return, the clock runs, and
dead runs are settled by whoever lists or starts runs. `RedirectSync!FairSpec`:
the same for a sync, the scheduler ticks, a publish past its build ends, claims
lapse, backoffs end, and a push that is tried again and again is not refused for
ever (strong fairness of `PushSucceeds`: no retry loop can succeed without it).
`ChangeJournal!FairSpec`: a drain goes on, a dropped LISTEN is re-established, timers
fire, a dead instance is restarted, and an unrenewed claim lapses; garbage
collection and the arrival of new changes are not fair. `PublicProjection!Fairness`:
a committed call asks for its drain, a publish goes on, a dead process is restarted,
and the scheduler's task is run by *some* process again and again.
`PublishedCache!Fairness`: notifications arrive or the loss of the connection is
noticed, and it is re-established. `ProposalClaims!FairSpec`: an attempt goes on,
leases lapse and claims age; nobody need ever list the runs (no fairness of
`Settle`). Nothing is assumed of crashes, failures, saves, publishes or renewals.

## 4. Proofs

`LiveReleaseProofs` proves, for every set of runs, syncs and purges and every
lease length, from `ProcessAssumption` (the kinds of processes are disjoint),
`TTLAssumption` and `SwitchAssumption`:

| Theorem | Statement | Extra assumption |
|---|---|---|
| `TypeCorrect` | `Spec => []TypeOK` | |
| `FenceIsSound` | `Spec => []ReleaserOwnsLease` | |
| `HeartbeatIsSound` | `Spec => []NoSpuriousStop` | |
| `LiveWritesOrdered` | `Spec => []OneWriter` | copiers in time |
| `RollbackRecordSound` | `Spec => RollbackRecordTruthful` | copiers in time |
| `CopySound` | `Spec => CopyKeepsPublish` | copiers in time |
| `PluginDataSound` | `Spec => PluginDataKeepsPublish` | copiers in time, the publisher compares |

None of these is inductive. `OrderInv` strengthens the first: a releasing run
holds an unexpired lease, its row says running *and its own lease has not lapsed*
(`FenceHolds`: without the last part a sweep could fail it); a row a purge has
locked is free (`LockedRowIsFree`: otherwise the purge and a holder overlap); a
copier that is reading or pushing holds the claim or the row (`CopiersInTime`).
`LiveInv` adds what the holders know: a run that released and still holds the
lease is what is live (`HolderIsLive`), what a copier read is still live
(`CopyIsFresh`), what a plugin-data build compared is still live
(`BaseIsFresh`). `BeatsTruthful` adds that a verdict under way to a run is a true
one: a failed row never runs again and a lost lease is not the run's again, which
is why the answer is judged against what was expected when the beat was sent.

`StagePublicationProofs` proves, for every set of Stages, files and builds and
every lease length, from `StageAssumption` and `TTLAssumption`:

| Theorem | Statement | Extra assumption |
|---|---|---|
| `StageTypeCorrect` | `Spec => []TypeOK` | |
| `RecordFlips` | `Spec => StageFlips` | |
| `ManifestsSound` | `Spec => []ManifestTruthful` | |
| `SlotsWhole` | `Spec => []ServedIsWhole` | |

`FlipInv` carries the second: a Stage that fills a slot and still holds the lease
fills the slot that is not served, because the slot was chosen from the record
after the lease was taken and only its holder can record. It needs no assumption on
timing, as `deploy.finish_trigger` reads the lease again. `WholeInv`, which speaks of
the states with `overruns = 0`, follows one
filling through its phases: a Stage that fills holds the lease (`FillersHold`, so
there is only one), a slot that may change has no manifest and a complete one its
Stage's (`ManifestsMatch`), the files written and no longer awaited are in place
(`FilledSoFar`), the stale ones are gone by the end (`CleanedSoFar`), and the
served slot has the served run's manifest (`ServedHasManifest`). `ManifestTruthful`
is not inductive without them: a manifest is true only because it is deleted before
the first write and written after the last.

The condition `overruns = 0` is part of the two properties, and it is needed (section 6).

`PublicProjectionProofs` proves, for any number of processes, writes, keys and
faults and any batch size, from `ProjectionAssumption`:

| Theorem | Statement | Extra assumption |
|---|---|---|
| `OutboxSound` | `Spec => []NothingForgotten` | the projection lock is not lost |
| `PublishSound` | `Spec => PublicMovesForward` | the projection lock is not lost |
| `ProjectionTypeCorrect` | `Spec => []TypeOK` | the projection lock is not lost |
| `ReturnSound` | `Spec /\ []OutboxFits => []ReturnedIsPublished` | the projection lock is not lost |

The invariant follows one publish under the lock: a publisher past the lock holds
it (`LockHeld`, so there is one), the ids it read still wait in the outbox and their
keys are covered (`BatchSound`), the content it read covers the batch *and
everything already published* (`ContentSound`: this is what makes an older read
impossible to write last), and a database that was written holds the batch
(`WrittenSound`, which lets the ids be consumed). The type of the queue is more than
a type: `Shape` lists the five queues the coalescing can leave (at most one publish
of each kind waits), which is what keeps the queue within its slots.

`ReturnSound` adds `WaitCovered`: the publish that a call joined has the call's row
among its ids once it read the outbox, or the row was published before. A call joins
only a publish that has not started, so its row is visible to that read. The read
takes the whole outbox only if it fits in one batch: `OutboxFits` says so of every
state (`Cardinality(outbox) <= Batch`), because `drain()` publishes one batch of
`OUTBOX_BATCH` rows and does not look for more (`public-projection.ts:1063`, `:1208`).
The hypothesis is about the behaviour and not about a constant, and it is needed:
section 6 has the behaviour without it.

`PublishedCacheProofs` proves `CacheTypeCorrect` (`Spec => []TypeOK`) and
`CacheIsFresh` (`Spec => []CacheFresh`) for any number of readers, publishes and
drops. `CacheFresh` is not inductive: `ReadsFresh` adds that a read which may still
be cached was answered from what is served.

`ChangeJournalProofs` proves, for any number of instances, transactions and faults
and any page size, from `XidAssumption`, `NullAssumption` (the absent snapshot is
none) and `ConsumerAssumption`, all while no instance outlives its claim around a
rebuild that garbage collection forces (`LateRebuilds = FALSE`):

| Theorem | Statement |
|---|---|
| `JournalTypeCorrect` | `Spec => []TypeOK` |
| `ContinuousCursorComplete` | `Spec => []ContinuousIsComplete` |
| `JournalDelivers` | `Spec => DeliversAtLeastOnce`, the refinement of `ChangeDelivery` |
| `JournalLosesNothing` | `Spec => []Delivery!NothingLost`: a committed change is applied or owed |

The invariant has a part about the shared state and one about each drain. Shared:
ids are drawn in order (`TxOrdered`); the cursor and the target are snapshots that
were really taken, so they show only what had ended, the target at least as much as
the cursor (`RowSound`); garbage collection removes only rows that ended before its
horizon (`HorizonSound`); a pending rebuild starts from the cursor with no target
(`PendingSound`); and what the cursor, or a page of the target, has passed is applied
(`CursorCovers`, the heart: it is what `ContinuousIsComplete` says backwards).
Per drain: the token was read from the journal (`TokenSound`), what its page passes
is applied or still to be dispatched (`PageCovers`), a rebuild that ran covers the
cursor (`RebuildCovers`), and while a rebuild is due no other drain is about to move
the cursor (`Fenced`). A commit moves the cursor only if it is still the token's, so
`PageCovers` becomes `CursorCovers`. A transaction that commits late below an id
that was delivered is not visible in the snapshot, so no position passes it. The
refinement maps every step to `ChangeDelivery`'s `Happen`, `Deliver` or `Account`, or
to a stutter. The one condition that is not immediate is that of `Account`, nothing
stops being owed before it is applied: it follows from `PageCovers` for a commit, from
`RebuildCovers` for the end of a rebuild, and from `HorizonSound` for a garbage
collection. `JournalLosesNothing` is then the contract's own invariant
(`ContractLosesNothing`) carried over.

`RedirectSyncProofs` proves, for any number of targets, syncs, changes, publishes,
crashes and rounds, from `BoundAssumption` and `ProcessAssumption`:

| Theorem | Statement | Extra assumption |
|---|---|---|
| `RedirectTypeCorrect` | `Spec => []TypeOK` | |
| `InSyncIsTheTable` | `Spec => []InSyncIsExact` | pushes end within their claims, released publishes are recorded |
| `PushesMoveForward` | `Spec => TableMovesForward` | pushes end within their claims |
| `BackoffHoldsNoChange` | `Spec => []NewChangeNeverBacksOff` | |

`TypeOK` needs that a sync which looks for more has a round left (`RoundsLeft`).
`Covers(n)` says that every change waits in `redirect_changes` or is in version `n`
of the table. A published target whose wanted revision is recorded serves a version
that covers (`SyncedServes`), and a backoff runs only against a push that covered
(`BackoffSound`). Both rest on `PushSound`: a push was read with a revision that is
at most the wanted one, and covers if it still is the wanted one. This holds because
rows leave the change log only together with a newer revision of *every* target
(`WriterSound`: who holds the lock on `redirect_sync_state` and folded writes more
than is there; `ReaderSound`: who does not hold it folded nothing), and because the
revision is read before the table. `ClaimsHeld` and `PushOrdered` say that claimed
targets are left alone by publishes and other syncs, so that a push carries at least
what its target serves; `PublisherHolds` says the same of a publish. These are the
parts that a push which outlasts its claim breaks. The backoff needs none of them.

`ProposalClaimsProofs` proves, for any number of Approves, from
`AttemptAssumption`:

| Theorem | Statement | Extra assumption |
|---|---|---|
| `ProposalTypeCorrect` | `Spec => []TypeOK` | |
| `ProposalPublishedOnce` | `Spec => []PublishedOnce` | no stalls, no slow attempts, no lost answers |
| `DecisionSound` | `Spec => []DecisionNamesRelease` | the same |

The invariant says what an attempt may rely on at each step (`AttemptSound`): until
it loses the live-release lease the proposal is pending and claimed by it, because
whoever could take the claim needs its row lease to have lapsed, and the two leases
lapse together (`LeasesSound`). A run that succeeded keeps the claim for good
(`SuccessSound`), so an Approve that finds it records it instead of running.

`ChatLocksProofs` proves, for any number of chats and changes, from
`LockAssumption`:

| Theorem | Statement | Extra assumption |
|---|---|---|
| `ChatTypeCorrect` | `Spec => []TypeOK` | |
| `LockKeepsOneBranch` | `Spec => []OneBranch` | no edits during a build, no release under a write |
| `StagesKeepChanges` | `Spec => []StageKeepsChanges` | the same |
| `NothingOverwrittenUnseen` | `Spec => BlindOnlyByOverlap` | the same |

`OneBranch` follows from `PendingLocked`: the lock names the branch that has
unstaged changes. To keep it, a write under way must have a row to lock
(`WritersLock`: the committed one or its own) and what it is going to adopt must
still be what the other branch has when it commits, which the row lock gives; an
open change is its writer's (`OpenIsWritten`); and the Stage of an isolated chat
covers all the chat has pending (`StageCovers`), because finalizing it drops the
lock. The last is the part that edits during a build break (section 5).

`StageKeepsChanges` is about a merge that replaces the main line, so it must be known
of every change that may still be merged what it contains. `BuildsOn` says it: a
change that is open or pending contains everything staged, everything that another
branch's Stage has merged, and the older changes of its own branch (`Demands`). A new
change does because it is made from the main line and the pending changes it adopts,
which under `OneBranch` is all there is (`MainKeeps`, `OpenIsNewest`); a merge does
because a Stage that has merged and not finished is on another branch and older
(`StageIsOlder`, `StageSaved`).

`BlindOnlyByOverlap` compares the clock of a change with the start of a read.
`SeenShown` is the strengthening: a pending change that a chat was not shown and did not
miss, though it is older than what the chat has seen, came over by a takeover, and then
its owner's later write, which the chat has not seen, follows with nothing of others in
between; so the newest change it compares with is a newer one and the write is refused.
It needs that an uncommitted change which no read of a chat missed is later than what
the chat has seen or is reading (`OpenUnseen`), and that a read which misses a write
also misses what the write takes over (`MissedPast`).

Only model-checked, because liveness under fairness and `ENABLED` are out of the
prover's reach: `EverySettled`, `EventuallyServed`, `EveryChangeApplied`,
`EveryChangePublished`, `StaleIsDropped` and `ClaimEnds`. Every invariant and every
action property that a passing run checks is stated by a theorem, and so is the
refinement of `ChangeDelivery`.

## 5. Where the code departs from its own words

Two runs are expected to fail; `PROJECT.json` quotes the lines.

`chat_locks_stage`: `chat.finalize_stage` marks the merged changes staged and keeps
edits made during the build pending, but drops all of the isolated chat's locks.
Another branch then writes the entity without adopting the pending edit and stages
it; the chat's next Stage replays its older state over it. `locks.ts:8` says the
lock prevents exactly this, and for the shared draft `releaseIdleDraftLocks` does
keep the lock. With writes during the build excluded (`EditsDuringBuild = FALSE`),
`chat_locks` passes.

`chat_locks_reads`: a change is stamped with the clock of the moment it is written
(`emit.ts:174`), and becomes visible when its transaction commits. A read records the
time it began. One that begins in between does not show the change and is later than
it, so once it commits the change counts as seen: the reader's next write is not refused
and overwrites it. In the trace one chat writes, the other reads, the first commits, the
second writes. `draft-reads.ts:41` says of the time of the read that "a change committed
after it stays unseen", and `locks.ts:407` the same. What does hold, and is proved, is
`BlindOnlyByOverlap`: this overlap is the only way to overwrite unseen.

## 6. Assumptions the code does not enforce

The passing runs rest on switches, each named for a fault, one bound and one condition
in two properties. What happens without it, by the same configuration with the switch
turned:

| Switch | Assumption | Without it |
|---|---|---|
| `LateCopies` (LiveRelease) | a redirect push or purge ends within its claim or transaction | a push, which has no fence (`redirect-sync.ts:497`), re-releases the build a Publish live just replaced (`CopyKeepsPublish`) |
| `ChecksLive` (LiveRelease, off) | the publisher compares the live version | a plugin-data build replaces a newer, unrecorded Publish live (`PluginDataKeepsPublish`) |
| `LatePushes` (RedirectSync) | a push ends within its claim | it lands after the next sync's and leaves an older table on a target that is in sync (`InSyncIsExact`) |
| `LostRecords` (RedirectSync) | a released publish is recorded | its target stays in sync with the table of its build's start (`InSyncIsExact`; `deploy-run-lifecycle.ts:309`) |
| `overruns = 0` in the property (StagePublication) | a Stage's work on its slot, writes included, ends before its lease does | a failed Stage gives up the lease while its slot writes are in flight (`deploy-trigger.ts:756`) and they land in the next Stage's slot, or a stalled one goes on writing a slot that is served by then (`ServedIsWhole`); its record is refused (`StageFlips` holds) |
| `LateRebuilds` (ChangeJournal) | an instance does not outlive its claim around a forced rebuild | `beginConsumerRebuild` is not fenced by the claim; it moves the cursor under the new holder (`ContinuousIsComplete`) |
| `LostLocks` (PublicProjection) | the lock's transaction is not ended by the 60 s idle limit (migration 0392) | a publisher writes an older read last (`PublicMovesForward`) |
| `Batch` smaller than the backlog (PublicProjection) | a drain takes every row that waits | a call returns before its own row is published (`ReturnedIsPublished`; `OUTBOX_BATCH` is 5000) |
| `EditsDuringBuild` (ChatLocks) | an isolated chat rests while its Stage builds | section 5 (`OneBranch`, `StageKeepsChanges`) |
| `ReleaseRaces` (ChatLocks) | no lock is released between the two statements that take it | the write goes on without a lock row (`locks.ts:256`; `OneBranch`, `StageKeepsChanges`) |
| `Stalls` (ProposalClaims) | a run that waits or has released keeps its leases | a second Approve takes the claim of a run that goes on (`PublishedOnce`, `DecisionNamesRelease`) |
| `SlowAttempts` (ProposalClaims) | a run starts within 15 minutes of its claim and ends within a day | the same |
| `LostAnswers` (ProposalClaims) | an attempt hears that its run was recorded | it reports a failure and drops the claim; the next Approve publishes again |

Four statements are left out of the properties because the code does not make
them true in any instance of interest:

- a Publish live recorded as live is what is served: `deploy.finish_promote` and
  `deploy.finish_plugin_data_run` record whatever became of the lease
  (`LiveRelease!PromoteRecordTruthful`, refuted with one Publish live and one
  rollback); `deploy.finish_rollback` checks it;
- a superseded proposal was not released: the garbage collection takes a claim older
  than a day for one whose attempt died, also when its run succeeded and the
  approval was never recorded (`proposal-gc-worker.ts:92`);
- the staging gateway shows the build it names: `site.ts:184` says that "a run's
  manifest never goes stale" because a slot's files change only under another run. The
  lease is free at the commit of `deploy.finish_trigger`, before that record is projected
  to the gateway, and the next Stage does not wait for it: it refills the slot that the
  gateway still takes for served, under the manifest it has cached;
- undoing a draft chat while its Stage builds takes its change out of the main line:
  the merge already put it there.

## 7. Not modelled

In the modelled parts: the advisory locks shared with the previous release during
a rolling update (`previousReleaseRunInFlight`, `LEGACY_*_LOCK_KEY`); production
builds by `deploy.trigger`, which take no publish lease; the gates before a run
starts; what the provider does inside one call; the self-hosted Stage; the
staging gateway (it reads the slots and the projection and changes neither; section 6
says what its cache cannot promise); `concurrentCall` of the chat locks; the boot-time repoint of a stale gateway rewrite; the audit and `first_published_at`
rows that commit with a record; `coalescedSave`; how each section of the projection
is read and written (among it the branch of `writeSnapshot` for a secret that is
gone, which deletes rows without a notification); consumer filters and their
read-only marks; sub-leases between sibling tasks of a chat; classification and
partial publish of the Stage flow.

The rest of the repository is, by far, content operations, interface, rendering,
importers, provisioning and plugins: code that computes inside one transaction or
one request and keeps no protocol state between steps. The map therefore covers a
small share of the repository's lines; it covers the protocols that order its
processes.

## 8. Plan

1. Proofs: which theorems survive which switch of section 6, as `RecordFlips`,
   `FenceIsSound` and `BackoffHoldsNoChange` do; the projection's `TypeOK` with a lost
   lock; `JournalTypeCorrect` with late rebuilds.
2. `Scheduler` (`scheduler/tick.ts`), `MailOutbox`, `Activation`, `CoalescedSave`,
   entity leases between sibling tasks, the classification of the Stage flow.
3. `LiveChannel`: an abstract sequence of releases that `LiveRelease` implements;
   the rolling-update protocol and production builds as further processes.
