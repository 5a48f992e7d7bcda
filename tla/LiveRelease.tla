---------------------------- MODULE LiveRelease ----------------------------
(***************************************************************************)
(* Who may write the live channel of the static site, and what deploy_runs *)
(* says about it.  Five kinds of writers share the "live-release" lease    *)
(* row (packages/admin-core/src/deploy/live-release-lock.ts):              *)
(*                                                                         *)
(*   Promotes      Publish live       (ops/deploy-promote.ts)              *)
(*   Rollbacks     rollback           (ops/deploy-rollback.ts)             *)
(*   PluginBuilds  plugin-data build  (plugin-data/build.ts)               *)
(*   Syncs         redirect sync      (deploy/redirect-sync.ts)            *)
(*   Purges        CDN purge          (deploy/firebase-custom-domain.ts)   *)
(*                                                                         *)
(* The first three are deploy runs: a row of deploy_runs with a lease of   *)
(* its own, kept alive by a heartbeat (deploy/deploy-run-lock.ts).  They   *)
(* put a new build live.  A sync and a purge are copiers: they read the    *)
(* version that is live and release it again, with the redirects or as it  *)
(* is.  Every database transaction is one action; a provider call is open  *)
(* between two actions, so anything may happen while it is in flight.      *)
(***************************************************************************)
EXTENDS DeployLease

CONSTANTS
    Promotes, Rollbacks, PluginBuilds, Syncs, Purges,
    ChecksLive,  \* the publisher compares the live version with the base of a
                 \* plugin-data build (Firebase does; self-hosted and GCS do not)
    LateCopies   \* a sync's push may outlast its claim, and a purge's transaction
                 \* may be ended by Postgres while its provider call is in flight

Runs    == Promotes \cup Rollbacks \cup PluginBuilds
Copiers == Syncs \cup Purges

ASSUME ProcessAssumption ==
    /\ Promotes \cap Rollbacks = {}
    /\ Promotes \cap PluginBuilds = {}
    /\ Rollbacks \cap PluginBuilds = {}
    /\ Runs \cap Copiers = {}
    /\ Syncs \cap Purges = {}
    /\ NoOne \notin Runs \cup Copiers

ASSUME SwitchAssumption == ChecksLive \in BOOLEAN /\ LateCopies \in BOOLEAN

VARIABLES
    pc,       \* where each process is
    status,   \* deploy_runs.status of each run
    runLeft,  \* ticks left of each run's lease (deploy_runs.lease_expires_at)
    lease,    \* the live-release row of deploy_leases
    rowLock,  \* the purge whose transaction has that row locked
    beat,     \* each run's heartbeat in flight
    expects,  \* heartbeat.expectLiveRelease: a beat must keep the lease
    lost,     \* heartbeat.lost aborted
    live,     \* the run whose build the provider serves (NoOne: the first build)
    record,   \* the live run in the books: the last run recorded succeeded
    base,     \* a plugin-data build's base run
    seen      \* the build a copier read from the live channel

vars == <<pc, status, runLeft, lease, rowLock, beat, expects, lost,
          live, record, base, seen>>

runVars   == <<status, runLeft>>
beatVars  == <<beat, expects, lost>>
channel   == <<live, record>>

RunStates  == {"idle", "baking", "waiting", "holding", "checked", "releasing",
               "released", "failing", "done", "dead"}
CopyStates == {"idle", "claimed", "read", "pushed", "done", "dead"}
BeatStates == {"idle", "sent", "sentExpecting", "notRunning", "notHeld", "notHeldExpecting"}
Builds     == Runs \cup {NoOne}

\* The process body runs; the heartbeat timer of a run is armed from its start
\* step until its `finally` block.
Beating  == {"waiting", "holding", "checked", "releasing", "released", "failing"}
Copying  == {"claimed", "read"}

Init ==
    /\ pc = [x \in Runs \cup Copiers |-> "idle"]
    /\ status = [r \in Runs |-> "absent"]
    /\ runLeft = [r \in Runs |-> 0]
    /\ lease = FreeRow
    /\ rowLock = NoOne
    /\ beat = [r \in Runs |-> "idle"]
    /\ expects = [r \in Runs |-> FALSE]
    /\ lost = [r \in Runs |-> FALSE]
    /\ live = NoOne
    /\ record = NoOne
    /\ base = [r \in PluginBuilds |-> NoOne]
    /\ seen = [c \in Copiers |-> NoOne]

Goto(x, state) == pc' = [pc EXCEPT ![x] = state]

-----------------------------------------------------------------------------
(***************************************************************************)
(* Row locks.  A purge keeps the lease row locked for its transaction.  A  *)
(* claim skips a locked row (SKIP LOCKED: it counts as held).  A renewal   *)
(* or release waits for the lock, but only when the row is its own: an     *)
(* UPDATE ... WHERE holder_run_id = x does not touch another holder's row. *)
(***************************************************************************)
RowSkipped     == rowLock # NoOne
WaitsForRow(S) == rowLock # NoOne /\ lease.holder \in S

(***************************************************************************)
(* failRunIfOrphanedInTx for every run of S: the running rows whose lease  *)
(* lapsed become failed and lose the publish lease.                        *)
(***************************************************************************)
Swept(S) == S \cap Orphans(Runs, status, runLeft)

StatusSwept(S) == [q \in Runs |-> IF q \in Swept(S) THEN "failed" ELSE status[q]]

\* A read that reports run q (the deployments page) settles it when it died.
Settle(q) ==
    /\ q \in Swept({q})
    /\ ~WaitsForRow({q})
    /\ status' = StatusSwept({q})
    /\ lease' = Released(lease, {q})
    /\ UNCHANGED <<pc, runLeft, rowLock, beatVars, channel, base, seen>>

(***************************************************************************)
(* deploy.start_promote and deploy.start_rollback: sweep every other run   *)
(* that died, then commit the run's row as running (beginRunInTx).  The    *)
(* gates that refuse a start leave no row: the run stays idle.             *)
(***************************************************************************)
StartRun(r) ==
    /\ r \in Promotes \cup Rollbacks
    /\ pc[r] = "idle"
    /\ ~WaitsForRow(Swept(Runs \ {r}))
    /\ status' = [StatusSwept(Runs \ {r}) EXCEPT ![r] = "running"]
    /\ runLeft' = [runLeft EXCEPT ![r] = TTL]
    /\ lease' = Released(lease, Swept(Runs \ {r}))
    /\ Goto(r, "waiting")
    /\ UNCHANGED <<rowLock, beatVars, channel, base, seen>>

\* deploy.acquire_live_release, one poll of acquireLeaseStep that finds the row
\* claimable.  A poll that finds it held changes nothing.  The answer may be
\* lost after the commit: the run then fails although it has the lease.
AcquireLiveRelease(r) ==
    /\ pc[r] = "waiting"
    /\ ~lost[r]
    /\ ~RowSkipped
    /\ ClaimableBy(lease, r)
    /\ lease' = Claimed(r)
    /\ \/ /\ Goto(r, "holding")
          /\ expects' = [expects EXCEPT ![r] = TRUE]
       \/ /\ Goto(r, "failing")
          /\ UNCHANGED expects
    /\ UNCHANGED <<runVars, rowLock, beat, lost, channel, base, seen>>

-----------------------------------------------------------------------------
(***************************************************************************)
(* The plugin-data build: deploy.start_plugin_data reads the live run, the *)
(* bake renders from its files without a lease, deploy.begin_plugin_data_  *)
(* run commits the run row and takes the lease in one transaction, only    *)
(* while the books still name that run (a savepoint undoes all of it, the  *)
(* sweep too, when the lease is busy).                                     *)
(***************************************************************************)
StartPluginData(r) ==
    /\ r \in PluginBuilds
    /\ pc[r] = "idle"
    /\ base' = [base EXCEPT ![r] = record]
    /\ Goto(r, "baking")
    /\ UNCHANGED <<runVars, lease, rowLock, beatVars, channel, seen>>

LeaseAfterSweep(r) == Released(lease, Swept(Runs \ {r}))

MayBegin(r) ==
    /\ ~RowSkipped
    /\ ClaimableBy(LeaseAfterSweep(r), r)
    /\ record = base[r]

BeginPluginDataRun(r) ==
    /\ pc[r] = "baking"
    /\ ~WaitsForRow(Swept(Runs \ {r}))
    /\ \/ /\ MayBegin(r)
          /\ status' = [StatusSwept(Runs \ {r}) EXCEPT ![r] = "running"]
          /\ runLeft' = [runLeft EXCEPT ![r] = TTL]
          /\ lease' = Claimed(r)
          /\ expects' = [expects EXCEPT ![r] = TRUE]
          /\ Goto(r, "holding")
       \/ /\ ~MayBegin(r)
          /\ Goto(r, "done")
          /\ UNCHANGED <<runVars, lease, expects>>
    /\ UNCHANGED <<rowLock, beat, lost, channel, base, seen>>

CheckLiveSkipped(r) ==   \* mutant: no comparison with the live version
    /\ r \in PluginBuilds
    /\ pc[r] = "holding"
    /\ Goto(r, "checked")
    /\ UNCHANGED <<runVars, lease, rowLock, beatVars, channel, base, seen>>

\* publishPluginData up to its beforeRelease: Firebase refuses unless the live
\* channel serves the version the base run recorded (assertLiveIs).
CheckLive(r) ==
    /\ r \in PluginBuilds
    /\ pc[r] = "holding"
    /\ Goto(r, IF ChecksLive /\ live # base[r] THEN "failing" ELSE "checked")
    /\ UNCHANGED <<runVars, lease, rowLock, beatVars, channel, base, seen>>

-----------------------------------------------------------------------------
(***************************************************************************)
(* fenceRunLeases: deploy.renew_run_lease right before the provider step.  *)
(* Publish live also honours a stop here; rollback and the plugin-data     *)
(* build only look at the fence's answer.                                  *)
(***************************************************************************)
ReadyToRelease(r) == pc[r] = IF r \in PluginBuilds THEN "checked" ELSE "holding"

FenceUnproven(r) ==   \* mutant: renews, and does not look at the answer
    /\ ReadyToRelease(r)
    /\ ~WaitsForRow({r})
    /\ runLeft' = [runLeft EXCEPT ![r] = RenewedRun(status[r], runLeft[r])]
    /\ lease' = Renewed(lease, r)
    /\ Goto(r, "releasing")
    /\ UNCHANGED <<status, rowLock, beatVars, channel, base, seen>>

Fence(r) ==
    /\ ReadyToRelease(r)
    /\ r \in Promotes => ~lost[r]
    /\ ~WaitsForRow({r})
    /\ runLeft' = [runLeft EXCEPT ![r] = RenewedRun(status[r], runLeft[r])]
    /\ lease' = Renewed(lease, r)
    /\ Goto(r, IF status[r] = "running" /\ HeldBy(lease, r)
               THEN "releasing" ELSE "failing")
    /\ UNCHANGED <<status, rowLock, beatVars, channel, base, seen>>

\* Everything that ends a run before its provider step: the wait for the lease
\* ran out, the caller stopped it, the heartbeat lost a lease, an op or the
\* publisher failed before the release.
GiveUp(r) ==
    /\ pc[r] \in {"waiting", "holding", "checked"}
    /\ Goto(r, "failing")
    /\ UNCHANGED <<runVars, lease, rowLock, beatVars, channel, base, seen>>

\* publisher.promoteToProduction / rollback / publishPluginData: the release.
ProviderReleases(r) ==
    /\ pc[r] = "releasing"
    /\ live' = r
    /\ Goto(r, "released")
    /\ UNCHANGED <<runVars, lease, rowLock, beatVars, record, base, seen>>

\* The provider call throws; the release may have happened all the same.
ProviderFails(r) ==
    /\ pc[r] = "releasing"
    /\ live' \in {live, r}
    /\ Goto(r, "failing")
    /\ UNCHANGED <<runVars, lease, rowLock, beatVars, record, base, seen>>

-----------------------------------------------------------------------------
(***************************************************************************)
(* The record steps.                                                       *)
(***************************************************************************)
RecordSucceeded(r) ==
    /\ status' = [status EXCEPT ![r] = "succeeded"]
    /\ record' = r

RecordFailed(r) ==
    /\ status' = [status EXCEPT ![r] = "failed"]
    /\ UNCHANGED record

RecordStep(r) ==
    /\ pc[r] = "released"
    /\ ~WaitsForRow({r})
    /\ runLeft' = [runLeft EXCEPT ![r] = 0]
    /\ lease' = Released(lease, {r})
    /\ Goto(r, "done")
    /\ UNCHANGED <<rowLock, beatVars, live, base, seen>>

\* deploy.finish_promote: releases the lease, then records the run whatever the
\* release answered and whatever the row says.
FinishPromote(r) ==
    /\ r \in Promotes
    /\ RecordStep(r)
    /\ RecordSucceeded(r)

\* deploy.finish_plugin_data_run: the same, without reading the row.
FinishPluginDataRun(r) ==
    /\ r \in PluginBuilds
    /\ RecordStep(r)
    /\ RecordSucceeded(r)

\* deploy.finish_rollback: succeeded only while the lease was still held.
FinishRollback(r) ==
    /\ r \in Rollbacks
    /\ RecordStep(r)
    /\ IF HeldBy(lease, r) THEN RecordSucceeded(r) ELSE RecordFailed(r)

\* The record step's transaction failed: the run goes on to deploy.fail_run.
FinishFails(r) ==
    /\ pc[r] = "released"
    /\ Goto(r, "failing")
    /\ UNCHANGED <<runVars, lease, rowLock, beatVars, channel, base, seen>>

\* deploy.fail_run: a running row becomes failed; the lease goes either way.
FailRun(r) ==
    /\ pc[r] = "failing"
    /\ ~WaitsForRow({r})
    /\ status' = [status EXCEPT ![r] = IF @ = "running" THEN "failed" ELSE @]
    /\ runLeft' = [runLeft EXCEPT ![r] = 0]
    /\ lease' = Released(lease, {r})
    /\ Goto(r, "done")
    /\ UNCHANGED <<rowLock, beatVars, channel, base, seen>>

\* deploy.fail_run failed: the row stays running until its lease lapses.
FailRunFails(r) ==
    /\ pc[r] = "failing"
    /\ Goto(r, "done")
    /\ UNCHANGED <<runVars, lease, rowLock, beatVars, channel, base, seen>>

\* The process dies.  A provider call it had in flight may still take effect.
Crash(r) ==
    /\ pc[r] \in Beating \cup {"baking"}
    /\ Goto(r, "dead")
    /\ live' \in IF pc[r] = "releasing" THEN {live, r} ELSE {live}
    /\ UNCHANGED <<runVars, lease, rowLock, beatVars, record, base, seen>>

-----------------------------------------------------------------------------
(***************************************************************************)
(* DeployRunHeartbeat.  A beat is judged against what the run expected     *)
(* when the beat was sent; only one is in flight.                          *)
(***************************************************************************)
SendBeatForever(r) ==   \* mutant: heartbeat.stop() is missing
    /\ pc[r] \in Beating \cup {"done"}
    /\ beat[r] = "idle"
    /\ beat' = [beat EXCEPT ![r] = IF expects[r] THEN "sentExpecting" ELSE "sent"]
    /\ UNCHANGED <<pc, runVars, lease, rowLock, expects, lost, channel, base, seen>>

SendBeat(r) ==
    /\ pc[r] \in Beating
    /\ beat[r] = "idle"
    /\ beat' = [beat EXCEPT ![r] = IF expects[r] THEN "sentExpecting" ELSE "sent"]
    /\ UNCHANGED <<pc, runVars, lease, rowLock, expects, lost, channel, base, seen>>

\* What a beat answers, with what the run expected when it was sent.  A beat
\* that renewed everything changes nothing in the process.
BeatAnswer(r) ==
    IF status[r] # "running" THEN "notRunning"
    ELSE IF HeldBy(lease, r) THEN "idle"
    ELSE IF beat[r] = "sent" THEN "notHeld" ELSE "notHeldExpecting"

\* deploy.renew_run_lease on the database; it may commit after its process died.
CommitBeat(r) ==
    /\ beat[r] \in {"sent", "sentExpecting"}
    /\ ~WaitsForRow({r})
    /\ runLeft' = [runLeft EXCEPT ![r] = RenewedRun(status[r], runLeft[r])]
    /\ lease' = Renewed(lease, r)
    /\ beat' = [beat EXCEPT ![r] = BeatAnswer(r)]
    /\ UNCHANGED <<pc, status, rowLock, expects, lost, channel, base, seen>>

\* A beat that throws is logged; the next one tries again.
DropBeat(r) ==
    /\ beat[r] \in {"sent", "sentExpecting"}
    /\ beat' = [beat EXCEPT ![r] = "idle"]
    /\ UNCHANGED <<pc, runVars, lease, rowLock, expects, lost, channel, base, seen>>

JudgeBeatNow(r) ==   \* mutant: judged against what the run expects by now
    /\ beat[r] \in {"notRunning", "notHeld", "notHeldExpecting"}
    /\ lost' = [lost EXCEPT ![r] = @ \/ beat[r] = "notRunning" \/ expects[r]]
    /\ beat' = [beat EXCEPT ![r] = "idle"]
    /\ UNCHANGED <<pc, runVars, lease, rowLock, expects, channel, base, seen>>

\* The answer reaches the process.
JudgeBeat(r) ==
    /\ beat[r] \in {"notRunning", "notHeld", "notHeldExpecting"}
    /\ lost' = [lost EXCEPT ![r] = @ \/ beat[r] # "notHeld"]
    /\ beat' = [beat EXCEPT ![r] = "idle"]
    /\ UNCHANGED <<pc, runVars, lease, rowLock, expects, channel, base, seen>>

-----------------------------------------------------------------------------
(***************************************************************************)
(* The redirect sync's claim: prepareRound claims for the sync's own id,   *)
(* the push reads the live version and releases a copy of it, the record   *)
(* step releases the claim.                                                *)
(***************************************************************************)
ClaimForSync(s) ==
    /\ s \in Syncs
    /\ pc[s] = "idle"
    /\ ~RowSkipped
    /\ Free(lease)
    /\ lease' = Claimed(s)
    /\ Goto(s, "claimed")
    /\ UNCHANGED <<runVars, rowLock, beatVars, channel, base, seen>>

\* withRenewedClaims; its answer is not looked at.
RenewSync(s) ==
    /\ s \in Syncs
    /\ pc[s] \in Copying
    /\ lease' = Renewed(lease, s)
    /\ UNCHANGED <<pc, runVars, rowLock, beatVars, channel, base, seen>>

FinishSync(s) ==
    /\ s \in Syncs
    /\ pc[s] \in Copying \cup {"pushed"}
    /\ ~WaitsForRow({s})
    /\ lease' = Released(lease, {s})
    /\ Goto(s, "done")
    /\ UNCHANGED <<runVars, rowLock, beatVars, channel, base, seen>>

LockForPurgeHeld(p) ==   \* mutant: locks the row although a run holds the lease
    /\ p \in Purges
    /\ pc[p] = "idle"
    /\ ~RowSkipped
    /\ rowLock' = p
    /\ Goto(p, "claimed")
    /\ UNCHANGED <<runVars, lease, beatVars, channel, base, seen>>

\* tryLockLiveReleases: the purge's transaction locks the row while it is free.  (A
\* held row it locks only to look at it, and ends.)
LockForPurge(p) ==
    /\ p \in Purges
    /\ pc[p] = "idle"
    /\ ~RowSkipped
    /\ Free(lease)
    /\ rowLock' = p
    /\ Goto(p, "claimed")
    /\ UNCHANGED <<runVars, lease, beatVars, channel, base, seen>>

\* The purge's transaction commits or rolls back.
FinishPurge(p) ==
    /\ p \in Purges
    /\ pc[p] \in Copying \cup {"pushed"}
    /\ rowLock' = IF rowLock = p THEN NoOne ELSE rowLock
    /\ Goto(p, "done")
    /\ UNCHANGED <<runVars, lease, beatVars, channel, base, seen>>

\* idle_in_transaction_session_timeout (migration 0392) ends the purge's
\* transaction while the purge still talks to the provider, or after its release.
PurgeTimesOut(p) ==
    /\ p \in Purges
    /\ LateCopies \/ pc[p] = "pushed"
    /\ rowLock = p
    /\ rowLock' = NoOne
    /\ UNCHANGED <<pc, runVars, lease, beatVars, channel, base, seen>>

\* Both copiers: read the live version, then release it again.
ReadLive(c) ==
    /\ pc[c] = "claimed"
    /\ seen' = [seen EXCEPT ![c] = live]
    /\ Goto(c, "read")
    /\ UNCHANGED <<runVars, lease, rowLock, beatVars, channel, base>>

ReleaseCopy(c) ==
    /\ pc[c] = "read"
    /\ live' = seen[c]
    /\ Goto(c, "pushed")
    /\ UNCHANGED <<runVars, lease, rowLock, beatVars, record, base, seen>>

\* The copier's process dies; a purge's row lock goes with its connection.
CrashCopier(c) ==
    /\ pc[c] \in Copying \cup {"pushed"}
    /\ live' \in IF pc[c] = "read" THEN {live, seen[c]} ELSE {live}
    /\ rowLock' = IF rowLock = c THEN NoOne ELSE rowLock
    /\ Goto(c, "dead")
    /\ UNCHANGED <<runVars, lease, beatVars, record, base, seen>>

-----------------------------------------------------------------------------
(***************************************************************************)
(* Time.  The one assumption on it is the code's own                       *)
(* (deploy-rollback.ts, deploy-lease-steps.ts): a provider release takes   *)
(* less than what is left of the lease its fence renewed.  LateCopies      *)
(* drops the same assumption for the syncs, which have no fence.           *)
(***************************************************************************)
InProviderCall(x) ==
    \/ x \in Runs /\ pc[x] = "releasing"
    \/ x \in Syncs /\ pc[x] \in Copying /\ ~LateCopies

Tick ==
    /\ \A x \in Runs \cup Syncs : InProviderCall(x) => lease.left > 1
    /\ lease.left > 0 \/ \E r \in Runs : runLeft[r] > 0
    /\ runLeft' = [r \in Runs |-> Lapse(runLeft[r])]
    /\ lease' = [holder |-> lease.holder, left |-> Lapse(lease.left)]
    /\ UNCHANGED <<pc, status, rowLock, beatVars, channel, base, seen>>

StartStep(r) == StartRun(r) \/ StartPluginData(r)

RunStep(r) ==
    \/ AcquireLiveRelease(r) \/ BeginPluginDataRun(r)
    \/ CheckLive(r) \/ Fence(r) \/ GiveUp(r)
    \/ ProviderReleases(r) \/ ProviderFails(r)
    \/ FinishPromote(r) \/ FinishPluginDataRun(r) \/ FinishRollback(r)
    \/ FinishFails(r) \/ FailRun(r) \/ FailRunFails(r)

BeatStep(r) == SendBeat(r) \/ CommitBeat(r) \/ DropBeat(r) \/ JudgeBeat(r)

CopierStep(c) ==
    \/ ClaimForSync(c) \/ RenewSync(c) \/ FinishSync(c)
    \/ LockForPurge(c) \/ FinishPurge(c) \/ PurgeTimesOut(c)
    \/ ReadLive(c) \/ ReleaseCopy(c)

Next ==
    \/ \E r \in Runs : StartStep(r) \/ RunStep(r) \/ BeatStep(r) \/ Settle(r) \/ Crash(r)
    \/ \E c \in Copiers : CopierStep(c) \/ CrashCopier(c)
    \/ Tick

Spec == Init /\ [][Next]_vars

(***************************************************************************)
(* Fairness.  A process that is alive goes on (every wait in the code has  *)
(* a deadline: GiveUp, FailRunFails and FinishPurge are always possible),  *)
(* database statements and provider calls return, the clock runs, and      *)
(* someone reads or starts a run now and then, which settles dead ones.    *)
(* Nothing is assumed of a crash, of a renewal or of a beat being sent.    *)
(***************************************************************************)
Fairness ==
    /\ WF_vars(Tick)
    /\ \A r \in Runs :
        /\ WF_vars(RunStep(r))
        /\ WF_vars(Settle(r))
        /\ WF_vars(CommitBeat(r) \/ DropBeat(r) \/ JudgeBeat(r))
    /\ \A c \in Copiers :
        WF_vars(ReadLive(c) \/ ReleaseCopy(c) \/ FinishSync(c) \/ FinishPurge(c))

FairSpec == Spec /\ Fairness

-----------------------------------------------------------------------------
(***************************************************************************)
(* Properties.                                                             *)
(***************************************************************************)

\* Type correctness.
TypeOK ==
    /\ pc \in [Runs \cup Copiers -> RunStates \cup CopyStates]
    /\ \A r \in Runs : pc[r] \in RunStates
    /\ \A c \in Copiers : pc[c] \in CopyStates
    /\ status \in [Runs -> {"absent", "running", "succeeded", "failed"}]
    /\ runLeft \in [Runs -> 0..TTL]
    /\ lease \in LeaseRow(Runs \cup Syncs)
    /\ rowLock \in Purges \cup {NoOne}
    /\ beat \in [Runs -> BeatStates]
    /\ expects \in [Runs -> BOOLEAN]
    /\ lost \in [Runs -> BOOLEAN]
    /\ live \in Builds
    /\ record \in Builds
    /\ base \in [PluginBuilds -> Builds]
    /\ seen \in [Copiers -> Builds]

\* The processes that have a provider write to the live channel in hand: a run
\* past its fence, a copier between its claim and its release.
Writers ==
    {r \in Runs : pc[r] = "releasing"} \cup {c \in Copiers : pc[c] \in Copying}

\* Live writes are ordered (live-release-lock.ts: "Orders every write to the
\* live channel of the static site"): whatever stalls, dies, lapses or is swept,
\* two processes never have a write to the live channel in flight at once.
OneWriter == \A x, y \in Writers : x = y

\* A run whose provider release is in flight is the holder of the unexpired
\* lease and its row still says running: no sweep, read, claim or late renewal
\* takes either away after the fence.
ReleaserOwnsLease ==
    \A r \in Runs : pc[r] = "releasing" => status[r] = "running" /\ HeldBy(lease, r)

\* deploy-rollback.ts: "the run is recorded succeeded only while it still holds
\* the live-release lease - then no other release can have come in between".
\* A rollback that becomes the live run in the books is what visitors get.
RollbackRecordTruthful ==
    [][\A r \in Rollbacks : record' = r /\ record # r => live = r]_vars

\* live-release-lock.ts: the purge "re-releases the version the publish just
\* replaced, while deploy_runs says the new build is live" - the race the lease
\* exists for.  A redirect push or a CDN purge never changes which build is live.
CopyKeepsPublish ==
    [][\A c \in Copiers : pc[c] = "read" /\ pc'[c] # "read" => live' = live]_vars

\* plugin-data/build.ts: "the files baked from the live build never replace a
\* newer one".  A plugin-data release only ever replaces the build it was baked
\* from.
PluginDataKeepsPublish ==
    [][\A r \in PluginBuilds :
         pc[r] = "releasing" /\ live' = r /\ live # r => live = base[r]]_vars

\* The heartbeat stops a run only for a reason: its row is not running any more,
\* or the live-release lease is not its own.  An answer that overtook the
\* acquisition of the lease stops nobody.
NoSpuriousStop ==
    \A r \in Runs : lost[r] => status[r] # "running" \/ ~HeldBy(lease, r)

\* servedRun and liveRunOf read the newest finished run as the build that is
\* live: "every publish and rollback marks its run finished while it holds the
\* target's publish lease, so the newest finished_at is the build released
\* last".  A Publish live that becomes the live run in the books is what
\* visitors get.  deploy.finish_promote does not guarantee it: it records
\* whatever releaseLiveRelease answers.
PromoteRecordTruthful ==
    [][\A r \in Promotes : record' = r /\ record # r => live = r]_vars

\* Every run that was started is settled in the end: whatever dies, lapses or
\* fails to record, no row says running for ever.
EverySettled ==
    \A r \in Runs : status[r] = "running" ~> status[r] # "running"
=============================================================================
