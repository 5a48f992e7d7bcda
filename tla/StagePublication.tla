-------------------------- MODULE StagePublication --------------------------
(***************************************************************************)
(* A Stage on a cloud provider: how the staging slots are filled and which *)
(* build staging_access says is served (packages/admin-core/src/           *)
(* deploy/staging-slots.ts, staging-publication-lock.ts,                   *)
(* ops/deploy-trigger.ts).                                                 *)
(*                                                                         *)
(* A Stage takes the "staging-publication" lease, syncs the slot staging   *)
(* does not serve (the manifest goes first and comes back last, and files  *)
(* the slot's manifest lists with the same hash are not written), and      *)
(* records the slot as served while it still holds the lease.  Writes run  *)
(* in the background of the build.  A Stage may lose the lease while it is *)
(* alive (a stall) or while writes of it are in flight.                    *)
(*                                                                         *)
(* A build is the function from files to contents; a manifest is the run   *)
(* that wrote it, whose build it lists.                                    *)
(***************************************************************************)
EXTENDS DeployLease

CONSTANTS
    Stages,        \* the deploy runs of deploy.trigger on the staging target
    Files, Contents,
    Absent,        \* the content of a file that is not there
    Builds,        \* what a build may be: functions from Files to contents
    MaxOverruns    \* bound: Stages that lose the lease before their work on the slot ends

ASSUME StageAssumption ==
    /\ NoOne \notin Stages /\ Absent \notin Contents
    /\ Builds \subseteq [Files -> Contents \cup {Absent}]
    /\ MaxOverruns \in Nat

Slots == {"a", "b"}

VARIABLES
    pc,        \* where each Stage is
    status,    \* deploy_runs.status
    build,     \* what the Stage renders
    lease,     \* the staging-publication row of deploy_leases
    served,    \* staging_access.origin_run_id; served_location is its dest
    dest,      \* the slot a Stage fills
    prev,      \* the manifest it found there: the run that wrote it
    todo,      \* files it still has to take, later to delete
    flying,    \* its slot writes in flight (#inflight)
    broken,    \* no more files are taken: a write failed (#failure), or the sync stopped
    slot,      \* the objects of each slot
    manifest,  \* the run whose manifest lies next to each slot
    overruns   \* history: how often a Stage lost the lease with its work unfinished

vars == <<pc, status, build, lease, served, dest, prev, todo, flying, broken,
          slot, manifest, overruns>>

plan    == <<build, dest, prev>>
storage == <<slot, manifest>>

Alive == {"waiting", "opening", "opened", "filling", "cleaning", "complete", "failing"}

Init ==
    /\ pc = [s \in Stages |-> "idle"]
    /\ status = [s \in Stages |-> "absent"]
    /\ build \in [Stages -> Builds]
    /\ lease = FreeRow
    /\ served = NoOne
    /\ dest = [s \in Stages |-> "a"]
    /\ prev = [s \in Stages |-> NoOne]
    /\ todo = [s \in Stages |-> {}]
    /\ flying = [s \in Stages |-> {}]
    /\ broken = [s \in Stages |-> FALSE]
    /\ slot = [l \in Slots |-> [f \in Files |-> Absent]]
    /\ manifest = [l \in Slots |-> NoOne]
    /\ overruns = 0

Goto(s, state) == pc' = [pc EXCEPT ![s] = state]

\* The sync stops: what only a sync that goes on looks at is forgotten.
StopSync(s) ==
    /\ prev' = [prev EXCEPT ![s] = NoOne]
    /\ todo' = [todo EXCEPT ![s] = {}]
    /\ broken' = [broken EXCEPT ![s] = TRUE]

-----------------------------------------------------------------------------
(***************************************************************************)
(* deploy.start_trigger commits the run as running.  Its sweep of dead     *)
(* runs is Sweep below.                                                    *)
(***************************************************************************)
StartTrigger(s) ==
    /\ pc[s] = "idle"
    /\ status' = [status EXCEPT ![s] = "running"]
    /\ Goto(s, "waiting")
    /\ UNCHANGED <<plan, lease, served, todo, flying, broken, storage, overruns>>

\* nextStagingSlot of the served location.
NextSlot(run) == IF run # NoOne /\ dest[run] = "a" THEN "b" ELSE "a"

\* deploy.acquire_staging_publication: takes the lease and reads the served
\* location in one transaction.  Its answer may be lost after the commit.
AcquireStagingPublication(s) ==
    /\ pc[s] = "waiting"
    /\ ClaimableBy(lease, s)
    /\ lease' = Claimed(s)
    /\ dest' = [dest EXCEPT ![s] = NextSlot(served)]
    /\ Goto(s, "opening") \/ Goto(s, "failing")
    /\ UNCHANGED <<status, build, served, prev, todo, flying, broken, storage, overruns>>

\* deploy.renew_run_lease, the heartbeat.
Renew(s) ==
    /\ pc[s] \in Alive
    /\ lease' = Renewed(lease, s)
    /\ UNCHANGED <<pc, status, plan, served, todo, flying, broken, storage, overruns>>

-----------------------------------------------------------------------------
(***************************************************************************)
(* GcsSlotSync.  open reads the slot's manifest and deletes it.            *)
(***************************************************************************)
ReadManifest(s) ==
    /\ pc[s] = "opening"
    /\ prev' = [prev EXCEPT ![s] = manifest[dest[s]]]
    /\ Goto(s, "opened")
    /\ UNCHANGED <<status, build, lease, served, dest, todo, flying, broken, storage, overruns>>

FilesOf(s) == {f \in Files : build[s][f] # Absent}

KeepManifest(s) ==   \* mutant: the manifest stays while the slot is filled
    /\ pc[s] = "opened"
    /\ todo' = [todo EXCEPT ![s] = FilesOf(s)]
    /\ Goto(s, "filling")
    /\ UNCHANGED <<status, plan, lease, served, flying, broken, storage, overruns>>

DeleteManifest(s) ==
    /\ pc[s] = "opened"
    /\ manifest' = [manifest EXCEPT ![dest[s]] = NoOne]
    /\ todo' = [todo EXCEPT ![s] = FilesOf(s)]
    /\ Goto(s, "filling")
    /\ UNCHANGED <<status, plan, lease, served, flying, broken, slot, overruns>>

\* needs: the slot holds other bytes, or nothing, as far as its manifest says.
Needs(s, f) == prev[s] = NoOne \/ build[prev[s]][f] # build[s][f]

\* take: records the file, and queues its write when the slot needs it.
Take(s, f) ==
    /\ pc[s] = "filling"
    /\ f \in todo[s]
    /\ Needs(s, f) => ~broken[s]
    /\ todo' = [todo EXCEPT ![s] = @ \ {f}]
    /\ flying' = [flying EXCEPT ![s] = IF Needs(s, f) THEN @ \cup {f} ELSE @]
    /\ UNCHANGED <<pc, status, plan, lease, served, broken, storage, overruns>>

WriteLands(s, f) ==
    /\ f \in flying[s]
    /\ slot' = [slot EXCEPT ![dest[s]][f] = build[s][f]]
    /\ flying' = [flying EXCEPT ![s] = @ \ {f}]
    /\ UNCHANGED <<pc, status, plan, lease, served, todo, broken, manifest, overruns>>

WriteFails(s, f) ==
    /\ f \in flying[s]
    /\ flying' = [flying EXCEPT ![s] = @ \ {f}]
    /\ broken' = [broken EXCEPT ![s] = TRUE]
    /\ UNCHANGED <<pc, status, plan, lease, served, todo, storage, overruns>>

Stale(s) == {f \in Files : build[s][f] = Absent /\ slot[dest[s]][f] # Absent}

AwaitWritesOnly(s) ==   \* mutant: waits for the writes, and does not look how they ended
    /\ pc[s] = "filling"
    /\ todo[s] = {} /\ flying[s] = {}
    /\ todo' = [todo EXCEPT ![s] = Stale(s)]
    /\ Goto(s, "cleaning")
    /\ UNCHANGED <<status, plan, lease, served, flying, broken, storage, overruns>>

\* finish: waits for the writes, throws when one failed, lists what is stale.
AwaitWrites(s) ==
    /\ pc[s] = "filling"
    /\ todo[s] = {} /\ flying[s] = {}
    /\ ~broken[s]
    /\ todo' = [todo EXCEPT ![s] = Stale(s)]
    /\ Goto(s, "cleaning")
    /\ UNCHANGED <<status, plan, lease, served, flying, broken, storage, overruns>>

DeleteStale(s, f) ==
    /\ pc[s] = "cleaning"
    /\ f \in todo[s]
    /\ slot' = [slot EXCEPT ![dest[s]][f] = Absent]
    /\ todo' = [todo EXCEPT ![s] = @ \ {f}]
    /\ UNCHANGED <<pc, status, plan, lease, served, flying, broken, manifest, overruns>>

WriteManifest(s) ==
    /\ pc[s] = "cleaning"
    /\ todo[s] = {}
    /\ manifest' = [manifest EXCEPT ![dest[s]] = s]
    /\ Goto(s, "complete")
    /\ StopSync(s)
    /\ UNCHANGED <<status, build, lease, served, dest, flying, slot, overruns>>

-----------------------------------------------------------------------------
FinishTriggerUnfenced(s) ==   \* mutant: the lease is not asked for
    /\ pc[s] = "complete"
    /\ status[s] = "running"
    /\ status' = [status EXCEPT ![s] = "succeeded"]
    /\ lease' = Released(lease, {s})
    /\ served' = s
    /\ Goto(s, "done")
    /\ UNCHANGED <<plan, todo, flying, broken, storage, overruns>>

\* deploy.finish_trigger: the run is still running and still holds the lease.
FinishTrigger(s) ==
    /\ pc[s] = "complete"
    /\ status[s] = "running" /\ HeldBy(lease, s)
    /\ status' = [status EXCEPT ![s] = "succeeded"]
    /\ lease' = Released(lease, {s})
    /\ served' = s
    /\ Goto(s, "done")
    /\ UNCHANGED <<plan, todo, flying, broken, storage, overruns>>

\* Everything else ends in fail(): the wait ran out, the generator, the upload
\* or a step failed, the heartbeat lost a lease, finish_trigger refused.
GiveUp(s) ==
    /\ pc[s] \in Alive \ {"failing"}
    /\ Goto(s, "failing")
    /\ StopSync(s)
    /\ UNCHANGED <<status, build, lease, served, dest, flying, storage, overruns>>

\* The Stage may still change its slot: it goes on, or writes of it are in flight.
AtWork(s) == pc[s] \in {"opening", "opened", "filling", "cleaning"} \/ flying[s] # {}

\* Counts the Stages that lost the lease too early.
Overruns(early) ==
    /\ early => overruns < MaxOverruns
    /\ overruns' = overruns + (IF early THEN 1 ELSE 0)

\* deploy.fail_run, then upload.abort(), which waits for no write.
FailRun(s) ==
    /\ pc[s] = "failing"
    /\ status' = [status EXCEPT ![s] = IF @ = "running" THEN "failed" ELSE @]
    /\ lease' = Released(lease, {s})
    /\ Overruns(AtWork(s))
    /\ Goto(s, "done")
    /\ UNCHANGED <<plan, served, todo, flying, broken, storage>>

\* The process dies, or deploy.fail_run fails: the leases are left to lapse.
Die(s) ==
    /\ pc[s] \in Alive
    /\ Goto(s, "dead")
    /\ StopSync(s)
    /\ UNCHANGED <<status, build, lease, served, dest, flying, storage, overruns>>

\* The holder died, or stalls: its heartbeats stay out.
LeaseLapses ==
    /\ lease.left > 0
    /\ lease' = [lease EXCEPT !.left = Lapse(@)]
    /\ Overruns(lease.left = 1 /\ AtWork(lease.holder))
    /\ UNCHANGED <<pc, status, plan, served, todo, flying, broken, storage>>

\* failRunIfOrphanedInTx: the run's own lease lapsed, for the same reasons.
Sweep(s) ==
    /\ status[s] = "running"
    /\ status' = [status EXCEPT ![s] = "failed"]
    /\ lease' = Released(lease, {s})
    /\ Overruns(AtWork(s))
    /\ UNCHANGED <<pc, plan, served, todo, flying, broken, storage>>

-----------------------------------------------------------------------------
StageStep(s) ==
    \/ StartTrigger(s) \/ AcquireStagingPublication(s) \/ Renew(s)
    \/ ReadManifest(s) \/ DeleteManifest(s) \/ AwaitWrites(s) \/ WriteManifest(s)
    \/ FinishTrigger(s) \/ GiveUp(s) \/ FailRun(s) \/ Die(s) \/ Sweep(s)

FileStep(s, f) == Take(s, f) \/ WriteLands(s, f) \/ WriteFails(s, f) \/ DeleteStale(s, f)

Next ==
    \/ \E s \in Stages : StageStep(s)
    \/ \E s \in Stages, f \in Files : FileStep(s, f)
    \/ LeaseLapses

Spec == Init /\ [][Next]_vars

-----------------------------------------------------------------------------
(***************************************************************************)
(* Properties.                                                             *)
(***************************************************************************)

\* Type correctness.
TypeOK ==
    /\ pc \in [Stages -> Alive \cup {"idle", "done", "dead"}]
    /\ status \in [Stages -> {"absent", "running", "succeeded", "failed"}]
    /\ build \in [Stages -> Builds]
    /\ lease \in LeaseRow(Stages)
    /\ served \in Stages \cup {NoOne}
    /\ dest \in [Stages -> Slots]
    /\ prev \in [Stages -> Stages \cup {NoOne}]
    /\ todo \in [Stages -> SUBSET Files] /\ flying \in [Stages -> SUBSET Files]
    /\ broken \in [Stages -> BOOLEAN]
    /\ slot \in [Slots -> [Files -> Contents \cup {Absent}]]
    /\ manifest \in [Slots -> Stages \cup {NoOne}]
    /\ overruns \in 0..MaxOverruns

\* staging-slots.ts: a sync deletes the manifest first "instead of trusting a
\* manifest that no longer describes the slot".  Whatever fails or dies halfway, a
\* manifest that lies next to a slot lists exactly what the slot holds, as long as
\* every Stage's work on its slot ended before its lease did.
ManifestTruthful ==
    overruns = 0 => \A l \in Slots : manifest[l] # NoOne => slot[l] = build[manifest[l]]

\* staging-slots.ts: "visitors of staging never see a half-synced build".  Under
\* the same condition the slot recorded as served holds the recorded run's build,
\* completely, with its manifest.
ServedIsWhole ==
    overruns = 0 /\ served # NoOne =>
        manifest[dest[served]] = served /\ slot[dest[served]] = build[served]

\* deploy.finish_trigger: a Stage that lost its place in the publish order is not
\* recorded.  However Stages stall, fail, write late and overtake each other, a
\* record moves staging to the slot that was not served: it never republishes a
\* slot in place.
StageFlips ==
    [][served' # served /\ served # NoOne => dest'[served'] # dest[served]]_vars
=============================================================================
