---------------------------- MODULE RedirectSync ----------------------------
(***************************************************************************)
(* Redirects go live without a build (packages/admin-core/src/deploy/      *)
(* redirect-sync.ts, redirect-sync-worker.ts, ops/redirect_sync.ts).  A    *)
(* saved change leaves a row in redirect_changes.  A sync folds the rows   *)
(* it sees into the targets' wanted revision, claims the publish lease of  *)
(* each target that is due, reads the revision and then the table, pushes  *)
(* the table to the provider with no transaction open, and records the     *)
(* revision it read.  A publish puts a build live that carries the table   *)
(* of its own build time, and marks its target as behind.                  *)
(*                                                                         *)
(* The table is its version: the number of changes saved so far.  One      *)
(* target per environment, each with its publish lease.  Leases are held   *)
(* or not: their clock is the subject of LiveRelease.tla.                  *)
(***************************************************************************)
EXTENDS Integers, FiniteSets

CONSTANTS
    Targets,      \* the staging and production deploy targets
    Syncs,        \* processes that run redirects.sync_provider
    NoOne,        \* no holder
    Publisher,    \* the holder of a lease that is a Stage, Publish live or rollback
    MaxChanges, MaxPublishes, MaxCrashes,   \* bounds
    MaxRounds,    \* MAX_ROUNDS
    LatePushes,   \* a push may outlast its claim
    LostRecords   \* a publish may release its build and fail to record it

ASSUME BoundAssumption ==
    /\ MaxChanges \in Nat /\ MaxPublishes \in Nat /\ MaxCrashes \in Nat
    /\ MaxRounds \in Nat \ {0}

ASSUME ProcessAssumption ==
    /\ NoOne \notin Syncs /\ Publisher \notin Syncs /\ NoOne # Publisher
    /\ LatePushes \in BOOLEAN /\ LostRecords \in BOOLEAN

VARIABLES
    table,      \* version of the redirects table
    changes,    \* the rows of redirect_changes: the changes nobody folded yet
    wanted,     \* redirect_sync_state.wanted_revision
    synced,     \* redirect_sync_state.synced_revision
    retry,      \* redirect_sync_state.next_attempt_at: "none", "later", "due"
    stateLock,  \* the sync whose open transaction updated redirect_sync_state
    lease,      \* the holder of each target's publish lease
    served,     \* version of the table the provider answers from
    published,  \* deploy_runs has a succeeded run of the target (servedRun)
    pub,        \* the publish in flight on each target
    carries,    \* version of the table that publish's build carries
    pc, job,    \* each sync: where it is, and its arguments and plan
    publishes, crashes,  \* counters of the bounds
    tried       \* history: version the target's last failed push read

vars == <<table, changes, wanted, synced, retry, stateLock, lease, served, published,
          pub, carries, pc, job, publishes, crashes, tried>>

stateVars   == <<wanted, synced, retry>>
publishVars == <<published, pub, carries, publishes>>

\* "due": save and retry push what is due.  "build": build, publish and rollback
\* push a target whose served build changed (SERVED_BUILD_CHANGED).
Triggers == {"due", "manual", "build"}
Versions == 0..MaxChanges

\* The arguments and the plan of a sync: which trigger, all targets or only
\* some, the round, the rows it folded, the targets it claimed, the revision and
\* the table it read, the pushes that came back.
NoJob == [trigger |-> "due", all |-> TRUE, only |-> Targets, round |-> 0, folded |-> {},
          claimed |-> {}, rev |-> [t \in Targets |-> 0], read |-> 0,
          ok |-> {}, failed |-> {}]

Init ==
    /\ table = 0 /\ changes = {}
    /\ wanted = [t \in Targets |-> 0]
    /\ synced = [t \in Targets |-> 0]
    /\ retry = [t \in Targets |-> "none"]
    /\ stateLock = NoOne
    /\ lease = [t \in Targets |-> NoOne]
    /\ served = [t \in Targets |-> 0]
    /\ published = [t \in Targets |-> FALSE]
    /\ pub = [t \in Targets |-> "idle"]
    /\ carries = [t \in Targets |-> 0]
    /\ pc = [s \in Syncs |-> "idle"]
    /\ job = [s \in Syncs |-> NoJob]
    /\ publishes = 0 /\ crashes = 0
    /\ tried = [t \in Targets |-> 0]

-----------------------------------------------------------------------------
(***************************************************************************)
(* A write that changes redirects rows commits them with its change row.   *)
(***************************************************************************)
SaveRedirects ==
    /\ table < MaxChanges
    /\ table' = table + 1
    /\ changes' = changes \cup {table + 1}
    /\ UNCHANGED <<stateVars, stateLock, lease, served, publishVars, pc, job, crashes, tried>>

(***************************************************************************)
(* A publish.  Its build reads the table when it starts; the release puts  *)
(* that table live; the record step releases the lease and marks the       *)
(* target as behind (markRedirectsBehind) in one transaction.              *)
(***************************************************************************)
PublishStep(t, from, to) == pub[t] = from /\ pub' = [pub EXCEPT ![t] = to]

StartBuild(t) ==
    /\ publishes < MaxPublishes
    /\ PublishStep(t, "idle", "built")
    /\ publishes' = publishes + 1
    /\ carries' = [carries EXCEPT ![t] = table]
    /\ UNCHANGED <<table, changes, stateVars, stateLock, lease, served, published,
                   pc, job, crashes, tried>>

AcquirePublish(t) ==
    /\ PublishStep(t, "built", "holding")
    /\ lease[t] = NoOne
    /\ lease' = [lease EXCEPT ![t] = Publisher]
    /\ UNCHANGED <<table, changes, stateVars, stateLock, served, published, carries,
                   publishes, pc, job, crashes, tried>>

ReleaseBuild(t) ==
    /\ PublishStep(t, "holding", "released")
    /\ served' = [served EXCEPT ![t] = carries[t]]
    /\ carries' = [carries EXCEPT ![t] = 0]
    /\ UNCHANGED <<table, changes, stateVars, stateLock, lease, published, publishes,
                   pc, job, crashes, tried>>

MarkNothing(t) == UNCHANGED stateVars   \* mutant: the build's own table is taken as current

MarkRedirectsBehind(t) ==
    /\ wanted' = [wanted EXCEPT ![t] = @ + 1]
    /\ UNCHANGED <<synced, retry>>

RecordPublish(t) ==
    /\ PublishStep(t, "released", "recorded")
    /\ stateLock = NoOne
    /\ MarkRedirectsBehind(t)
    /\ lease' = [lease EXCEPT ![t] = NoOne]
    /\ published' = [published EXCEPT ![t] = TRUE]
    /\ UNCHANGED <<table, changes, stateLock, served, carries, publishes, pc, job,
                   crashes, tried>>

\* The publish ends without its record: before its release, or, with
\* LostRecords, after it (a crash, a failed transaction).
EndPublish(t) ==
    /\ \E from \in {"built", "holding"} \cup (IF LostRecords THEN {"released"} ELSE {}) :
         PublishStep(t, from, "idle")
    /\ lease' = [lease EXCEPT ![t] = IF @ = Publisher THEN NoOne ELSE @]
    /\ UNCHANGED <<table, changes, stateVars, stateLock, served, published, carries,
                   publishes, pc, job, crashes, tried>>

\* The process dies between the record step and its sync.
SkipPublishSync(t) ==
    /\ PublishStep(t, "recorded", "idle")
    /\ UNCHANGED <<table, changes, stateVars, stateLock, lease, served, published, carries,
                   publishes, pc, job, crashes, tried>>

-----------------------------------------------------------------------------
(***************************************************************************)
(* What starts a sync.                                                     *)
(***************************************************************************)
Begin(s, trigger, all, only) ==
    /\ pc[s] = "idle"
    /\ pc' = [pc EXCEPT ![s] = "prepare"]
    /\ job' = [job EXCEPT ![s] = [NoJob EXCEPT !.trigger = trigger, !.all = all,
                                               !.only = only, !.round = 1]]
    /\ UNCHANGED <<table, changes, stateVars, stateLock, lease, served, published, carries,
                   publishes, crashes, tried>>

\* A sync returns, or dies with its instance; its id is not used again.
Ends(s, how) ==
    /\ pc' = [pc EXCEPT ![s] = how]
    /\ job' = [job EXCEPT ![s] = NoJob]

Behind(t)   == wanted[t] > synced[t]
DueTargets  == {t \in Targets : Behind(t) /\ retry[t] # "later"}

\* requestRedirectSync: the post-commit effect of a save (coalescedSave).
SyncAfterSave(s) == table > 0 /\ Begin(s, "due", TRUE, Targets) /\ UNCHANGED pub

\* retryRedirectSync, on the scheduler's tick.
SyncOnTick(s) ==
    /\ changes # {} \/ DueTargets # {}
    /\ IF changes # {} THEN Begin(s, "due", TRUE, Targets)
                       ELSE Begin(s, "due", FALSE, DueTargets)
    /\ UNCHANGED pub

\* "Try again" on one target (widenManualRetry).
SyncManually(s, t) ==
    /\ IF changes # {} THEN Begin(s, "manual", TRUE, Targets)
                       ELSE Begin(s, "manual", FALSE, {t})
    /\ UNCHANGED pub

\* redirects.sync_provider after a Stage, Publish live or rollback.
SyncAfterPublish(s, t) ==
    /\ PublishStep(t, "recorded", "idle")
    /\ Begin(s, "build", FALSE, {t})

-----------------------------------------------------------------------------
(***************************************************************************)
(* prepareRound, one transaction of several statements.  Prepare is all of *)
(* it up to the revision it reads; a write may commit before ReadTable     *)
(* reads the table and commits.  What Prepare updated is visible to others *)
(* from the commit on; the rows it updated stay locked until then.         *)
(***************************************************************************)
Folds(s)      == IF job[s].all THEN changes ELSE {}
FirstRound(s) == job[s].round = 1
PushAll(s)    == FirstRound(s) /\ job[s].trigger \in {"build", "manual"}

\* foldChanges: a fold restarts every target's backoff.
WantedAfterFold(s, t) == wanted[t] + (IF Folds(s) = {} THEN 0 ELSE 1)

ToPush(s) ==
    {t \in job[s].only :
        \/ PushAll(s)
        \/ WantedAfterFold(s, t) > synced[t] /\ (retry[t] # "later" \/ Folds(s) # {})}

ClaimableHeld(s) == ToPush(s)   \* mutant: the lease is not asked for

\* claimSyncLease never waits: a held lease skips its target.
Claimable(s) == {t \in ToPush(s) : lease[t] = NoOne}

Revision(s, t) ==
    WantedAfterFold(s, t) + (IF FirstRound(s) /\ job[s].trigger = "build" THEN 1 ELSE 0)

NewRevisionClaimed(s, t) == IF t \in Claimable(s) THEN Revision(s, t) ELSE wanted[t]   \* mutant: folds into the claimed targets only

\* Every target's wanted revision after this transaction.
NewRevision(s, t) == IF t \in Claimable(s) THEN Revision(s, t) ELSE WantedAfterFold(s, t)

Writes(s) == Folds(s) # {} \/ (FirstRound(s) /\ job[s].trigger = "build" /\ Claimable(s) # {})

Prepare(s) ==
    /\ pc[s] = "prepare"
    /\ Writes(s) => stateLock = NoOne
    /\ stateLock' = IF Writes(s) THEN s ELSE stateLock
    /\ lease' = [t \in Targets |-> IF t \in Claimable(s) THEN s ELSE lease[t]]
    /\ job' = [job EXCEPT ![s].folded = Folds(s), ![s].claimed = Claimable(s),
                          ![s].rev = [t \in Targets |-> NewRevision(s, t)],
                          ![s].ok = {}, ![s].failed = {}]
    /\ pc' = [pc EXCEPT ![s] = "reading"]
    /\ UNCHANGED <<table, changes, stateVars, served, publishVars, crashes, tried>>

Folded(s) == job[s].folded # {}

ReadTable(s) ==
    /\ pc[s] = "reading"
    /\ changes' = changes \ job[s].folded
    /\ wanted' = IF stateLock = s THEN job[s].rev ELSE wanted
    /\ retry' = IF Folded(s) THEN [t \in Targets |-> "none"] ELSE retry
    /\ stateLock' = IF stateLock = s THEN NoOne ELSE stateLock
    /\ IF job[s].claimed = {}
         THEN Ends(s, "idle")
         ELSE /\ pc' = [pc EXCEPT ![s] = "push"]
              /\ job' = [job EXCEPT ![s].read = table,
                                    ![s].ok = {t \in job[s].claimed : ~published[t]}]
    /\ UNCHANGED <<table, synced, lease, served, publishVars, crashes, tried>>

-----------------------------------------------------------------------------
(***************************************************************************)
(* pushTarget.  A push that fails may have reached the provider.           *)
(***************************************************************************)
Unpushed(s) == job[s].claimed \ (job[s].ok \cup job[s].failed)

PushSucceeds(s, t) ==
    /\ pc[s] = "push"
    /\ t \in Unpushed(s)
    /\ served' = [served EXCEPT ![t] = job[s].read]
    /\ job' = [job EXCEPT ![s].ok = @ \cup {t}]
    /\ UNCHANGED <<table, changes, stateVars, stateLock, lease, publishVars, pc, crashes, tried>>

PushFails(s, t) ==
    /\ pc[s] = "push"
    /\ t \in Unpushed(s)
    /\ served' \in {served, [served EXCEPT ![t] = job[s].read]}
    /\ job' = [job EXCEPT ![s].failed = @ \cup {t}]
    /\ UNCHANGED <<table, changes, stateVars, stateLock, lease, publishVars, pc, crashes, tried>>

SyncedToWanted(s, t) == wanted[t]   \* mutant: records what is wanted by now

\* record: the revision that was read, never a newer one.
SyncedNow(s, t) == IF synced[t] > job[s].rev[t] THEN synced[t] ELSE job[s].rev[t]

RetryAfterAnyFailure(s, t) == "later"   \* mutant: every failure starts the backoff

RetryAfterFailure(s, t) == IF wanted[t] > job[s].rev[t] THEN "none" ELSE "later"

AnotherRoundTooMany(s) == job[s].all /\ job[s].round <= MaxRounds   \* mutant: off by one

\* A sync limited to its targets is done after one round.
AnotherRound(s) == job[s].all /\ job[s].round < MaxRounds

\* The record step's transaction; releaseClaims is part of it.
Record(s) ==
    /\ pc[s] = "push"
    /\ Unpushed(s) = {}
    /\ stateLock = NoOne
    /\ synced' = [t \in Targets |-> IF t \in job[s].ok THEN SyncedNow(s, t) ELSE synced[t]]
    /\ retry' = [t \in Targets |-> CASE t \in job[s].ok -> "none"
                                     [] t \in job[s].failed -> RetryAfterFailure(s, t)
                                     [] OTHER -> retry[t]]
    /\ tried' = [t \in Targets |-> IF t \in job[s].failed THEN job[s].read ELSE tried[t]]
    /\ lease' = [t \in Targets |-> IF t \in job[s].claimed /\ lease[t] = s
                                     THEN NoOne ELSE lease[t]]
    /\ IF AnotherRound(s)
         THEN pc' = [pc EXCEPT ![s] = "more"] /\ UNCHANGED job
         ELSE Ends(s, "idle")
    /\ UNCHANGED <<table, changes, wanted, stateLock, served, publishVars, crashes>>

\* moreDue, and the loop of syncRedirects.
MoreDue(s) ==
    /\ pc[s] = "more"
    /\ IF changes # {} \/ \E t \in Targets : Behind(t) /\ retry[t] = "none"
         THEN /\ pc' = [pc EXCEPT ![s] = "prepare"]
              /\ job' = [job EXCEPT ![s].round = @ + 1]
         ELSE Ends(s, "idle")
    /\ UNCHANGED <<table, changes, stateVars, stateLock, lease, served, publishVars,
                   crashes, tried>>

-----------------------------------------------------------------------------
(***************************************************************************)
(* Failures and time.                                                      *)
(***************************************************************************)

\* The instance dies, or a transaction of the sync fails.  An open transaction
\* is rolled back with its claims; committed claims stay until they lapse.
Crash(s) ==
    /\ crashes < MaxCrashes
    /\ crashes' = crashes + 1
    /\ pc[s] # "idle" /\ pc[s] # "dead"
    /\ stateLock' = IF stateLock = s THEN NoOne ELSE stateLock
    /\ lease' = IF pc[s] = "reading"
                  THEN [t \in Targets |-> IF lease[t] = s THEN NoOne ELSE lease[t]]
                  ELSE lease
    /\ Ends(s, "dead")
    /\ UNCHANGED <<table, changes, stateVars, served, publishVars, tried>>

\* A claim lapses: its process is dead, or the push outlasted it.
Lapse(t) ==
    /\ lease[t] \in Syncs
    /\ pc[lease[t]] = "dead" \/ (LatePushes /\ pc[lease[t]] = "push")
    /\ lease' = [lease EXCEPT ![t] = NoOne]
    /\ UNCHANGED <<table, changes, stateVars, stateLock, served, publishVars, pc, job,
                   crashes, tried>>

BackoffEnds(t) ==
    /\ retry[t] = "later"
    /\ retry' = [retry EXCEPT ![t] = "due"]
    /\ UNCHANGED <<table, changes, wanted, synced, stateLock, lease, served, publishVars,
                   pc, job, crashes, tried>>

SyncStep(s) == Prepare(s) \/ ReadTable(s) \/ Record(s) \/ MoreDue(s)

PublishOf(t) ==
    \/ StartBuild(t) \/ AcquirePublish(t) \/ ReleaseBuild(t) \/ RecordPublish(t)
    \/ EndPublish(t) \/ SkipPublishSync(t)

Next ==
    \/ SaveRedirects
    \/ \E t \in Targets : PublishOf(t) \/ Lapse(t) \/ BackoffEnds(t)
    \/ \E s \in Syncs : SyncStep(s) \/ SyncAfterSave(s) \/ SyncOnTick(s) \/ Crash(s)
    \/ \E s \in Syncs, t \in Targets :
         SyncManually(s, t) \/ SyncAfterPublish(s, t) \/ PushSucceeds(s, t) \/ PushFails(s, t)

Spec == Init /\ [][Next]_vars

(***************************************************************************)
(* Fairness.  A sync that runs goes on, its provider calls return and are  *)
(* not refused for ever, the scheduler ticks (SyncOnTick is tried by every *)
(* tick), a publish ends, leases lapse and backoffs end with time.         *)
(***************************************************************************)
Fairness ==
    /\ \A s \in Syncs : WF_vars(SyncStep(s)) /\ WF_vars(SyncOnTick(s))
    /\ \A s \in Syncs, t \in Targets :
        /\ WF_vars(PushSucceeds(s, t) \/ PushFails(s, t))
        /\ SF_vars(PushSucceeds(s, t))
    /\ \A t \in Targets :
        /\ WF_vars(Lapse(t)) /\ WF_vars(BackoffEnds(t))
        /\ WF_vars(RecordPublish(t) \/ EndPublish(t) \/ SkipPublishSync(t))

FairSpec == Spec /\ Fairness

-----------------------------------------------------------------------------
(***************************************************************************)
(* Properties.                                                             *)
(***************************************************************************)

\* Type correctness.
TypeOK ==
    /\ table \in Versions /\ changes \subseteq 1..table
    /\ wanted \in [Targets -> Nat] /\ synced \in [Targets -> Nat]
    /\ retry \in [Targets -> {"none", "later", "due"}]
    /\ stateLock \in Syncs \cup {NoOne}
    /\ lease \in [Targets -> Syncs \cup {NoOne, Publisher}]
    /\ served \in [Targets -> Versions] /\ carries \in [Targets -> Versions]
    /\ published \in [Targets -> BOOLEAN]
    /\ pub \in [Targets -> {"idle", "built", "holding", "released", "recorded"}]
    /\ pc \in [Syncs -> {"idle", "prepare", "reading", "push", "more", "dead"}]
    /\ job \in [Syncs -> [trigger : Triggers, all : BOOLEAN, only : SUBSET Targets,
                          round : 0..MaxRounds, folded : SUBSET Versions,
                          claimed : SUBSET Targets, rev : [Targets -> Nat],
                          read : Versions, ok : SUBSET Targets, failed : SUBSET Targets]]
    /\ publishes \in 0..MaxPublishes /\ crashes \in 0..MaxCrashes
    /\ tried \in [Targets -> Versions]

\* What redirects.sync_status reports as inSync.
InSync(t) == changes = {} /\ wanted[t] <= synced[t]

\* redirect_sync.ts: inSync is "True when the provider serves the redirects
\* table as saved"; redirect-sync.ts: "Revisions make 'is the provider current?'
\* exact without comparing tables".  A target that is in sync serves the table
\* as it is saved, except in the moment between a publish's release and its
\* record.
InSyncIsExact ==
    \A t \in Targets :
        InSync(t) /\ published[t] /\ pub[t] # "released" => served[t] = table

\* "the claimed lease orders every sync of these environments": a push never
\* replaces a newer table by an older one.  Only a publish, whose build carries
\* the table of its own build time, takes the served table back.
TableMovesForward ==
    [][\A t \in Targets : served'[t] < served[t] => pub'[t] = "released" /\ pub[t] = "holding"]_vars

\* record: "the backoff starts only while no newer change is waiting".  A change
\* never waits out a backoff that a push without it started.
NewChangeNeverBacksOff ==
    \A t \in Targets :
        retry[t] = "later" => \A v \in 1..table : v \in changes \/ v <= tried[t]

\* "Never silent", and retried: whatever fails, dies or publishes meanwhile, every
\* published target ends up with the table as saved and stays there.
EventuallyServed ==
    \A t \in Targets : <>[](published[t] => served[t] = table)
=============================================================================
