-------------------------- MODULE RedirectSyncProofs --------------------------
(***************************************************************************)
(* Proofs about RedirectSync.tla, for any number of targets, syncs,        *)
(* changes, publishes and crashes: that a target reported as in sync       *)
(* serves the table as saved, that pushes only move a target forward, and  *)
(* that a backoff never holds up a newer change.                           *)
(*                                                                         *)
(* The invariant (Safe) says, of every sync (SyncOK), which leases it      *)
(* holds, how the revisions it read compare with the wanted ones and what  *)
(* its push carries; and of every target (TargetOK), that whatever is      *)
(* recorded as synced is served.  A row leaves redirect_changes only       *)
(* together with a newer wanted revision of every target, so a push that   *)
(* read the revision before the table either carries the row or is         *)
(* recorded with a revision that is no longer the wanted one.              *)
(*                                                                         *)
(* The parts that rest on the claims hold while no push outlasts its claim *)
(* (~LatePushes), the one about the record of a publish while no publish   *)
(* releases without one (~LostRecords): the theorems name which they need. *)
(***************************************************************************)
EXTENDS RedirectSync, TLAPS

Job == [trigger : Triggers, all : BOOLEAN, only : SUBSET Targets,
        round : 0..MaxRounds, folded : SUBSET Versions,
        claimed : SUBSET Targets, rev : [Targets -> Nat],
        read : Versions, ok : SUBSET Targets, failed : SUBSET Targets]

\* Another round is begun only while one is left (syncRedirects).
RoundsLeft == \A s \in Syncs : pc[s] = "more" => job[s].round < MaxRounds

Shape == TypeOK /\ RoundsLeft

-------------------------------------------------------------------------------
(* Types *)

\* The arguments a sync starts with (redirects.sync_provider).
LEMMA JobTypes ==
  /\ NoJob \in Job /\ NoJob.claimed = {}
  /\ \A trigger \in Triggers, only \in SUBSET Targets : \A all \in BOOLEAN :
       [NoJob EXCEPT !.trigger = trigger, !.all = all, !.only = only, !.round = 1] \in Job
<1>1. 0 \in 0..MaxRounds /\ 1 \in 0..MaxRounds /\ 0 \in Versions
  BY BoundAssumption DEF Versions
<1>2. [t \in Targets |-> 0] \in [Targets -> Nat]
  OBVIOUS
<1>3. NoJob \in Job
  BY <1>1, <1>2 DEF NoJob, Job, Triggers
<1>4. ASSUME NEW trigger \in Triggers, NEW only \in SUBSET Targets, NEW all \in BOOLEAN
      PROVE  [NoJob EXCEPT !.trigger = trigger, !.all = all, !.only = only, !.round = 1] \in Job
  BY <1>1, <1>2 DEF NoJob, Job, Triggers
<1>5. QED
  BY <1>3, <1>4 DEF NoJob

\* The parts of the types the steps below use.
LEMMA Parts ==
  ASSUME TypeOK
  PROVE  /\ table \in Nat /\ \A v \in changes : v \in 1..table
         /\ job \in [Syncs -> Job] /\ \A s \in Syncs : job[s] \in Job
         /\ \A t \in Targets : wanted[t] \in Nat /\ synced[t] \in Nat /\ served[t] \in Nat
                                /\ carries[t] \in Nat /\ tried[t] \in Nat
         /\ \A s \in Syncs : /\ job[s].read \in Nat /\ job[s].claimed \subseteq Targets
                             /\ job[s].only \subseteq Targets
                             /\ job[s].rev \in [Targets -> Nat]
                             /\ \A t \in Targets : job[s].rev[t] \in Nat
<1>1. Versions \subseteq Nat
  BY BoundAssumption DEF Versions
<1>2. job \in [Syncs -> Job]
  BY DEF TypeOK, Job
<1>3. \A s \in Syncs : /\ job[s].read \in Nat /\ job[s].claimed \subseteq Targets
                       /\ job[s].only \subseteq Targets /\ job[s].rev \in [Targets -> Nat]
  BY <1>1, <1>2 DEF Job
<1>4. QED
  BY <1>1, <1>2, <1>3 DEF TypeOK

\* A step that changes no sync keeps the types of the syncs.
LEMMA SameSyncs ==
  ASSUME Shape, pc' = pc, job' = job
  PROVE  RoundsLeft'
  BY DEF Shape, RoundsLeft

\* A sync that starts or ends keeps the types of the syncs.
LEMMA OneSync ==
  ASSUME Shape, NEW s \in Syncs, NEW how, NEW j \in Job,
         how \in {"idle", "prepare", "reading", "push", "more", "dead"},
         how = "more" => j.round < MaxRounds,
         pc' = [pc EXCEPT ![s] = how], job' = [job EXCEPT ![s] = j]
  PROVE  /\ RoundsLeft'
         /\ pc' \in [Syncs -> {"idle", "prepare", "reading", "push", "more", "dead"}]
         /\ job' \in [Syncs -> Job]
<1>1. job \in [Syncs -> Job]
        /\ pc \in [Syncs -> {"idle", "prepare", "reading", "push", "more", "dead"}]
  BY Parts DEF Shape, TypeOK
<1>2. QED
  BY <1>1 DEF Shape, RoundsLeft

\* What starts a sync (requestRedirectSync, retryRedirectSync, sync_provider).
LEMMA BeginType ==
  ASSUME Shape, NEW s \in Syncs, NEW trigger \in Triggers, NEW all \in BOOLEAN,
         NEW only \in SUBSET Targets, Begin(s, trigger, all, only),
         pub' \in [Targets -> {"idle", "built", "holding", "released", "recorded"}]
  PROVE  Shape'
<1>1. PICK j \in Job : job' = [job EXCEPT ![s] = j]
  BY JobTypes DEF Begin
<1>2. /\ RoundsLeft' /\ job' \in [Syncs -> Job]
      /\ pc' \in [Syncs -> {"idle", "prepare", "reading", "push", "more", "dead"}]
  BY <1>1, OneSync DEF Begin
<1>3. QED
  BY <1>2 DEF Begin, Shape, TypeOK, Job, stateVars

\* The revisions a transaction would write are numbers (foldChanges).
LEMMA RevisionType ==
  ASSUME TypeOK, NEW s \in Syncs
  PROVE  /\ Claimable(s) \subseteq Targets /\ Folds(s) \subseteq Versions
         /\ Folds(s) \subseteq changes
         /\ \A t \in Targets :
              /\ NewRevision(s, t) \in Nat
              /\ wanted[t] <= NewRevision(s, t)
              /\ Folds(s) # {} => wanted[t] < NewRevision(s, t)
              /\ ~Writes(s) => NewRevision(s, t) = wanted[t] /\ Folds(s) = {}
<1>1. Claimable(s) \subseteq Targets
  BY Parts DEF Claimable, ToPush
<1>2. Folds(s) \subseteq changes /\ Folds(s) \subseteq Versions
  BY BoundAssumption DEF Folds, TypeOK, Versions
<1>3. \A t \in Targets : wanted[t] \in Nat
  BY Parts
<1>4. QED
  BY <1>1, <1>2, <1>3 DEF NewRevision, Revision, WantedAfterFold, Writes

\* Every step keeps the types, the round limit among them (MAX_ROUNDS), also with
\* every fault.
LEMMA TypeStep == Shape /\ [Next]_vars => Shape'
<1> SUFFICES ASSUME Shape, [Next]_vars PROVE Shape'
  OBVIOUS
<1>0. TypeOK /\ job \in [Syncs -> Job] /\ Versions = 0..MaxChanges /\ 0 \in Versions
  BY Parts, BoundAssumption DEF Shape, Versions
<1>1. CASE SaveRedirects
  <2>1. RoundsLeft'
    BY <1>1, SameSyncs DEF SaveRedirects
  <2>2. table' \in Versions /\ changes' \subseteq 1..table'
    BY <1>0, <1>1, BoundAssumption DEF SaveRedirects, TypeOK
  <2>3. QED
    BY <1>0, <1>1, <2>1, <2>2
       DEF SaveRedirects, Shape, TypeOK, stateVars, publishVars
<1>2. ASSUME NEW t \in Targets, PublishOf(t) PROVE Shape'
  <2>1. RoundsLeft'
    BY <1>2, SameSyncs DEF PublishOf, StartBuild, AcquirePublish, ReleaseBuild, RecordPublish,
       EndPublish, SkipPublishSync
  <2>2. CASE StartBuild(t)
    BY <1>0, <2>1, <2>2, BoundAssumption DEF StartBuild, PublishStep, Shape, TypeOK, stateVars
  <2>3. CASE AcquirePublish(t)
    BY <1>0, <2>1, <2>3 DEF AcquirePublish, PublishStep, Shape, TypeOK, stateVars
  <2>4. CASE ReleaseBuild(t)
    BY <1>0, <2>1, <2>4 DEF ReleaseBuild, PublishStep, Shape, TypeOK, stateVars
  <2>5. CASE RecordPublish(t)
    <3>1. wanted' \in [Targets -> Nat] /\ synced' = synced /\ retry' = retry
      BY <1>0, <2>5 DEF RecordPublish, MarkRedirectsBehind, TypeOK
    <3>2. published' \in [Targets -> BOOLEAN]
      BY <1>0, <2>5 DEF RecordPublish, TypeOK
    <3>3. QED
      BY <1>0, <2>1, <2>5, <3>1, <3>2 DEF RecordPublish, PublishStep, Shape, TypeOK
  <2>6. CASE EndPublish(t)
    BY <1>0, <2>1, <2>6 DEF EndPublish, PublishStep, Shape, TypeOK, stateVars
  <2>7. CASE SkipPublishSync(t)
    BY <1>0, <2>1, <2>7 DEF SkipPublishSync, PublishStep, Shape, TypeOK, stateVars
  <2>8. QED
    BY <1>2, <2>2, <2>3, <2>4, <2>5, <2>6, <2>7 DEF PublishOf
<1>3. ASSUME NEW t \in Targets, Lapse(t) \/ BackoffEnds(t) PROVE Shape'
  <2>1. RoundsLeft'
    BY <1>3, SameSyncs DEF Lapse, BackoffEnds
  <2>2. QED
    BY <1>0, <1>3, <2>1 DEF Lapse, BackoffEnds, Shape, TypeOK, stateVars, publishVars
<1>4. DueTargets \subseteq Targets /\ Targets \subseteq Targets
  BY DEF DueTargets
<1>5. ASSUME NEW s \in Syncs, SyncAfterSave(s) \/ SyncOnTick(s) PROVE Shape'
  <2>1. pub' \in [Targets -> {"idle", "built", "holding", "released", "recorded"}]
    BY <1>0, <1>5 DEF SyncAfterSave, SyncOnTick, TypeOK
  <2>2. QED
    BY <1>4, <1>5, <2>1, BeginType DEF SyncAfterSave, SyncOnTick, Triggers
<1>6. ASSUME NEW s \in Syncs, NEW t \in Targets, SyncManually(s, t) \/ SyncAfterPublish(s, t)
      PROVE  Shape'
  <2>1. {t} \subseteq Targets
    OBVIOUS
  <2>2. CASE SyncManually(s, t)
    <3>1. pub' \in [Targets -> {"idle", "built", "holding", "released", "recorded"}]
      BY <1>0, <2>2 DEF SyncManually, TypeOK
    <3>2. Begin(s, "manual", TRUE, Targets) \/ Begin(s, "manual", FALSE, {t})
      BY <2>2, Zenon DEF SyncManually
    <3>3. QED
      BY <1>4, <2>1, <3>1, <3>2, BeginType DEF Triggers
  <2>3. CASE SyncAfterPublish(s, t)
    <3>1. pub' \in [Targets -> {"idle", "built", "holding", "released", "recorded"}]
      BY <1>0, <2>3 DEF SyncAfterPublish, PublishStep, TypeOK
    <3>2. QED
      BY <2>1, <2>3, <3>1, BeginType DEF SyncAfterPublish, Triggers
  <2>4. QED
    BY <1>6, <2>2, <2>3
<1>7. ASSUME NEW s \in Syncs, Prepare(s) PROVE Shape'
  <2> DEFINE rev == [t \in Targets |-> NewRevision(s, t)]
             j == [job[s] EXCEPT !.folded = Folds(s), !.claimed = Claimable(s),
                                 !.rev = rev, !.ok = {}, !.failed = {}]
  <2>1. job[s] \in Job /\ Folds(s) \in SUBSET Versions /\ Claimable(s) \in SUBSET Targets
    BY <1>0, RevisionType
  <2>2. rev \in [Targets -> Nat]
    BY <1>0, RevisionType
  <2>3. job' = [job EXCEPT ![s] = j]
    BY <1>0, <1>7 DEF Prepare
  <2> HIDE DEF rev
  <2>4. j \in Job
    BY <2>1, <2>2 DEF Job
  <2> HIDE DEF j
  <2>5. /\ RoundsLeft' /\ job' \in [Syncs -> Job]
        /\ pc' \in [Syncs -> {"idle", "prepare", "reading", "push", "more", "dead"}]
    BY <1>7, <2>3, <2>4, OneSync DEF Prepare
  <2>6. lease' \in [Targets -> Syncs \cup {NoOne, Publisher}] /\ stateLock' \in Syncs \cup {NoOne}
    BY <1>0, <1>7 DEF Prepare, TypeOK
  <2>7. QED
    BY <1>0, <1>7, <2>5, <2>6 DEF Prepare, Shape, TypeOK, Job, stateVars, publishVars
<1>8. ASSUME NEW s \in Syncs, ReadTable(s) PROVE Shape'
  <2>1. /\ RoundsLeft' /\ job' \in [Syncs -> Job]
        /\ pc' \in [Syncs -> {"idle", "prepare", "reading", "push", "more", "dead"}]
    <3>1. CASE job[s].claimed = {}
      BY <1>8, <3>1, JobTypes, OneSync DEF ReadTable, Ends
    <3>2. CASE job[s].claimed # {}
      <4> DEFINE ok == {t \in job[s].claimed : ~published[t]}
                 j == [job[s] EXCEPT !.read = table, !.ok = ok]
      <4>1. job[s] \in Job /\ table \in Versions /\ ok \in SUBSET Targets
        BY <1>0 DEF TypeOK, Job
      <4>2. job' = [job EXCEPT ![s] = j] /\ pc' = [pc EXCEPT ![s] = "push"]
        BY <1>0, <1>8, <3>2 DEF ReadTable
      <4> HIDE DEF ok
      <4>3. j \in Job
        BY <4>1 DEF Job
      <4> HIDE DEF j
      <4>4. QED
        BY <4>2, <4>3, OneSync
    <3>3. QED
      BY <3>1, <3>2
  <2>2. wanted' \in [Targets -> Nat]
    BY <1>0, <1>8, Parts DEF ReadTable, TypeOK
  <2>3. retry' \in [Targets -> {"none", "later", "due"}]
    BY <1>0, <1>8 DEF ReadTable, TypeOK
  <2>4. changes' \subseteq 1..table' /\ stateLock' \in Syncs \cup {NoOne}
    BY <1>0, <1>8 DEF ReadTable, TypeOK
  <2>5. QED
    BY <1>0, <1>8, <2>1, <2>2, <2>3, <2>4 DEF ReadTable, Shape, TypeOK, Job, publishVars
<1>9. ASSUME NEW s \in Syncs, NEW t \in Targets, PushSucceeds(s, t) \/ PushFails(s, t)
      PROVE  Shape'
  <2>1. job[s] \in Job /\ job[s].read \in Versions
    BY <1>0 DEF Job
  <2>2. served' \in [Targets -> Versions]
    BY <1>0, <1>9, <2>1 DEF PushSucceeds, PushFails, TypeOK
  <2>3. PICK j \in Job : job' = [job EXCEPT ![s] = j] /\ j.round = job[s].round
    <3>1. CASE PushSucceeds(s, t)
      <4> DEFINE j == [job[s] EXCEPT !.ok = job[s].ok \cup {t}]
      <4>1. j \in Job /\ j.round = job[s].round
        BY <2>1 DEF Job
      <4>2. job' = [job EXCEPT ![s] = j]
        BY <1>0, <3>1 DEF PushSucceeds
      <4>3. QED
        BY <4>1, <4>2
    <3>2. CASE PushFails(s, t)
      <4> DEFINE j == [job[s] EXCEPT !.failed = job[s].failed \cup {t}]
      <4>1. j \in Job /\ j.round = job[s].round
        BY <2>1 DEF Job
      <4>2. job' = [job EXCEPT ![s] = j]
        BY <1>0, <3>2 DEF PushFails
      <4>3. QED
        BY <4>1, <4>2
    <3>3. QED
      BY <1>9, <3>1, <3>2
  <2>4. pc[s] = "push" /\ pc' = pc
    BY <1>9 DEF PushSucceeds, PushFails
  <2>5. RoundsLeft' /\ job' \in [Syncs -> Job]
    BY <1>0, <2>3, <2>4 DEF Shape, RoundsLeft
  <2>6. QED
    BY <1>0, <1>9, <2>2, <2>4, <2>5
       DEF PushSucceeds, PushFails, Shape, TypeOK, Job, stateVars, publishVars
<1>10. ASSUME NEW s \in Syncs, Record(s) PROVE Shape'
  <2>1. /\ RoundsLeft' /\ job' \in [Syncs -> Job]
        /\ pc' \in [Syncs -> {"idle", "prepare", "reading", "push", "more", "dead"}]
    <3>1. CASE AnotherRound(s)
      <4>1. job' = [job EXCEPT ![s] = job[s]] /\ pc' = [pc EXCEPT ![s] = "more"]
        BY <1>0, <1>10, <3>1 DEF Record
      <4>2. job[s] \in Job /\ job[s].round < MaxRounds
        BY <1>0, <3>1 DEF AnotherRound
      <4>3. QED
        BY <4>1, <4>2, OneSync
    <3>2. CASE ~AnotherRound(s)
      BY <1>10, <3>2, JobTypes, OneSync DEF Record, Ends
    <3>3. QED
      BY <3>1, <3>2
  <2>2. synced' \in [Targets -> Nat]
    BY <1>0, <1>10, Parts DEF Record, SyncedNow, TypeOK
  <2>3. retry' \in [Targets -> {"none", "later", "due"}]
    <3>1. \A t \in Targets : RetryAfterFailure(s, t) \in {"none", "later"}
      BY DEF RetryAfterFailure
    <3>2. QED
      BY <1>0, <1>10, <3>1 DEF Record, TypeOK
  <2>4. job[s].read \in Versions
    BY <1>0 DEF Job
  <2>5. tried' \in [Targets -> Versions] /\ lease' \in [Targets -> Syncs \cup {NoOne, Publisher}]
    BY <1>0, <1>10, <2>4 DEF Record, TypeOK
  <2>6. QED
    BY <1>0, <1>10, <2>1, <2>2, <2>3, <2>5 DEF Record, Shape, TypeOK, Job, publishVars
<1>11. ASSUME NEW s \in Syncs, MoreDue(s) PROVE Shape'
  <2>1. /\ RoundsLeft' /\ job' \in [Syncs -> Job]
        /\ pc' \in [Syncs -> {"idle", "prepare", "reading", "push", "more", "dead"}]
    <3>1. CASE changes # {} \/ \E t \in Targets : Behind(t) /\ retry[t] = "none"
      <4> DEFINE j == [job[s] EXCEPT !.round = job[s].round + 1]
      <4>1. job' = [job EXCEPT ![s] = j] /\ pc' = [pc EXCEPT ![s] = "prepare"]
        BY <1>0, <1>11, <3>1 DEF MoreDue
      <4>2. job[s] \in Job /\ job[s].round < MaxRounds
        BY <1>0, <1>11 DEF MoreDue, Shape, RoundsLeft
      <4>3. job[s].round \in 0..MaxRounds
        BY <4>2 DEF Job
      <4>4. job[s].round + 1 \in 0..MaxRounds
        BY <4>2, <4>3, BoundAssumption
      <4>5. j \in Job
        BY <4>2, <4>4 DEF Job
      <4> HIDE DEF j
      <4>6. QED
        BY <4>1, <4>5, OneSync
    <3>2. CASE ~(changes # {} \/ \E t \in Targets : Behind(t) /\ retry[t] = "none")
      BY <1>11, <3>2, JobTypes, OneSync DEF MoreDue, Ends
    <3>3. QED
      BY <3>1, <3>2
  <2>2. QED
    BY <1>0, <1>11, <2>1 DEF MoreDue, Shape, TypeOK, Job, stateVars, publishVars
<1>12. ASSUME NEW s \in Syncs, Crash(s) PROVE Shape'
  <2>1. /\ RoundsLeft' /\ job' \in [Syncs -> Job]
        /\ pc' \in [Syncs -> {"idle", "prepare", "reading", "push", "more", "dead"}]
    BY <1>12, JobTypes, OneSync DEF Crash, Ends
  <2>2. /\ crashes' \in 0..MaxCrashes /\ stateLock' \in Syncs \cup {NoOne}
        /\ lease' \in [Targets -> Syncs \cup {NoOne, Publisher}]
    BY <1>0, <1>12, BoundAssumption DEF Crash, TypeOK
  <2>3. QED
    BY <1>0, <1>12, <2>1, <2>2 DEF Crash, Shape, TypeOK, Job, stateVars, publishVars
<1>13. CASE UNCHANGED vars
  BY <1>13 DEF vars, Shape, TypeOK, RoundsLeft
<1>14. QED
  BY <1>1, <1>2, <1>3, <1>5, <1>6, <1>7, <1>8, <1>9, <1>10, <1>11, <1>12, <1>13
     DEF Next, SyncStep

\* Nothing was saved, published or synced yet.
LEMMA TypeInit == Init => Shape
<1> SUFFICES ASSUME Init PROVE Shape
  OBVIOUS
<1>1. job \in [Syncs -> Job]
  BY JobTypes DEF Init
<1>2. 0 \in Versions /\ 0 \in 0..MaxPublishes /\ 0 \in 0..MaxCrashes
  BY BoundAssumption DEF Versions
<1>3. changes \subseteq 1..table /\ RoundsLeft
  BY DEF Init, RoundsLeft
<1>4. QED
  BY <1>1, <1>2, <1>3 DEF Init, Shape, TypeOK, Job

\* The change log, the revisions, the leases and the jobs of the syncs keep their
\* types, a sync's rounds their limit (redirect-sync.ts), whatever fault happens.
THEOREM RedirectTypeCorrect == Spec => []TypeOK
<1>1. Shape => TypeOK
  BY DEF Shape
<1>2. QED
  BY <1>1, TypeInit, TypeStep, PTL DEF Spec


-------------------------------------------------------------------------------
(* Safety *)

\* Every saved change waits in redirect_changes or is in version n of the table.
Covers(n) == \A v \in 1..table : v \in changes \/ v <= n

\* claimSyncLease: a sync holds the lease of every target it claimed, from the
\* transaction that claims it to the one that records its push, unless the push
\* outlasts the claim.
ClaimsHeld(s) ==
    ~LatePushes /\ pc[s] \in {"reading", "push"} => \A t \in job[s].claimed : lease[t] = s

\* Who holds redirect_sync_state will write revisions that are no older; a fold
\* writes a newer one for every target (foldChanges).
WriterSound(s) ==
    stateLock = s =>
        /\ pc[s] = "reading"
        /\ \A t \in Targets : wanted[t] <= job[s].rev[t]
        /\ job[s].folded # {} => \A t \in Targets : wanted[t] < job[s].rev[t]

\* Who writes nothing folds nothing, and read a revision that is there.
ReaderSound(s) ==
    pc[s] = "reading" =>
        /\ job[s].ok = {} /\ job[s].failed = {}
        /\ stateLock # s =>
             job[s].folded = {} /\ \A t \in Targets : job[s].rev[t] <= wanted[t]

\* A push carries every folded change unless a newer revision is wanted by now.
PushSound(s) ==
    pc[s] = "push" =>
        /\ job[s].read <= table
        /\ \A t \in job[s].claimed :
             /\ job[s].rev[t] <= wanted[t]
             /\ job[s].rev[t] = wanted[t] => Covers(job[s].read)

\* A push carries at least what its target serves, and what arrived stays there
\* while the claim holds.
PushOrdered(s) ==
    ~LatePushes /\ pc[s] = "push" =>
        \A t \in job[s].claimed :
          /\ served[t] <= job[s].read
          /\ t \in job[s].ok /\ published[t] => served[t] = job[s].read

\* Only claimed targets have answers, and only one.
AnswersClaimed(s) ==
    pc[s] = "push" =>
        /\ job[s].ok \cup job[s].failed \subseteq job[s].claimed
        /\ job[s].ok \cap job[s].failed = {}

SyncOK(s) ==
    /\ ClaimsHeld(s) /\ WriterSound(s) /\ ReaderSound(s)
    /\ PushSound(s) /\ PushOrdered(s) /\ AnswersClaimed(s)

\* A publish that may still release holds its target's lease.
PublisherHolds(t) == pub[t] \in {"holding", "released"} => lease[t] = Publisher

\* Nothing is recorded, served or built that was not asked for or saved.
Past(t) == synced[t] <= wanted[t] /\ served[t] <= table /\ carries[t] <= table

\* A target whose wanted revision is recorded serves every folded change.
SyncedServes(t) ==
    ~LatePushes /\ ~LostRecords =>
        (published[t] /\ pub[t] # "released" /\ wanted[t] <= synced[t] => Covers(served[t]))

\* A backoff runs only against what the failed push carried (record).
BackoffSound(t) == retry[t] = "later" => Covers(tried[t])

TargetOK(t) == PublisherHolds(t) /\ Past(t) /\ SyncedServes(t) /\ BackoffSound(t)

Safe == Shape /\ (\A s \in Syncs : SyncOK(s)) /\ (\A t \in Targets : TargetOK(t))

\* No change leaves redirect_changes in this step.
CoversKept == \A n \in Nat : Covers(n) => Covers(n)'

\* A step that removes no row, and adds the row of what it saves.
LEMMA KeepsChanges ==
  ASSUME TypeOK, changes \subseteq changes',
         table' = table \/ (table' = table + 1 /\ table + 1 \in changes')
  PROVE  CoversKept
<1>1. table \in Nat
  BY Parts
<1>2. QED
  BY <1>1 DEF CoversKept, Covers

\* A newer version carries what an older one does.
LEMMA NewerCovers ==
  ASSUME TypeOK, NEW m \in Nat, NEW n \in Nat, m <= n, Covers(m)
  PROVE  Covers(n)
<1>1. table \in Nat
  BY Parts
<1>2. QED
  BY <1>1 DEF Covers

\* What a sync that does not step relies on is kept by a step that leaves its
\* claimed targets alone and either keeps the changes or asks for a newer
\* revision of every target.
LEMMA SyncKept ==
  ASSUME Shape, Shape', NEW s \in Syncs, SyncOK(s),
         pc'[s] = pc[s], job'[s] = job[s],
         stateLock' = s => stateLock = s, stateLock = s => stateLock' = s /\ wanted' = wanted,
         \A t \in Targets : wanted[t] <= wanted'[t] /\ (wanted[t] < wanted'[t] \/ CoversKept),
         table <= table',
         ~LatePushes => \A t \in Targets : lease[t] = s =>
           lease'[t] = s /\ served'[t] = served[t] /\ (published'[t] => published[t])
  PROVE  SyncOK(s)'
<1>1. /\ table \in Nat /\ table' \in Nat /\ job[s].read \in Nat /\ job[s].claimed \subseteq Targets
      /\ \A t \in Targets : wanted[t] \in Nat /\ wanted'[t] \in Nat /\ job[s].rev[t] \in Nat
  <2>1. table' \in Versions /\ wanted' \in [Targets -> Nat] /\ TypeOK
    BY DEF Shape, TypeOK
  <2>2. Versions \subseteq Nat
    BY BoundAssumption DEF Versions
  <2>3. QED
    BY <2>1, <2>2, Parts
<1>2. ClaimsHeld(s)' /\ AnswersClaimed(s)'
  BY <1>1 DEF SyncOK, ClaimsHeld, AnswersClaimed
<1>3. WriterSound(s)'
  BY DEF SyncOK, WriterSound
<1>4. ReaderSound(s)'
  BY <1>1 DEF SyncOK, ReaderSound
<1>5. PushSound(s)'
  <2> SUFFICES ASSUME pc[s] = "push"
               PROVE  /\ job[s].read <= table'
                      /\ \A t \in job[s].claimed :
                           /\ job[s].rev[t] <= wanted'[t]
                           /\ job[s].rev[t] = wanted'[t] => Covers(job[s].read)'
    BY DEF PushSound, Covers
  <2>1. job[s].read <= table'
    BY <1>1 DEF SyncOK, PushSound
  <2>2. ASSUME NEW t \in job[s].claimed
        PROVE  job[s].rev[t] <= wanted'[t]
    BY <1>1 DEF SyncOK, PushSound
  <2>3. ASSUME NEW t \in job[s].claimed, job[s].rev[t] = wanted'[t]
        PROVE  \A v \in 1..table' : v \in changes' \/ v <= job[s].read
    <3>1. job[s].rev[t] <= wanted[t] /\ wanted[t] <= wanted'[t]
            /\ (wanted[t] < wanted'[t] \/ CoversKept)
      BY <1>1 DEF SyncOK, PushSound
    <3>2. CoversKept /\ job[s].rev[t] = wanted[t]
      BY <1>1, <2>3, <3>1
    <3>3. PICK n \in Nat : n = job[s].read
      BY <1>1
    <3>4. Covers(n)
      BY <3>2, <3>3 DEF SyncOK, PushSound
    <3>5. Covers(n)'
      BY <3>2, <3>4 DEF CoversKept
    <3>6. QED
      BY <3>3, <3>5 DEF Covers
  <2>4. QED
    BY <2>1, <2>2, <2>3 DEF Covers
<1>6. PushOrdered(s)'
  BY <1>1 DEF SyncOK, PushOrdered, ClaimsHeld
<1>7. QED
  BY <1>2, <1>3, <1>4, <1>5, <1>6 DEF SyncOK

\* What a target that is not stepped on relies on.
LEMMA TargetKept ==
  ASSUME Shape, Shape', NEW t \in Targets, TargetOK(t),
         synced'[t] = synced[t], served'[t] = served[t], tried'[t] = tried[t],
         table <= table', carries'[t] <= table',
         wanted[t] <= wanted'[t],
         retry'[t] = "later" => retry[t] = "later",
         ~LostRecords /\ published'[t] /\ pub'[t] # "released" =>
           (published[t] /\ pub[t] # "released") \/ wanted[t] < wanted'[t],
         CoversKept \/ (wanted[t] < wanted'[t] /\ retry'[t] # "later"),
         pub'[t] \in {"holding", "released"} => lease'[t] = Publisher
  PROVE  TargetOK(t)'
<1>1. /\ table \in Nat /\ table' \in Nat /\ served[t] \in Nat /\ synced[t] \in Nat
      /\ tried[t] \in Nat /\ wanted[t] \in Nat /\ wanted'[t] \in Nat
  <2>1. table' \in Versions /\ wanted' \in [Targets -> Nat] /\ TypeOK
    BY DEF Shape, TypeOK
  <2>2. Versions \subseteq Nat
    BY BoundAssumption DEF Versions
  <2>3. QED
    BY <2>1, <2>2, Parts
<1>2. PublisherHolds(t)' /\ Past(t)'
  BY <1>1 DEF TargetOK, PublisherHolds, Past
<1>3. SyncedServes(t)'
  <2> SUFFICES ASSUME ~LatePushes, ~LostRecords,
                      published'[t], pub'[t] # "released", wanted'[t] <= synced'[t]
               PROVE  \A v \in 1..table' : v \in changes' \/ v <= served'[t]
    BY DEF SyncedServes, Covers
  <2>1. wanted'[t] = wanted[t] /\ wanted[t] <= synced[t]
    BY <1>1 DEF TargetOK, Past
  <2>2. PICK n \in Nat : n = served[t]
    BY <1>1
  <2>3. Covers(n) /\ CoversKept
    BY <1>1, <2>1, <2>2 DEF TargetOK, SyncedServes
  <2>4. Covers(n)'
    BY <2>3 DEF CoversKept
  <2>5. QED
    BY <2>2, <2>4 DEF Covers
<1>4. BackoffSound(t)'
  <2> SUFFICES ASSUME retry'[t] = "later"
               PROVE  \A v \in 1..table' : v \in changes' \/ v <= tried'[t]
    BY DEF BackoffSound, Covers
  <2>1. PICK n \in Nat : n = tried[t]
    BY <1>1
  <2>2. Covers(n) /\ CoversKept
    BY <2>1 DEF TargetOK, BackoffSound
  <2>3. Covers(n)'
    BY <2>2 DEF CoversKept
  <2>4. QED
    BY <2>1, <2>3 DEF Covers
<1>5. QED
  BY <1>2, <1>3, <1>4 DEF TargetOK

\* A save, a publish's steps and time leave the syncs alone.
LEMMA SafeOutside ==
  ASSUME Safe, Shape',
         \/ SaveRedirects
         \/ \E t \in Targets : PublishOf(t) \/ Lapse(t) \/ BackoffEnds(t)
  PROVE  Safe'
<1>0. /\ TypeOK /\ table \in Nat
      /\ \A t \in Targets : wanted[t] \in Nat /\ synced[t] \in Nat /\ carries[t] \in Nat
      /\ \A s \in Syncs : s # NoOne /\ s # Publisher
      /\ \A s \in Syncs : SyncOK(s)
      /\ \A t \in Targets : TargetOK(t) /\ carries[t] <= table /\ served[t] <= table
  BY Parts, ProcessAssumption DEF Safe, Shape, TargetOK, Past
<1>1. CASE SaveRedirects
  <2>1. CoversKept /\ table <= table'
    BY <1>0, <1>1, KeepsChanges DEF SaveRedirects
  <2>2. ASSUME NEW s \in Syncs PROVE SyncOK(s)'
    BY <1>0, <1>1, <2>1, SyncKept DEF SaveRedirects, stateVars, publishVars, Safe
  <2>3. ASSUME NEW t \in Targets PROVE TargetOK(t)'
    <3>1. carries'[t] <= table'
      BY <1>0, <1>1 DEF SaveRedirects, publishVars
    <3>2. QED
      BY <1>0, <1>1, <2>1, <3>1, TargetKept
         DEF SaveRedirects, stateVars, publishVars, Safe, TargetOK, PublisherHolds
  <2>4. QED
    BY <2>2, <2>3 DEF Safe
<1>2. ASSUME NEW t \in Targets, PublishOf(t) \/ Lapse(t) \/ BackoffEnds(t) PROVE Safe'
  <2>1. table' = table /\ changes' = changes /\ pc' = pc /\ job' = job /\ stateLock' = stateLock
          /\ synced' = synced /\ tried' = tried
    BY <1>2 DEF PublishOf, StartBuild, AcquirePublish, ReleaseBuild, RecordPublish, EndPublish,
       SkipPublishSync, Lapse, BackoffEnds, stateVars, MarkRedirectsBehind
  <2>2. CoversKept /\ table <= table'
    BY <1>0, <2>1, KeepsChanges
  <2>3. /\ \A u \in Targets : wanted[u] <= wanted'[u]
        /\ \A s \in Syncs : stateLock = s => wanted' = wanted
    <3>1. CASE RecordPublish(t)
      BY <1>0, <3>1 DEF RecordPublish, MarkRedirectsBehind, TypeOK
    <3>2. CASE ~RecordPublish(t)
      BY <1>0, <1>2, <3>2 DEF PublishOf, StartBuild, AcquirePublish, ReleaseBuild, EndPublish,
         SkipPublishSync, Lapse, BackoffEnds, stateVars
    <3>3. QED
      BY <3>1, <3>2
  <2>4. /\ pub' \in [Targets -> {"idle", "built", "holding", "released", "recorded"}]
        /\ pub \in [Targets -> {"idle", "built", "holding", "released", "recorded"}]
        /\ lease \in [Targets -> Syncs \cup {NoOne, Publisher}]
        /\ served \in [Targets -> Versions] /\ carries \in [Targets -> Versions]
        /\ wanted \in [Targets -> Nat] /\ published \in [Targets -> BOOLEAN]
        /\ retry \in [Targets -> {"none", "later", "due"}]
    BY <1>0 DEF Shape, TypeOK
  <2>5. ASSUME NEW s \in Syncs PROVE SyncOK(s)'
    <3>1. ASSUME NEW u \in Targets, lease[u] = s, pc[s] # "dead", ~LatePushes
          PROVE  lease'[u] = s /\ served'[u] = served[u] /\ (published'[u] => published[u])
      <4>0. pub[u] # "holding" /\ pub[u] # "released"
        BY <1>0, <3>1 DEF TargetOK, PublisherHolds
      <4>1. CASE StartBuild(t) \/ SkipPublishSync(t) \/ BackoffEnds(t)
        BY <3>1, <4>1 DEF StartBuild, SkipPublishSync, BackoffEnds, publishVars
      <4>2. CASE AcquirePublish(t)
        BY <1>0, <2>4, <3>1, <4>2 DEF AcquirePublish
      <4>3. CASE ReleaseBuild(t)
        BY <1>0, <2>4, <3>1, <4>0, <4>3 DEF ReleaseBuild, PublishStep
      <4>4. CASE RecordPublish(t)
        BY <1>0, <2>4, <3>1, <4>0, <4>4 DEF RecordPublish, PublishStep
      <4>5. CASE EndPublish(t)
        BY <1>0, <2>4, <3>1, <4>5 DEF EndPublish
      <4>6. CASE Lapse(t)
        BY <1>0, <2>4, <3>1, <4>6 DEF Lapse, publishVars
      <4>7. QED
        BY <1>2, <4>1, <4>2, <4>3, <4>4, <4>5, <4>6 DEF PublishOf
    <3>2. CASE pc[s] = "dead"
      <4>1. stateLock # s
        BY <1>0, <3>2 DEF SyncOK, WriterSound
      <4>2. QED
        BY <2>1, <3>2, <4>1
           DEF SyncOK, ClaimsHeld, WriterSound, ReaderSound, PushSound, PushOrdered, AnswersClaimed
    <3>3. CASE pc[s] # "dead"
      BY <1>0, <2>1, <2>2, <2>3, <3>1, <3>3, SyncKept DEF Safe
    <3>4. QED
      BY <3>2, <3>3
  <2>6. ASSUME NEW u \in Targets PROVE TargetOK(u)'
    <3>1. CASE ReleaseBuild(t) /\ u = t
      <4>1. /\ served'[t] = carries[t] /\ carries'[t] = 0 /\ pub'[t] = "released"
            /\ pub[t] = "holding" /\ lease' = lease /\ wanted' = wanted /\ retry' = retry
        BY <2>4, <3>1 DEF ReleaseBuild, PublishStep, stateVars
      <4>2. PublisherHolds(t)' /\ SyncedServes(t)'
        BY <1>0, <4>1 DEF TargetOK, PublisherHolds, SyncedServes
      <4>3. Past(t)'
        BY <1>0, <2>1, <4>1 DEF TargetOK, Past
      <4>4. BackoffSound(t)'
        BY <1>0, <2>1, <4>1 DEF TargetOK, BackoffSound, Covers
      <4>5. QED
        BY <3>1, <4>2, <4>3, <4>4 DEF TargetOK
    <3>2. CASE ~(ReleaseBuild(t) /\ u = t)
      <4>1. pub'[u] \in {"holding", "released"} => lease'[u] = Publisher
        <5>1. pub[u] \in {"holding", "released"} => lease[u] = Publisher
          BY <1>0 DEF TargetOK, PublisherHolds
        <5>2. CASE StartBuild(t) \/ SkipPublishSync(t) \/ BackoffEnds(t) \/ ReleaseBuild(t)
          BY <2>4, <3>2, <5>1, <5>2
             DEF StartBuild, SkipPublishSync, BackoffEnds, ReleaseBuild, PublishStep, publishVars
        <5>3. CASE AcquirePublish(t)
          BY <2>4, <5>1, <5>3 DEF AcquirePublish, PublishStep
        <5>4. CASE RecordPublish(t)
          BY <2>4, <5>1, <5>4 DEF RecordPublish, PublishStep
        <5>5. CASE EndPublish(t)
          BY <2>4, <5>1, <5>5 DEF EndPublish, PublishStep
        <5>6. CASE Lapse(t)
          BY <1>0, <2>4, <5>1, <5>6 DEF Lapse, publishVars
        <5>7. QED
          BY <1>2, <5>2, <5>3, <5>4, <5>5, <5>6 DEF PublishOf
      <4>2. /\ served'[u] = served[u] /\ carries'[u] <= table'
            /\ retry'[u] = "later" => retry[u] = "later"
        <5>1. CASE ReleaseBuild(t)
          BY <1>0, <2>1, <2>4, <3>2, <5>1 DEF ReleaseBuild, stateVars
        <5>2. CASE StartBuild(t)
          BY <1>0, <2>1, <2>4, <5>2 DEF StartBuild, stateVars
        <5>3. CASE BackoffEnds(t)
          BY <1>0, <2>1, <2>4, <5>3 DEF BackoffEnds, publishVars
        <5>4. CASE RecordPublish(t)
          BY <1>0, <2>1, <5>4 DEF RecordPublish, MarkRedirectsBehind
        <5>5. CASE AcquirePublish(t) \/ EndPublish(t) \/ SkipPublishSync(t) \/ Lapse(t)
          BY <1>0, <2>1, <5>5
             DEF AcquirePublish, EndPublish, SkipPublishSync, Lapse, stateVars, publishVars
        <5>6. QED
          BY <1>2, <5>1, <5>2, <5>3, <5>4, <5>5 DEF PublishOf
      <4>3. ~LostRecords /\ published'[u] /\ pub'[u] # "released" =>
              (published[u] /\ pub[u] # "released") \/ wanted[u] < wanted'[u]
        <5>1. CASE RecordPublish(t)
          BY <1>0, <2>4, <5>1 DEF RecordPublish, MarkRedirectsBehind, PublishStep
        <5>2. CASE StartBuild(t) \/ AcquirePublish(t) \/ SkipPublishSync(t)
          BY <2>4, <5>2 DEF StartBuild, AcquirePublish, SkipPublishSync, PublishStep
        <5>3. CASE EndPublish(t)
          <6> SUFFICES ASSUME ~LostRecords
                       PROVE  published'[u] /\ pub'[u] # "released" =>
                                (published[u] /\ pub[u] # "released") \/ wanted[u] < wanted'[u]
            OBVIOUS
          <6>1. PICK from \in {"built", "holding"} : PublishStep(t, from, "idle")
            BY <5>3 DEF EndPublish
          <6>2. pub[t] # "released" /\ pub' = [pub EXCEPT ![t] = "idle"]
            BY <6>1 DEF PublishStep
          <6>3. QED
            BY <2>4, <5>3, <6>2 DEF EndPublish
        <5>4. CASE ReleaseBuild(t)
          BY <2>4, <3>2, <5>4 DEF ReleaseBuild, PublishStep
        <5>5. CASE Lapse(t) \/ BackoffEnds(t)
          BY <5>5 DEF Lapse, BackoffEnds, publishVars
        <5>6. QED
          BY <1>2, <5>1, <5>2, <5>3, <5>4, <5>5 DEF PublishOf
      <4>4. QED
        BY <1>0, <2>1, <2>2, <2>3, <4>1, <4>2, <4>3, TargetKept DEF Safe
    <3>3. QED
      BY <3>1, <3>2
  <2>7. QED
    BY <2>5, <2>6 DEF Safe
<1>3. QED
  BY <1>1, <1>2


\* A sync that starts, looks for more, or dies changes nothing but its own state
\* and the claims it rolls back.
LEMMA SafeStarts ==
  ASSUME Safe, Shape', NEW s \in Syncs,
         \/ SyncAfterSave(s) \/ SyncOnTick(s) \/ MoreDue(s) \/ Crash(s)
         \/ \E t \in Targets : SyncManually(s, t) \/ SyncAfterPublish(s, t)
  PROVE  Safe'
<1>0. /\ TypeOK /\ table \in Nat
      /\ \A t \in Targets : wanted[t] \in Nat /\ carries[t] \in Nat /\ carries[t] <= table
      /\ \A r \in Syncs : r # NoOne /\ r # Publisher
      /\ \A r \in Syncs : SyncOK(r)
      /\ \A t \in Targets : TargetOK(t)
      /\ pc \in [Syncs -> {"idle", "prepare", "reading", "push", "more", "dead"}]
      /\ job \in [Syncs -> Job] /\ pub \in [Targets -> {"idle", "built", "holding", "released", "recorded"}]
      /\ stateLock \in Syncs \cup {NoOne}
  BY Parts, ProcessAssumption DEF Safe, Shape, TypeOK, TargetOK, Past
<1>1. PICK how \in {"idle", "prepare", "dead"} : \E j :
        pc' = [pc EXCEPT ![s] = how] /\ job' = [job EXCEPT ![s] = j]
  <2>1. ASSUME NEW trigger, NEW all, NEW only, Begin(s, trigger, all, only)
        PROVE  \E how \in {"idle", "prepare", "dead"} : \E j :
                 pc' = [pc EXCEPT ![s] = how] /\ job' = [job EXCEPT ![s] = j]
    BY <2>1 DEF Begin
  <2>2. CASE SyncAfterSave(s) \/ SyncOnTick(s)
    BY <2>1, <2>2 DEF SyncAfterSave, SyncOnTick
  <2>3. ASSUME NEW t \in Targets, SyncManually(s, t) \/ SyncAfterPublish(s, t)
        PROVE  \E how \in {"idle", "prepare", "dead"} : \E j :
                 pc' = [pc EXCEPT ![s] = how] /\ job' = [job EXCEPT ![s] = j]
    BY <2>1, <2>3 DEF SyncManually, SyncAfterPublish
  <2>4. CASE Crash(s)
    BY <2>4 DEF Crash, Ends
  <2>5. CASE MoreDue(s)
    <3>1. CASE changes # {} \/ \E t \in Targets : Behind(t) /\ retry[t] = "none"
      <4>1. job' = [job EXCEPT ![s] = [job[s] EXCEPT !.round = job[s].round + 1]]
              /\ pc' = [pc EXCEPT ![s] = "prepare"]
        BY <1>0, <2>5, <3>1 DEF MoreDue
      <4>2. QED
        BY <4>1
    <3>2. CASE ~(changes # {} \/ \E t \in Targets : Behind(t) /\ retry[t] = "none")
      BY <2>5, <3>2 DEF MoreDue, Ends
    <3>3. QED
      BY <3>1, <3>2
  <2>6. QED
    BY <2>2, <2>3, <2>4, <2>5
<1>2. /\ table' = table /\ changes' = changes /\ wanted' = wanted /\ synced' = synced
      /\ retry' = retry /\ served' = served /\ published' = published /\ carries' = carries
      /\ tried' = tried
  <2>1. ASSUME NEW trigger, NEW all, NEW only, Begin(s, trigger, all, only)
        PROVE  /\ table' = table /\ changes' = changes /\ wanted' = wanted /\ synced' = synced
               /\ retry' = retry /\ served' = served /\ published' = published
               /\ carries' = carries /\ tried' = tried
    BY <2>1 DEF Begin, stateVars
  <2>2. CASE SyncAfterSave(s) \/ SyncOnTick(s)
    BY <2>1, <2>2 DEF SyncAfterSave, SyncOnTick
  <2>3. ASSUME NEW t \in Targets, SyncManually(s, t) \/ SyncAfterPublish(s, t)
        PROVE  /\ table' = table /\ changes' = changes /\ wanted' = wanted /\ synced' = synced
               /\ retry' = retry /\ served' = served /\ published' = published
               /\ carries' = carries /\ tried' = tried
    BY <2>1, <2>3 DEF SyncManually, SyncAfterPublish
  <2>4. CASE Crash(s) \/ MoreDue(s)
    BY <2>4 DEF Crash, MoreDue, stateVars, publishVars
  <2>5. QED
    BY <2>2, <2>3, <2>4
<1>3. /\ stateLock' # s /\ \A r \in Syncs \ {s} : stateLock' = r <=> stateLock = r
      /\ \A t \in Targets : lease'[t] = lease[t] \/ lease[t] = s
  <2>1. ASSUME NEW trigger, NEW all, NEW only, Begin(s, trigger, all, only)
        PROVE  stateLock' = stateLock /\ lease' = lease /\ pc[s] = "idle"
    BY <2>1 DEF Begin
  <2>2. CASE SyncAfterSave(s) \/ SyncOnTick(s) \/ MoreDue(s)
             \/ \E t \in Targets : SyncManually(s, t) \/ SyncAfterPublish(s, t)
    <3>1. stateLock' = stateLock /\ lease' = lease /\ (pc[s] = "idle" \/ pc[s] = "more")
      <4>1. CASE SyncAfterSave(s) \/ SyncOnTick(s)
        BY <2>1, <4>1 DEF SyncAfterSave, SyncOnTick
      <4>2. CASE MoreDue(s)
        BY <4>2 DEF MoreDue
      <4>3. ASSUME NEW t \in Targets, SyncManually(s, t) \/ SyncAfterPublish(s, t)
            PROVE  stateLock' = stateLock /\ lease' = lease /\ pc[s] = "idle"
        BY <2>1, <4>3 DEF SyncManually, SyncAfterPublish
      <4>4. QED
        BY <2>2, <4>1, <4>2, <4>3
    <3>2. stateLock # s
      BY <1>0, <3>1 DEF SyncOK, WriterSound
    <3>3. QED
      BY <3>1, <3>2
  <2>3. CASE Crash(s)
    BY <1>0, <2>3 DEF Crash
  <2>4. QED
    BY <2>2, <2>3
<1>4. \A t \in Targets : pub'[t] = pub[t] \/ (pub[t] = "recorded" /\ pub'[t] = "idle")
  <2>1. CASE SyncAfterSave(s) \/ SyncOnTick(s) \/ MoreDue(s) \/ Crash(s)
    BY <2>1 DEF SyncAfterSave, SyncOnTick, MoreDue, Crash, publishVars
  <2>2. ASSUME NEW u \in Targets, SyncManually(s, u) \/ SyncAfterPublish(s, u)
        PROVE  \A t \in Targets : pub'[t] = pub[t] \/ (pub[t] = "recorded" /\ pub'[t] = "idle")
    BY <1>0, <2>2 DEF SyncManually, SyncAfterPublish, PublishStep
  <2>3. QED
    BY <2>1, <2>2
<1>5. CoversKept /\ table <= table'
  BY <1>0, <1>2, KeepsChanges
<1>6. ASSUME NEW r \in Syncs PROVE SyncOK(r)'
  <2>1. CASE r = s
    <3>1. pc'[s] \notin {"reading", "push"} /\ stateLock' # s
      BY <1>0, <1>1, <1>3
    <3>2. QED
      BY <2>1, <3>1 DEF SyncOK, ClaimsHeld, WriterSound, ReaderSound, PushSound, PushOrdered, AnswersClaimed
  <2>2. CASE r # s
    <3>1. pc'[r] = pc[r] /\ job'[r] = job[r]
      BY <1>0, <1>1, <2>2
    <3>2. QED
      BY <1>0, <1>2, <1>3, <1>5, <2>2, <3>1, SyncKept DEF Safe
  <2>3. QED
    BY <2>1, <2>2
<1>7. ASSUME NEW t \in Targets PROVE TargetOK(t)'
  <2>1. pub'[t] \in {"holding", "released"} => lease'[t] = Publisher
    BY <1>0, <1>3, <1>4 DEF TargetOK, PublisherHolds
  <2>2. QED
    BY <1>0, <1>2, <1>4, <1>5, <2>1, TargetKept DEF Safe
<1>8. QED
  BY <1>6, <1>7 DEF Safe

\* prepareRound: a sync claims only free leases and plans revisions that are no
\* older than the wanted ones.
LEMMA SafePrepare ==
  ASSUME Safe, Shape', NEW s \in Syncs, Prepare(s)
  PROVE  Safe'
<1>0. /\ TypeOK /\ table \in Nat
      /\ \A t \in Targets : wanted[t] \in Nat /\ carries[t] <= table
      /\ \A r \in Syncs : r # NoOne /\ r # Publisher
      /\ \A r \in Syncs : SyncOK(r)
      /\ \A t \in Targets : TargetOK(t)
      /\ pc \in [Syncs -> {"idle", "prepare", "reading", "push", "more", "dead"}]
      /\ job \in [Syncs -> Job] /\ job[s] \in Job
  BY Parts, ProcessAssumption DEF Safe, Shape, TypeOK, TargetOK, Past
<1>1. /\ table' = table /\ changes' = changes /\ wanted' = wanted /\ synced' = synced
      /\ retry' = retry /\ served' = served /\ published' = published /\ carries' = carries
      /\ tried' = tried /\ pub' = pub
  BY DEF Prepare, stateVars, publishVars
<1>2. CoversKept /\ table <= table'
  BY <1>0, <1>1, KeepsChanges
<1>3. \A t \in Targets : lease'[t] = IF t \in Claimable(s) THEN s ELSE lease[t]
  BY DEF Prepare
<1>4. \A t \in Claimable(s) : t \in Targets /\ lease[t] = NoOne
  BY <1>0, RevisionType DEF Claimable
<1>5. stateLock # s /\ pc'[s] = "reading"
  BY <1>0 DEF Prepare, SyncOK, WriterSound
<1>6. ASSUME NEW t \in Targets PROVE TargetOK(t)'
  <2>1. pub'[t] \in {"holding", "released"} => lease'[t] = Publisher
    BY <1>0, <1>1, <1>3, <1>4, ProcessAssumption DEF TargetOK, PublisherHolds
  <2>2. QED
    BY <1>0, <1>1, <1>2, <2>1, TargetKept DEF Safe
<1>7. ASSUME NEW r \in Syncs, r # s PROVE SyncOK(r)'
  <2>1. pc'[r] = pc[r] /\ job'[r] = job[r]
    BY <1>0, <1>7 DEF Prepare
  <2>2. stateLock' = r <=> stateLock = r
    BY <1>0, <1>7 DEF Prepare
  <2>3. \A t \in Targets : lease[t] = r => lease'[t] = r
    BY <1>0, <1>3, <1>4
  <2>4. QED
    BY <1>0, <1>1, <1>2, <2>1, <2>2, <2>3, SyncKept DEF Safe
<1>8. SyncOK(s)'
  <2>1. /\ job'[s].folded = Folds(s) /\ job'[s].claimed = Claimable(s)
        /\ job'[s].ok = {} /\ job'[s].failed = {}
        /\ job'[s].rev = [t \in Targets |-> NewRevision(s, t)]
    BY <1>0 DEF Prepare, Job
  <2>2. ClaimsHeld(s)' /\ PushSound(s)' /\ PushOrdered(s)' /\ AnswersClaimed(s)'
    BY <1>3, <1>4, <1>5, <2>1 DEF ClaimsHeld, PushSound, PushOrdered, AnswersClaimed
  <2>3. \A t \in Targets :
          /\ wanted'[t] <= job'[s].rev[t]
          /\ Folds(s) # {} => wanted'[t] < job'[s].rev[t]
          /\ ~Writes(s) => job'[s].rev[t] <= wanted'[t] /\ Folds(s) = {}
    BY <1>0, <1>1, <2>1, RevisionType
  <2>4. WriterSound(s)'
    BY <1>5, <2>1, <2>3 DEF WriterSound
  <2>5. stateLock' # s => ~Writes(s)
    BY DEF Prepare
  <2>6. ~Writes(s) => Folds(s) = {}
    BY DEF Writes
  <2>7. ReaderSound(s)'
    BY <1>5, <2>1, <2>3, <2>5, <2>6 DEF ReaderSound
  <2>8. QED
    BY <2>2, <2>4, <2>7 DEF SyncOK
<1>9. QED
  BY <1>6, <1>7, <1>8 DEF Safe

\* The commit of prepareRound: rows leave redirect_changes only together with a
\* newer wanted revision of every target, and the table is read after the
\* revision.
LEMMA SafeRead ==
  ASSUME Safe, Shape', NEW s \in Syncs, ReadTable(s)
  PROVE  Safe'
<1>0. /\ TypeOK /\ table \in Nat /\ changes \subseteq 1..table
      /\ \A t \in Targets : wanted[t] \in Nat /\ carries[t] <= table /\ served[t] <= table
      /\ \A r \in Syncs : r # NoOne /\ r # Publisher
      /\ \A r \in Syncs : SyncOK(r)
      /\ \A t \in Targets : TargetOK(t)
      /\ pc \in [Syncs -> {"idle", "prepare", "reading", "push", "more", "dead"}]
      /\ job \in [Syncs -> Job] /\ job[s] \in Job /\ job[s].claimed \subseteq Targets
      /\ \A t \in Targets : job[s].rev[t] \in Nat
  BY Parts, ProcessAssumption DEF Safe, Shape, TypeOK, TargetOK, Past
<1>1. /\ table' = table /\ synced' = synced /\ served' = served /\ published' = published
      /\ carries' = carries /\ tried' = tried /\ pub' = pub /\ lease' = lease
      /\ pc[s] = "reading" /\ stateLock' # s
  BY <1>0 DEF ReadTable, publishVars
<1>2. \A t \in Targets :
        /\ wanted[t] <= wanted'[t]
        /\ job[s].rev[t] <= wanted'[t]
        /\ job[s].folded # {} => wanted[t] < wanted'[t] /\ retry'[t] # "later"
        /\ retry'[t] = "later" => retry[t] = "later"
  <2>1. CASE stateLock = s
    <3>1. wanted' = job[s].rev
      BY <2>1 DEF ReadTable
    <3>2. QED
      BY <1>0, <1>1, <2>1, <3>1 DEF SyncOK, WriterSound, ReadTable, Folded
  <2>2. CASE stateLock # s
    <3>1. wanted' = wanted /\ job[s].folded = {} /\ \A t \in Targets : job[s].rev[t] <= wanted[t]
      BY <1>0, <1>1, <2>2 DEF ReadTable, SyncOK, ReaderSound
    <3>2. QED
      BY <1>0, <3>1 DEF ReadTable, Folded
  <2>3. QED
    BY <2>1, <2>2
<1>3. job[s].folded = {} => CoversKept
  <2> SUFFICES ASSUME job[s].folded = {} PROVE CoversKept
    OBVIOUS
  <2>1. changes' = changes
    BY DEF ReadTable
  <2>2. QED
    BY <1>0, <1>1, <2>1, KeepsChanges
<1>4. ASSUME NEW t \in Targets PROVE TargetOK(t)'
  <2>1. pub'[t] \in {"holding", "released"} => lease'[t] = Publisher
    BY <1>0, <1>1 DEF TargetOK, PublisherHolds
  <2>2. CoversKept \/ (wanted[t] < wanted'[t] /\ retry'[t] # "later")
    BY <1>2, <1>3
  <2>3. QED
    BY <1>0, <1>1, <1>2, <2>1, <2>2, TargetKept DEF Safe
<1>5. ASSUME NEW r \in Syncs, r # s PROVE SyncOK(r)'
  <2>1. pc'[r] = pc[r] /\ job'[r] = job[r]
    BY <1>0, <1>5 DEF ReadTable, Ends
  <2>2. stateLock' = r => stateLock = r
    BY <1>0, <1>5 DEF ReadTable
  <2>3. stateLock = r => stateLock' = r /\ wanted' = wanted
    BY <1>5 DEF ReadTable
  <2>4. \A t \in Targets : wanted[t] <= wanted'[t] /\ (wanted[t] < wanted'[t] \/ CoversKept)
    BY <1>2, <1>3
  <2>5. QED
    BY <1>0, <1>1, <2>1, <2>2, <2>3, <2>4, SyncKept DEF Safe
<1>6. SyncOK(s)'
  <2>1. CASE job[s].claimed = {}
    <3>1. pc'[s] = "idle"
      BY <1>0, <2>1 DEF ReadTable, Ends
    <3>2. QED
      BY <1>1, <3>1 DEF SyncOK, ClaimsHeld, WriterSound, ReaderSound, PushSound, PushOrdered, AnswersClaimed
  <2>2. CASE job[s].claimed # {}
    <3>1. /\ pc'[s] = "push" /\ job'[s].read = table /\ job'[s].claimed = job[s].claimed
          /\ job'[s].rev = job[s].rev /\ job'[s].failed = job[s].failed
          /\ job'[s].ok = {t \in job[s].claimed : ~published[t]}
      BY <1>0, <2>2 DEF ReadTable, Job
    <3>2. job[s].failed = {} /\ (~LatePushes => \A t \in job[s].claimed : lease[t] = s)
      BY <1>0, <1>1 DEF SyncOK, ReaderSound, ClaimsHeld
    <3>3. ClaimsHeld(s)' /\ AnswersClaimed(s)' /\ WriterSound(s)' /\ ReaderSound(s)'
      BY <1>1, <3>1, <3>2 DEF ClaimsHeld, AnswersClaimed, WriterSound, ReaderSound
    <3>4. Covers(job[s].read)'
      BY <1>0, <1>1, <3>1 DEF Covers
    <3>5. PushSound(s)'
      BY <1>0, <1>1, <1>2, <3>1, <3>4 DEF PushSound
    <3>6. PushOrdered(s)'
      BY <1>0, <1>1, <3>1 DEF PushOrdered
    <3>7. QED
      BY <3>3, <3>5, <3>6 DEF SyncOK
  <2>3. QED
    BY <2>1, <2>2
<1>7. QED
  BY <1>4, <1>5, <1>6 DEF Safe

\* pushTarget: a push reaches only a target its sync holds, and never takes the
\* served table back.
LEMMA SafePush ==
  ASSUME Safe, Shape', NEW s \in Syncs, NEW t \in Targets, PushSucceeds(s, t) \/ PushFails(s, t)
  PROVE  Safe'
<1>0. /\ TypeOK /\ table \in Nat
      /\ \A u \in Targets : wanted[u] \in Nat /\ carries[u] <= table /\ served[u] \in Nat
      /\ \A r \in Syncs : r # NoOne /\ r # Publisher
      /\ \A r \in Syncs : SyncOK(r)
      /\ \A u \in Targets : TargetOK(u)
      /\ job \in [Syncs -> Job] /\ job[s] \in Job /\ served \in [Targets -> Versions]
      /\ job[s].read \in Nat
  BY Parts, ProcessAssumption DEF Safe, Shape, TypeOK, TargetOK, Past
<1>1. /\ table' = table /\ changes' = changes /\ wanted' = wanted /\ synced' = synced
      /\ retry' = retry /\ published' = published /\ carries' = carries
      /\ tried' = tried /\ pub' = pub /\ lease' = lease /\ stateLock' = stateLock /\ pc' = pc
      /\ pc[s] = "push" /\ t \in Unpushed(s)
  BY DEF PushSucceeds, PushFails, stateVars, publishVars
<1>2. CoversKept /\ table <= table'
  BY <1>0, <1>1, KeepsChanges
<1>3. t \in job[s].claimed /\ t \notin job[s].ok /\ t \notin job[s].failed
        /\ (~LatePushes => lease[t] = s /\ served[t] <= job[s].read)
        /\ job[s].read <= table /\ stateLock # s
  BY <1>0, <1>1 DEF Unpushed, SyncOK, ClaimsHeld, PushSound, PushOrdered, WriterSound
<1>4. /\ \A u \in Targets : u # t => served'[u] = served[u]
      /\ served'[t] \in {served[t], job[s].read}
      /\ PushSucceeds(s, t) => served'[t] = job[s].read
  BY <1>0 DEF PushSucceeds, PushFails
<1>5. ASSUME NEW u \in Targets PROVE TargetOK(u)'
  <2>1. CASE served'[u] = served[u]
    <3>1. pub'[u] \in {"holding", "released"} => lease'[u] = Publisher
      BY <1>0, <1>1 DEF TargetOK, PublisherHolds
    <3>2. QED
      BY <1>0, <1>1, <1>2, <2>1, <3>1, TargetKept DEF Safe
  <2>2. CASE u = t /\ served'[t] = job[s].read
    <3>1. PublisherHolds(t)' /\ Past(t)'
      BY <1>0, <1>1, <1>3, <2>2 DEF TargetOK, PublisherHolds, Past
    <3>2. BackoffSound(t)'
      BY <1>0, <1>1 DEF TargetOK, BackoffSound, Covers
    <3>3. SyncedServes(t)'
      <4> SUFFICES ASSUME ~LatePushes, ~LostRecords,
                          published[t], pub[t] # "released", wanted[t] <= synced[t]
                   PROVE  Covers(job[s].read)
        BY <1>1, <2>2 DEF SyncedServes, Covers
      <4>1. Covers(served[t])
        BY <1>0 DEF TargetOK, SyncedServes
      <4>2. QED
        BY <1>0, <1>3, <4>1, NewerCovers
    <3>4. QED
      BY <2>2, <3>1, <3>2, <3>3 DEF TargetOK
  <2>3. QED
    BY <1>4, <2>1, <2>2
<1>6. ASSUME NEW r \in Syncs, r # s PROVE SyncOK(r)'
  <2>1. job'[r] = job[r]
    BY <1>0, <1>6 DEF PushSucceeds, PushFails
  <2>2. ~LatePushes => \A u \in Targets : lease[u] = r => served'[u] = served[u]
    BY <1>3, <1>4, <1>6
  <2>3. QED
    BY <1>0, <1>1, <1>2, <2>1, <2>2, SyncKept DEF Safe
<1>7. SyncOK(s)'
  <2>1. /\ job'[s].read = job[s].read /\ job'[s].claimed = job[s].claimed
        /\ job'[s].rev = job[s].rev
    BY <1>0 DEF PushSucceeds, PushFails, Job
  <2>2. \/ PushSucceeds(s, t) /\ job'[s].ok = job[s].ok \cup {t} /\ job'[s].failed = job[s].failed
        \/ job'[s].failed = job[s].failed \cup {t} /\ job'[s].ok = job[s].ok
    BY <1>0 DEF PushSucceeds, PushFails, Job
  <2>3. ClaimsHeld(s)' /\ WriterSound(s)' /\ ReaderSound(s)'
    BY <1>0, <1>1, <1>3, <2>1 DEF SyncOK, ClaimsHeld, WriterSound, ReaderSound
  <2>4. AnswersClaimed(s)'
    BY <1>0, <1>1, <1>3, <2>1, <2>2 DEF SyncOK, AnswersClaimed
  <2>5. ASSUME NEW u \in job[s].claimed, ~LatePushes
        PROVE  /\ served'[u] <= job[s].read
               /\ u \in job'[s].ok /\ published[u] => served'[u] = job[s].read
    <3>1. u \in Targets /\ served[u] \in Nat /\ served[u] <= job[s].read
            /\ (u \in job[s].ok /\ published[u] => served[u] = job[s].read)
      BY <1>0, <1>1, <2>5, Parts DEF SyncOK, PushOrdered
    <3>2. CASE u = t
      BY <1>0, <1>3, <1>4, <2>2, <2>5, <3>1, <3>2
    <3>3. CASE u # t
      BY <1>0, <1>4, <2>2, <3>1, <3>3
    <3>4. QED
      BY <3>2, <3>3
  <2>6. PushSound(s)'
    <3>1. \A u \in job[s].claimed :
            job[s].rev[u] <= wanted[u] /\ (job[s].rev[u] = wanted[u] => Covers(job[s].read))
      BY <1>0, <1>1 DEF SyncOK, PushSound
    <3>2. QED
      BY <1>1, <1>3, <2>1, <3>1 DEF PushSound, Covers
  <2>7. PushOrdered(s)'
    BY <1>1, <2>1, <2>5 DEF PushOrdered
  <2>8. QED
    BY <2>3, <2>4, <2>6, <2>7 DEF SyncOK
<1>8. QED
  BY <1>5, <1>6, <1>7 DEF Safe

\* record: the revision that was read is recorded, and a backoff starts, only
\* against what the push carried.
LEMMA SafeRecord ==
  ASSUME Safe, Shape', NEW s \in Syncs, Record(s)
  PROVE  Safe'
<1>0. /\ TypeOK /\ table \in Nat
      /\ \A t \in Targets : wanted[t] \in Nat /\ synced[t] \in Nat /\ carries[t] <= table
      /\ \A r \in Syncs : r # NoOne /\ r # Publisher
      /\ \A r \in Syncs : SyncOK(r)
      /\ \A t \in Targets : TargetOK(t)
      /\ pc \in [Syncs -> {"idle", "prepare", "reading", "push", "more", "dead"}]
      /\ job \in [Syncs -> Job] /\ job[s].read \in Nat /\ job[s].claimed \subseteq Targets
      /\ \A t \in Targets : job[s].rev[t] \in Nat
  BY Parts, ProcessAssumption DEF Safe, Shape, TypeOK, TargetOK, Past
<1>1. /\ table' = table /\ changes' = changes /\ wanted' = wanted /\ served' = served
      /\ published' = published /\ carries' = carries /\ pub' = pub /\ stateLock' = stateLock
      /\ pc[s] = "push" /\ stateLock = NoOne
  BY DEF Record, publishVars
<1>2. CoversKept /\ table <= table'
  BY <1>0, <1>1, KeepsChanges
<1>3. \A t \in Targets : lease'[t] = lease[t] \/ (lease[t] = s /\ lease'[t] = NoOne)
  BY DEF Record
<1>4. ASSUME NEW r \in Syncs PROVE SyncOK(r)'
  <2>1. CASE r = s
    <3>1. pc'[s] \in {"idle", "more"} /\ stateLock' # s
      BY <1>0, <1>1 DEF Record, Ends
    <3>2. QED
      BY <2>1, <3>1 DEF SyncOK, ClaimsHeld, WriterSound, ReaderSound, PushSound, PushOrdered, AnswersClaimed
  <2>2. CASE r # s
    <3>1. pc'[r] = pc[r] /\ job'[r] = job[r]
      BY <1>0, <2>2 DEF Record, Ends
    <3>2. QED
      BY <1>0, <1>1, <1>2, <1>3, <2>2, <3>1, SyncKept DEF Safe
  <2>3. QED
    BY <2>1, <2>2
<1>5. ASSUME NEW t \in Targets PROVE TargetOK(t)'
  <2>1. PublisherHolds(t)'
    BY <1>0, <1>1, <1>3 DEF TargetOK, PublisherHolds
  <2>2. synced'[t] = IF t \in job[s].ok THEN SyncedNow(s, t) ELSE synced[t]
    BY DEF Record
  <2>3. t \in job[s].ok =>
          /\ t \in job[s].claimed /\ t \notin job[s].failed /\ job[s].rev[t] <= wanted[t]
          /\ job[s].rev[t] = wanted[t] => Covers(job[s].read)
          /\ ~LatePushes /\ published[t] => served[t] = job[s].read
    BY <1>0, <1>1 DEF SyncOK, PushSound, PushOrdered, AnswersClaimed
  <2>4. t \in job[s].failed =>
          job[s].rev[t] <= wanted[t] /\ (job[s].rev[t] = wanted[t] => Covers(job[s].read))
    BY <1>0, <1>1 DEF SyncOK, PushSound, PushOrdered, AnswersClaimed
  <2>5. Past(t)'
    BY <1>0, <1>1, <2>2, <2>3 DEF TargetOK, Past, SyncedNow
  <2>6. SyncedServes(t)'
    <3> SUFFICES ASSUME ~LatePushes, ~LostRecords,
                        published[t], pub[t] # "released", wanted[t] <= synced'[t]
                 PROVE  Covers(served[t])
      BY <1>1 DEF SyncedServes, Covers
    <3>1. CASE wanted[t] <= synced[t]
      BY <1>0, <3>1 DEF TargetOK, SyncedServes
    <3>2. CASE ~(wanted[t] <= synced[t])
      <4>1. t \in job[s].ok /\ synced'[t] = job[s].rev[t]
        BY <2>2, <3>2 DEF SyncedNow
      <4>2. job[s].rev[t] = wanted[t]
        BY <1>0, <2>3, <4>1
      <4>3. QED
        BY <2>3, <4>1, <4>2
    <3>3. QED
      BY <3>1, <3>2
  <2>7. BackoffSound(t)'
    <3> SUFFICES ASSUME retry'[t] = "later" PROVE Covers(tried[t])'
      BY DEF BackoffSound
    <3>1. t \notin job[s].ok
      BY <2>3 DEF Record
    <3>2. CASE t \in job[s].failed
      <4>1. ~(wanted[t] > job[s].rev[t]) /\ tried'[t] = job[s].read
        BY <3>1, <3>2 DEF Record, RetryAfterFailure
      <4>2. Covers(job[s].read)
        BY <1>0, <2>4, <3>2, <4>1
      <4>3. QED
        BY <1>1, <4>1, <4>2 DEF Covers
    <3>3. CASE t \notin job[s].failed
      <4>1. retry[t] = "later" /\ tried'[t] = tried[t]
        BY <3>1, <3>3 DEF Record
      <4>2. QED
        BY <1>0, <1>1, <4>1 DEF TargetOK, BackoffSound, Covers
    <3>4. QED
      BY <3>2, <3>3
  <2>8. QED
    BY <2>1, <2>5, <2>6, <2>7 DEF TargetOK
<1>6. QED
  BY <1>4, <1>5 DEF Safe

\* Every step of the syncs, the saves and the publishes keeps the invariant.
LEMMA SafeStep == Safe /\ [Next]_vars => Safe'
<1> SUFFICES ASSUME Safe, [Next]_vars PROVE Safe'
  OBVIOUS
<1>1. Shape'
  BY TypeStep DEF Safe
<1>2. CASE SaveRedirects \/ \E t \in Targets : PublishOf(t) \/ Lapse(t) \/ BackoffEnds(t)
  BY <1>1, <1>2, SafeOutside
<1>3. ASSUME NEW s \in Syncs, SyncStep(s) \/ SyncAfterSave(s) \/ SyncOnTick(s) \/ Crash(s)
      PROVE  Safe'
  BY <1>1, <1>3, SafeStarts, SafePrepare, SafeRead, SafeRecord DEF SyncStep
<1>4. ASSUME NEW s \in Syncs, NEW t \in Targets,
             SyncManually(s, t) \/ SyncAfterPublish(s, t) \/ PushSucceeds(s, t) \/ PushFails(s, t)
      PROVE  Safe'
  BY <1>1, <1>4, SafeStarts, SafePush
<1>5. CASE UNCHANGED vars
  <2>1. ASSUME NEW s \in Syncs PROVE SyncOK(s)'
    <3>1. SyncOK(s)
      BY DEF Safe
    <3>2. QED
      BY <1>5, <3>1 DEF vars, SyncOK, ClaimsHeld, WriterSound, ReaderSound, PushSound,
         PushOrdered, AnswersClaimed, Covers
  <2>2. ASSUME NEW t \in Targets PROVE TargetOK(t)'
    <3>1. TargetOK(t)
      BY DEF Safe
    <3>2. QED
      BY <1>5, <3>1 DEF vars, TargetOK, PublisherHolds, Past, SyncedServes, BackoffSound, Covers
  <2>3. QED
    BY <1>1, <2>1, <2>2 DEF Safe
<1>6. QED
  BY <1>2, <1>3, <1>4, <1>5 DEF Next

\* Nothing was saved yet, and nobody holds anything.
LEMMA SafeInit == Init => Safe
<1> SUFFICES ASSUME Init PROVE Safe
  OBVIOUS
<1>1. Shape
  BY TypeInit
<1>2. ASSUME NEW s \in Syncs PROVE SyncOK(s)
  <2>1. pc[s] = "idle" /\ stateLock # s
    BY ProcessAssumption DEF Init
  <2>2. QED
    BY <2>1 DEF SyncOK, ClaimsHeld, WriterSound, ReaderSound, PushSound, PushOrdered, AnswersClaimed
<1>3. ASSUME NEW t \in Targets PROVE TargetOK(t)
  BY DEF Init, TargetOK, PublisherHolds, Past, SyncedServes, BackoffSound
<1>4. QED
  BY <1>1, <1>2, <1>3 DEF Safe

\* redirects.sync_status never calls a target in sync that serves another table
\* than the saved one: "revisions make 'is the provider current?' exact".
THEOREM InSyncIsTheTable ==
  ASSUME ~LatePushes, ~LostRecords
  PROVE  Spec => []InSyncIsExact
<1>1. Safe => InSyncIsExact
  <2> SUFFICES ASSUME Safe, NEW t \in Targets, InSync(t), published[t], pub[t] # "released"
               PROVE  served[t] = table
    BY DEF InSyncIsExact
  <2>1. /\ table \in Nat /\ served[t] \in Nat /\ served[t] <= table
        /\ Covers(served[t]) /\ changes = {}
    BY Parts DEF Safe, Shape, TargetOK, Past, SyncedServes, InSync
  <2>2. table > 0 => table <= served[t]
    BY <2>1 DEF Covers
  <2>3. QED
    BY <2>1, <2>2
<1>2. Init => Safe
  BY SafeInit
<1>3. Safe /\ [Next]_vars => Safe'
  BY SafeStep
<1>4. QED
  BY <1>1, <1>2, <1>3, PTL DEF Spec

\* A change never waits out a backoff that a push without it started (record,
\* foldChanges), also when pushes outlast their claims and records are lost.
THEOREM BackoffHoldsNoChange == Spec => []NewChangeNeverBacksOff
<1>1. Safe => NewChangeNeverBacksOff
  BY DEF Safe, TargetOK, BackoffSound, Covers, NewChangeNeverBacksOff
<1>2. Init => Safe
  BY SafeInit
<1>3. Safe /\ [Next]_vars => Safe'
  BY SafeStep
<1>4. QED
  BY <1>1, <1>2, <1>3, PTL DEF Spec

\* What an old push may never do: the claimed lease orders the syncs of a target,
\* so only a publish takes its served table back.
THEOREM PushesMoveForward ==
  ASSUME ~LatePushes
  PROVE  Spec => TableMovesForward
<1>1. ASSUME Safe, Next, NEW t \in Targets, served'[t] < served[t]
      PROVE  pub'[t] = "released" /\ pub[t] = "holding"
  <2>0. /\ TypeOK /\ served \in [Targets -> Versions]
        /\ pub \in [Targets -> {"idle", "built", "holding", "released", "recorded"}]
        /\ \A s \in Syncs : SyncOK(s) /\ job[s].read \in Nat
        /\ \A u \in Targets : served[u] \in Nat
    BY <1>1, Parts DEF Safe, Shape, TypeOK
  <2>1. served' # served
    BY <1>1, <2>0
  <2>2. CASE \E u \in Targets : ReleaseBuild(u)
    <3>1. PICK u \in Targets : ReleaseBuild(u)
      BY <2>2
    <3>2. u = t
      BY <1>1, <2>0, <3>1 DEF ReleaseBuild
    <3>3. QED
      BY <2>0, <3>1, <3>2 DEF ReleaseBuild, PublishStep
  <2>3. ASSUME NEW s \in Syncs, NEW u \in Targets, PushSucceeds(s, u) \/ PushFails(s, u)
        PROVE  FALSE
    <3>1. pc[s] = "push" /\ u \in job[s].claimed /\ served[u] <= job[s].read
      BY <2>0, <2>3 DEF PushSucceeds, PushFails, Unpushed, SyncOK, PushOrdered
    <3>2. served' = served \/ served' = [served EXCEPT ![u] = job[s].read]
      BY <2>3 DEF PushSucceeds, PushFails
    <3>3. QED
      BY <1>1, <2>0, <3>1, <3>2
  <2>4. CASE ~(\E u \in Targets : ReleaseBuild(u))
             /\ ~(\E s \in Syncs, u \in Targets : PushSucceeds(s, u) \/ PushFails(s, u))
    <3>1. ASSUME NEW s, NEW trigger, NEW all, NEW only, Begin(s, trigger, all, only)
          PROVE  served' = served
      BY <3>1 DEF Begin
    <3>2. CASE SaveRedirects \/ \E u \in Targets : PublishOf(u) \/ Lapse(u) \/ BackoffEnds(u)
      BY <2>1, <2>4, <3>2 DEF SaveRedirects, PublishOf, StartBuild, AcquirePublish, RecordPublish,
         EndPublish, SkipPublishSync, Lapse, BackoffEnds
    <3>3. ASSUME NEW s \in Syncs, SyncStep(s) \/ Crash(s) PROVE served' = served
      BY <3>3 DEF SyncStep, Prepare, ReadTable, Record, MoreDue, Crash
    <3>4. ASSUME NEW s \in Syncs, SyncAfterSave(s) \/ SyncOnTick(s) PROVE served' = served
      BY <3>1, <3>4 DEF SyncAfterSave, SyncOnTick
    <3>5. ASSUME NEW s \in Syncs, NEW u \in Targets, SyncManually(s, u) \/ SyncAfterPublish(s, u)
          PROVE  served' = served
      BY <3>1, <3>5 DEF SyncManually, SyncAfterPublish
    <3>6. QED
      BY <1>1, <2>1, <2>4, <3>2, <3>3, <3>4, <3>5 DEF Next
  <2>5. QED
    BY <2>2, <2>3, <2>4
<1>2. Safe /\ [Next]_vars =>
        [\A t \in Targets : served'[t] < served[t] => pub'[t] = "released" /\ pub[t] = "holding"]_vars
  BY <1>1
<1>3. Init => Safe
  BY SafeInit
<1>4. Safe /\ [Next]_vars => Safe'
  BY SafeStep
<1>5. QED
  BY <1>2, <1>3, <1>4, PTL DEF Spec, TableMovesForward
=============================================================================
