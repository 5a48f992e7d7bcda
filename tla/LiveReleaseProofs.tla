------------------------- MODULE LiveReleaseProofs -------------------------
(***************************************************************************)
(* Proofs about LiveRelease.tla, for every set of runs and copiers and for *)
(* every lease length.                                                     *)
(***************************************************************************)
EXTENDS LiveRelease, TLAPS

(***************************************************************************)
(* The kinds of processes, in the form the proofs below use.               *)
(***************************************************************************)

\* Runs and copiers are disjoint, and so are their kinds.
LEMMA ProcessFacts ==
    /\ Promotes \subseteq Runs /\ Rollbacks \subseteq Runs /\ PluginBuilds \subseteq Runs
    /\ Syncs \subseteq Copiers /\ Purges \subseteq Copiers
    /\ \A c \in Copiers : c \in Syncs \/ c \in Purges
    /\ \A c \in Syncs : c \notin Purges
    /\ \A r \in Runs : r \notin Copiers /\ r \notin Syncs /\ r \notin Purges
    /\ \A r \in Promotes : r \notin Rollbacks /\ r \notin PluginBuilds
    /\ \A r \in Rollbacks : r \notin PluginBuilds
    /\ NoOne \notin Runs /\ NoOne \notin Copiers
  BY ProcessAssumption DEF Runs, Copiers

(***************************************************************************)
(* What the lease operators return.                                        *)
(***************************************************************************)

\* A claim is a lease row (deploy-lease.ts, claimLease).
LEMMA ClaimedType ==
    ASSUME NEW H, NEW x \in H
    PROVE  Claimed(x) \in LeaseRow(H)
  BY TTLAssumption DEF LeaseRow, Claimed

\* The operators on a lease row return a lease row (deploy-lease.ts).
LEMMA LeaseRowType ==
    ASSUME NEW H, NEW l \in LeaseRow(H), NEW x, NEW S
    PROVE  /\ FreeRow \in LeaseRow(H)
           /\ Renewed(l, x) \in LeaseRow(H)
           /\ Released(l, S) \in LeaseRow(H)
           /\ [holder |-> l.holder, left |-> Lapse(l.left)] \in LeaseRow(H)
  BY TTLAssumption
     DEF LeaseRow, FreeRow, Claimed, Renewed, Released, Lapse, HeldBy

\* The operators on a run's lease stay within its range (deploy-run-lock.ts).
LEMMA RunLeftType ==
    ASSUME NEW n \in 0..TTL, NEW s
    PROVE  /\ TTL \in 0..TTL
           /\ 0 \in 0..TTL
           /\ Lapse(n) \in 0..TTL
           /\ RenewedRun(s, n) \in 0..TTL
  BY TTLAssumption DEF Lapse, RenewedRun

(***************************************************************************)
(* Type correctness.                                                       *)
(***************************************************************************)

\* Every behaviour of the live channel's protocol keeps its variables in their
\* types: the leases never count below zero, only a run or a sync holds the
\* row, only a purge locks it.
THEOREM TypeCorrect == Spec => []TypeOK
<1>1. Init => TypeOK
  BY TTLAssumption
     DEF Init, TypeOK, Runs, Copiers, Builds, RunStates, CopyStates, BeatStates,
         LeaseRow, FreeRow
<1>2. TypeOK /\ [Next]_vars => TypeOK'
  <2> SUFFICES ASSUME TypeOK, [Next]_vars PROVE TypeOK'
    OBVIOUS
  <2> USE ProcessFacts, TTLAssumption, ClaimedType, LeaseRowType, RunLeftType
  <2> USE DEF TypeOK, Goto, runVars, beatVars, channel, RunStates, CopyStates,
          BeatStates, Builds
  <2>1. ASSUME NEW r \in Runs, StartRun(r) PROVE TypeOK'
    BY <2>1 DEF StartRun, StatusSwept
  <2>2. ASSUME NEW r \in Runs, StartPluginData(r) PROVE TypeOK'
    BY <2>2 DEF StartPluginData
  <2>3. ASSUME NEW r \in Runs, AcquireLiveRelease(r) PROVE TypeOK'
    <3>1. expects' = expects \/ expects' = [expects EXCEPT ![r] = TRUE]
      BY <2>3 DEF AcquireLiveRelease
    <3>2. expects' \in [Runs -> BOOLEAN]
      BY <3>1
    <3>3. lease' \in LeaseRow(Runs \cup Syncs)
      BY <2>3 DEF AcquireLiveRelease
    <3>4. QED
      BY <2>3, <3>2, <3>3 DEF AcquireLiveRelease
  <2>4. ASSUME NEW r \in Runs, BeginPluginDataRun(r) PROVE TypeOK'
    <3>1. CASE MayBegin(r)
      <4>1. StatusSwept(Runs \ {r}) \in [Runs -> {"absent", "running", "succeeded", "failed"}]
        BY DEF StatusSwept
      <4>2. status' \in [Runs -> {"absent", "running", "succeeded", "failed"}]
        BY <2>4, <3>1, <4>1 DEF BeginPluginDataRun
      <4>3. lease' \in LeaseRow(Runs \cup Syncs)
        BY <2>4, <3>1 DEF BeginPluginDataRun
      <4>4. runLeft' \in [Runs -> 0..TTL]
        BY <2>4, <3>1 DEF BeginPluginDataRun
      <4>5. expects' = [expects EXCEPT ![r] = TRUE]
        BY <2>4, <3>1 DEF BeginPluginDataRun
      <4>6. expects' \in [Runs -> BOOLEAN]
        BY <4>5
      <4>7. QED
        BY <2>4, <3>1, <4>2, <4>3, <4>4, <4>6 DEF BeginPluginDataRun
    <3>2. CASE ~MayBegin(r)
      BY <2>4, <3>2 DEF BeginPluginDataRun
    <3>3. QED
      BY <3>1, <3>2
  <2>5. ASSUME NEW r \in Runs, CheckLive(r) PROVE TypeOK'
    BY <2>5 DEF CheckLive
  <2>6. ASSUME NEW r \in Runs, Fence(r) PROVE TypeOK'
    BY <2>6 DEF Fence
  <2>7. ASSUME NEW r \in Runs, GiveUp(r) PROVE TypeOK'
    BY <2>7 DEF GiveUp
  <2>8. ASSUME NEW r \in Runs, ProviderReleases(r) PROVE TypeOK'
    BY <2>8 DEF ProviderReleases
  <2>9. ASSUME NEW r \in Runs, ProviderFails(r) PROVE TypeOK'
    BY <2>9 DEF ProviderFails
  <2>10. ASSUME NEW r \in Runs, FinishPromote(r) PROVE TypeOK'
    BY <2>10 DEF FinishPromote, RecordStep, RecordSucceeded
  <2>11. ASSUME NEW r \in Runs, FinishPluginDataRun(r) PROVE TypeOK'
    BY <2>11 DEF FinishPluginDataRun, RecordStep, RecordSucceeded
  <2>12. ASSUME NEW r \in Runs, FinishRollback(r) PROVE TypeOK'
    BY <2>12 DEF FinishRollback, RecordStep, RecordSucceeded, RecordFailed
  <2>13. ASSUME NEW r \in Runs, FinishFails(r) PROVE TypeOK'
    BY <2>13 DEF FinishFails
  <2>14. ASSUME NEW r \in Runs, FailRun(r) PROVE TypeOK'
    BY <2>14 DEF FailRun
  <2>15. ASSUME NEW r \in Runs, FailRunFails(r) PROVE TypeOK'
    BY <2>15 DEF FailRunFails
  <2>16. ASSUME NEW r \in Runs, SendBeat(r) PROVE TypeOK'
    BY <2>16 DEF SendBeat
  <2>17. ASSUME NEW r \in Runs, CommitBeat(r) PROVE TypeOK'
    BY <2>17 DEF CommitBeat, BeatAnswer
  <2>18. ASSUME NEW r \in Runs, DropBeat(r) PROVE TypeOK'
    BY <2>18 DEF DropBeat
  <2>19. ASSUME NEW r \in Runs, JudgeBeat(r) PROVE TypeOK'
    BY <2>19 DEF JudgeBeat
  <2>20. ASSUME NEW r \in Runs, Settle(r) PROVE TypeOK'
    BY <2>20 DEF Settle, StatusSwept
  <2>21. ASSUME NEW r \in Runs, Crash(r) PROVE TypeOK'
    BY <2>21 DEF Crash
  <2>22. ASSUME NEW c \in Copiers, ClaimForSync(c) PROVE TypeOK'
    BY <2>22 DEF ClaimForSync
  <2>23. ASSUME NEW c \in Copiers, RenewSync(c) PROVE TypeOK'
    BY <2>23 DEF RenewSync
  <2>24. ASSUME NEW c \in Copiers, FinishSync(c) PROVE TypeOK'
    BY <2>24 DEF FinishSync
  <2>25. ASSUME NEW c \in Copiers, LockForPurge(c) PROVE TypeOK'
    BY <2>25 DEF LockForPurge
  <2>26. ASSUME NEW c \in Copiers, FinishPurge(c) PROVE TypeOK'
    BY <2>26 DEF FinishPurge
  <2>27. ASSUME NEW c \in Copiers, PurgeTimesOut(c) PROVE TypeOK'
    BY <2>27 DEF PurgeTimesOut
  <2>28. ASSUME NEW c \in Copiers, ReadLive(c) PROVE TypeOK'
    BY <2>28 DEF ReadLive
  <2>29. ASSUME NEW c \in Copiers, ReleaseCopy(c) PROVE TypeOK'
    BY <2>29 DEF ReleaseCopy
  <2>30. ASSUME NEW c \in Copiers, CrashCopier(c) PROVE TypeOK'
    BY <2>30 DEF CrashCopier
  <2>31. ASSUME Tick PROVE TypeOK'
    BY <2>31 DEF Tick
  <2>32. ASSUME UNCHANGED vars PROVE TypeOK'
    BY <2>32 DEF vars
  <2>33. QED
    BY <2>1, <2>2, <2>3, <2>4, <2>5, <2>6, <2>7, <2>8, <2>9, <2>10, <2>11, <2>12, <2>13, <2>14, <2>15, <2>16, <2>17, <2>18, <2>19, <2>20, <2>21, <2>22, <2>23, <2>24, <2>25, <2>26, <2>27, <2>28, <2>29, <2>30, <2>31, <2>32
       DEF Next, StartStep, RunStep, BeatStep, CopierStep
<1>3. QED
  BY <1>1, <1>2, PTL DEF Spec

(***************************************************************************)
(* The inductive invariant.                                                *)
(***************************************************************************)

\* A run past its fence still has what the fence proved, and its own lease
\* outlasts the publish lease, so no sweep can reach it while the release runs.
FenceHolds ==
    \A r \in Runs : pc[r] = "releasing" =>
        /\ status[r] = "running"
        /\ HeldBy(lease, r)
        /\ runLeft[r] >= lease.left

\* A purge has the row locked only while nobody holds the lease.
LockedRowIsFree == rowLock # NoOne => Free(lease)

\* A copier that is not late has the right it copies under.
CopiersInTime ==
    ~LateCopies =>
        /\ \A s \in Syncs : pc[s] \in Copying => HeldBy(lease, s)
        /\ \A p \in Purges : pc[p] \in Copying => rowLock = p

\* The holder of the lease, between its release and its record, is what is live.
HolderIsLive ==
    ~LateCopies =>
        \A r \in Runs : pc[r] = "released" /\ HeldBy(lease, r) => live = r

\* What a copier read is still live.
CopyIsFresh ==
    ~LateCopies => \A c \in Copiers : pc[c] = "read" => seen[c] = live

\* What a plugin-data build compared is still live, while it holds the lease.
BaseIsFresh ==
    ~LateCopies /\ ChecksLive =>
        \A r \in PluginBuilds :
            (pc[r] = "checked" /\ HeldBy(lease, r)) \/ pc[r] = "releasing"
                => live = base[r]

\* A verdict on its way to a run, or passed on it, is a true one: the row never
\* runs again, and a lease that is gone is not the run's again.
BeatsTruthful ==
    \A r \in Runs :
        /\ pc[r] \in {"idle", "baking"} => beat[r] = "idle" /\ ~lost[r]
        /\ expects[r] => pc[r] \notin {"idle", "baking", "waiting"}
        /\ beat[r] \in {"sentExpecting", "notHeldExpecting"} => expects[r]
        /\ beat[r] = "notRunning" => status[r] # "running"
        /\ beat[r] = "notHeldExpecting" => ~HeldBy(lease, r)
        /\ lost[r] => status[r] # "running" \/ ~HeldBy(lease, r)

OrderInv == FenceHolds /\ LockedRowIsFree /\ CopiersInTime

LiveInv == HolderIsLive /\ CopyIsFresh /\ BaseIsFresh

\* A sweep leaves a run whose own lease has not lapsed alone
\* (failRunIfOrphanedInTx).
LEMMA SweepSpares ==
    ASSUME TypeOK, NEW q \in Runs, runLeft[q] > 0, NEW S
    PROVE  q \notin Swept(S) /\ StatusSwept(S)[q] = status[q]
  BY DEF Swept, StatusSwept, Orphans, Orphaned

\* The order of live writes rests on OrderInv, which every step keeps.
LEMMA OrderInvariant == Spec => []OrderInv
<1>1. Init => OrderInv
  BY ProcessFacts
     DEF Init, OrderInv, FenceHolds, LockedRowIsFree, CopiersInTime, Copying
<1>2. TypeOK /\ OrderInv /\ [Next]_vars => OrderInv'
  <2> SUFFICES ASSUME TypeOK, OrderInv, [Next]_vars PROVE OrderInv'
    OBVIOUS
  <2> USE ProcessFacts, TTLAssumption, SwitchAssumption
  <2> USE DEF TypeOK, OrderInv, FenceHolds, LockedRowIsFree, CopiersInTime, Copying,
          Goto, runVars, beatVars, channel, LeaseRow, FreeRow, Free,
          HeldBy, Claimed, Renewed, Released, RenewedRun
  <2>1. ASSUME NEW r \in Runs, StartRun(r) PROVE OrderInv'
    BY <2>1 DEF StartRun, StatusSwept, Swept, Orphans, Orphaned
  <2>2. ASSUME NEW r \in Runs, StartPluginData(r) PROVE OrderInv'
    BY <2>2 DEF StartPluginData
  <2>3. ASSUME NEW r \in Runs, AcquireLiveRelease(r) PROVE OrderInv'
    BY <2>3 DEF AcquireLiveRelease, RowSkipped, ClaimableBy
  <2>4. ASSUME NEW r \in Runs, BeginPluginDataRun(r) PROVE OrderInv'
    BY <2>4 DEF BeginPluginDataRun, MayBegin, LeaseAfterSweep, RowSkipped, ClaimableBy, StatusSwept, Swept, Orphans, Orphaned
  <2>5. ASSUME NEW r \in Runs, CheckLive(r) PROVE OrderInv'
    BY <2>5 DEF CheckLive
  <2>6. ASSUME NEW r \in Runs, Fence(r) PROVE OrderInv'
    BY <2>6 DEF Fence
  <2>7. ASSUME NEW r \in Runs, GiveUp(r) PROVE OrderInv'
    BY <2>7 DEF GiveUp
  <2>8. ASSUME NEW r \in Runs, ProviderReleases(r) PROVE OrderInv'
    BY <2>8 DEF ProviderReleases
  <2>9. ASSUME NEW r \in Runs, ProviderFails(r) PROVE OrderInv'
    BY <2>9 DEF ProviderFails
  <2>10. ASSUME NEW r \in Runs, FinishPromote(r) PROVE OrderInv'
    BY <2>10 DEF FinishPromote, RecordStep, RecordSucceeded
  <2>11. ASSUME NEW r \in Runs, FinishPluginDataRun(r) PROVE OrderInv'
    BY <2>11 DEF FinishPluginDataRun, RecordStep, RecordSucceeded
  <2>12. ASSUME NEW r \in Runs, FinishRollback(r) PROVE OrderInv'
    BY <2>12 DEF FinishRollback, RecordStep, RecordSucceeded, RecordFailed
  <2>13. ASSUME NEW r \in Runs, FinishFails(r) PROVE OrderInv'
    BY <2>13 DEF FinishFails
  <2>14. ASSUME NEW r \in Runs, FailRun(r) PROVE OrderInv'
    BY <2>14 DEF FailRun
  <2>15. ASSUME NEW r \in Runs, FailRunFails(r) PROVE OrderInv'
    BY <2>15 DEF FailRunFails
  <2>16. ASSUME NEW r \in Runs, SendBeat(r) PROVE OrderInv'
    BY <2>16 DEF SendBeat
  <2>17. ASSUME NEW r \in Runs, CommitBeat(r) PROVE OrderInv'
    BY <2>17 DEF CommitBeat, BeatAnswer
  <2>18. ASSUME NEW r \in Runs, DropBeat(r) PROVE OrderInv'
    BY <2>18 DEF DropBeat
  <2>19. ASSUME NEW r \in Runs, JudgeBeat(r) PROVE OrderInv'
    BY <2>19 DEF JudgeBeat
  <2>20. ASSUME NEW r \in Runs, Settle(r) PROVE OrderInv'
    BY <2>20 DEF Settle, StatusSwept, Swept, Orphans, Orphaned
  <2>21. ASSUME NEW r \in Runs, Crash(r) PROVE OrderInv'
    BY <2>21 DEF Crash
  <2>22. ASSUME NEW c \in Copiers, ClaimForSync(c) PROVE OrderInv'
    BY <2>22 DEF ClaimForSync, RowSkipped
  <2>23. ASSUME NEW c \in Copiers, RenewSync(c) PROVE OrderInv'
    BY <2>23 DEF RenewSync
  <2>24. ASSUME NEW c \in Copiers, FinishSync(c) PROVE OrderInv'
    BY <2>24 DEF FinishSync
  <2>25. ASSUME NEW c \in Copiers, LockForPurge(c) PROVE OrderInv'
    BY <2>25 DEF LockForPurge, RowSkipped
  <2>26. ASSUME NEW c \in Copiers, FinishPurge(c) PROVE OrderInv'
    BY <2>26 DEF FinishPurge
  <2>27. ASSUME NEW c \in Copiers, PurgeTimesOut(c) PROVE OrderInv'
    BY <2>27 DEF PurgeTimesOut
  <2>28. ASSUME NEW c \in Copiers, ReadLive(c) PROVE OrderInv'
    BY <2>28 DEF ReadLive
  <2>29. ASSUME NEW c \in Copiers, ReleaseCopy(c) PROVE OrderInv'
    BY <2>29 DEF ReleaseCopy
  <2>30. ASSUME NEW c \in Copiers, CrashCopier(c) PROVE OrderInv'
    BY <2>30 DEF CrashCopier
  <2>31. ASSUME Tick PROVE OrderInv'
    BY <2>31 DEF Tick, InProviderCall, Lapse
  <2>32. ASSUME UNCHANGED vars PROVE OrderInv'
    BY <2>32 DEF vars
  <2>33. QED
    BY <2>1, <2>2, <2>3, <2>4, <2>5, <2>6, <2>7, <2>8, <2>9, <2>10, <2>11,
       <2>12, <2>13, <2>14, <2>15, <2>16, <2>17, <2>18, <2>19, <2>20, <2>21, <2>22,
       <2>23, <2>24, <2>25, <2>26, <2>27, <2>28, <2>29, <2>30, <2>31, <2>32
       DEF Next, StartStep, RunStep, BeatStep, CopierStep
<1>3. QED
  BY <1>1, <1>2, TypeCorrect, PTL DEF Spec

\* With the runs' provider calls and the copiers' pushes inside the leases they
\* were started under (InProviderCall), two writes to the live channel are never
\* in flight at once, however many runs, syncs and purges there are.
THEOREM LiveWritesOrdered ==
    ASSUME ~LateCopies
    PROVE  Spec => []OneWriter
<1>1. TypeOK /\ OrderInv => OneWriter
  <2> SUFFICES ASSUME TypeOK, OrderInv, NEW x \in Writers, NEW y \in Writers
               PROVE  x = y
    BY DEF OneWriter
  <2> USE ProcessFacts DEF OrderInv, FenceHolds, LockedRowIsFree, CopiersInTime,
          HeldBy, Free, Writers
  <2>1. CASE x \in Runs
    BY <2>1
  <2>2. CASE x \in Syncs
    BY <2>2
  <2>3. CASE x \in Purges
    BY <2>3
  <2>4. QED
    BY <2>1, <2>2, <2>3
<1>2. QED
  BY <1>1, TypeCorrect, OrderInvariant, PTL

\* Whether copiers are late or not, nothing takes the lease or the running row
\* from a run whose provider release is in flight (fenceRunLeases).
THEOREM FenceIsSound == Spec => []ReleaserOwnsLease
<1>1. OrderInv => ReleaserOwnsLease
  BY DEF OrderInv, FenceHolds, ReleaserOwnsLease
<1>2. QED
  BY <1>1, OrderInvariant, PTL

\* The verdicts on a run stay true, whatever overtakes them on the way.
LEMMA BeatInvariant == Spec => []BeatsTruthful
<1>1. Init => BeatsTruthful
  BY DEF Init, BeatsTruthful
<1>2. TypeOK /\ BeatsTruthful /\ [Next]_vars => BeatsTruthful'
  <2> SUFFICES ASSUME TypeOK, BeatsTruthful, [Next]_vars PROVE BeatsTruthful'
    OBVIOUS
  <2> USE ProcessFacts, TTLAssumption
  <2> USE DEF TypeOK, BeatsTruthful, Goto, runVars, beatVars, channel, LeaseRow, FreeRow,
          HeldBy, Claimed, Renewed, Released
  <2>1. ASSUME NEW r \in Runs, StartRun(r) PROVE BeatsTruthful'
    BY <2>1 DEF StartRun, StatusSwept
  <2>2. ASSUME NEW r \in Runs, StartPluginData(r) PROVE BeatsTruthful'
    BY <2>2 DEF StartPluginData
  <2>3. ASSUME NEW r \in Runs, AcquireLiveRelease(r) PROVE BeatsTruthful'
    BY <2>3 DEF AcquireLiveRelease
  <2>4. ASSUME NEW r \in Runs, BeginPluginDataRun(r) PROVE BeatsTruthful'
    <3>1. \A q \in Runs : q # r => (HeldBy(lease, q)' => HeldBy(lease, q))
      BY <2>4 DEF BeginPluginDataRun
    <3>2. \A q \in Runs : q # r => (status'[q] = "running" => status[q] = "running")
      <4>1. CASE status' = status
        BY <4>1
      <4>2. CASE status' = [StatusSwept(Runs \ {r}) EXCEPT ![r] = "running"]
        BY <4>2 DEF StatusSwept
      <4>3. QED
        BY <2>4, <4>1, <4>2 DEF BeginPluginDataRun
    <3>3. \A q \in Runs : q # r => pc'[q] = pc[q] /\ expects'[q] = expects[q]
      BY <2>4 DEF BeginPluginDataRun
    <3>4. beat'[r] = "idle" /\ ~lost'[r] /\ pc'[r] \in {"holding", "done"}
          /\ (expects'[r] => pc'[r] = "holding")
      BY <2>4 DEF BeginPluginDataRun
    <3>5. QED
      BY <2>4, <3>1, <3>2, <3>3, <3>4 DEF BeginPluginDataRun
  <2>5. ASSUME NEW r \in Runs, CheckLive(r) PROVE BeatsTruthful'
    BY <2>5 DEF CheckLive
  <2>6. ASSUME NEW r \in Runs, Fence(r) PROVE BeatsTruthful'
    BY <2>6 DEF Fence, ReadyToRelease
  <2>7. ASSUME NEW r \in Runs, GiveUp(r) PROVE BeatsTruthful'
    BY <2>7 DEF GiveUp
  <2>8. ASSUME NEW r \in Runs, ProviderReleases(r) PROVE BeatsTruthful'
    BY <2>8 DEF ProviderReleases
  <2>9. ASSUME NEW r \in Runs, ProviderFails(r) PROVE BeatsTruthful'
    BY <2>9 DEF ProviderFails
  <2>10. ASSUME NEW r \in Runs, FinishPromote(r) PROVE BeatsTruthful'
    BY <2>10 DEF FinishPromote, RecordStep, RecordSucceeded
  <2>11. ASSUME NEW r \in Runs, FinishPluginDataRun(r) PROVE BeatsTruthful'
    BY <2>11 DEF FinishPluginDataRun, RecordStep, RecordSucceeded
  <2>12. ASSUME NEW r \in Runs, FinishRollback(r) PROVE BeatsTruthful'
    BY <2>12 DEF FinishRollback, RecordStep, RecordSucceeded, RecordFailed
  <2>13. ASSUME NEW r \in Runs, FinishFails(r) PROVE BeatsTruthful'
    BY <2>13 DEF FinishFails
  <2>14. ASSUME NEW r \in Runs, FailRun(r) PROVE BeatsTruthful'
    BY <2>14 DEF FailRun
  <2>15. ASSUME NEW r \in Runs, FailRunFails(r) PROVE BeatsTruthful'
    BY <2>15 DEF FailRunFails
  <2>16. ASSUME NEW r \in Runs, SendBeat(r) PROVE BeatsTruthful'
    BY <2>16 DEF SendBeat, Beating
  <2>17. ASSUME NEW r \in Runs, CommitBeat(r) PROVE BeatsTruthful'
    BY <2>17 DEF CommitBeat, BeatAnswer
  <2>18. ASSUME NEW r \in Runs, DropBeat(r) PROVE BeatsTruthful'
    BY <2>18 DEF DropBeat
  <2>19. ASSUME NEW r \in Runs, JudgeBeat(r) PROVE BeatsTruthful'
    BY <2>19 DEF JudgeBeat
  <2>20. ASSUME NEW r \in Runs, Settle(r) PROVE BeatsTruthful'
    BY <2>20 DEF Settle, StatusSwept
  <2>21. ASSUME NEW r \in Runs, Crash(r) PROVE BeatsTruthful'
    BY <2>21 DEF Crash
  <2>22. ASSUME NEW c \in Copiers, ClaimForSync(c) PROVE BeatsTruthful'
    BY <2>22 DEF ClaimForSync
  <2>23. ASSUME NEW c \in Copiers, RenewSync(c) PROVE BeatsTruthful'
    BY <2>23 DEF RenewSync
  <2>24. ASSUME NEW c \in Copiers, FinishSync(c) PROVE BeatsTruthful'
    BY <2>24 DEF FinishSync
  <2>25. ASSUME NEW c \in Copiers, LockForPurge(c) PROVE BeatsTruthful'
    BY <2>25 DEF LockForPurge
  <2>26. ASSUME NEW c \in Copiers, FinishPurge(c) PROVE BeatsTruthful'
    BY <2>26 DEF FinishPurge
  <2>27. ASSUME NEW c \in Copiers, PurgeTimesOut(c) PROVE BeatsTruthful'
    BY <2>27 DEF PurgeTimesOut
  <2>28. ASSUME NEW c \in Copiers, ReadLive(c) PROVE BeatsTruthful'
    BY <2>28 DEF ReadLive
  <2>29. ASSUME NEW c \in Copiers, ReleaseCopy(c) PROVE BeatsTruthful'
    BY <2>29 DEF ReleaseCopy
  <2>30. ASSUME NEW c \in Copiers, CrashCopier(c) PROVE BeatsTruthful'
    BY <2>30 DEF CrashCopier
  <2>31. ASSUME Tick PROVE BeatsTruthful'
    BY <2>31 DEF Tick, Lapse
  <2>32. ASSUME UNCHANGED vars PROVE BeatsTruthful'
    BY <2>32 DEF vars
  <2>33. QED
    BY <2>1, <2>2, <2>3, <2>4, <2>5, <2>6, <2>7, <2>8, <2>9, <2>10, <2>11,
       <2>12, <2>13, <2>14, <2>15, <2>16, <2>17, <2>18, <2>19, <2>20, <2>21, <2>22,
       <2>23, <2>24, <2>25, <2>26, <2>27, <2>28, <2>29, <2>30, <2>31, <2>32
       DEF Next, StartStep, RunStep, BeatStep, CopierStep
<1>3. QED
  BY <1>1, <1>2, TypeCorrect, PTL DEF Spec

\* The heartbeat never stops a run that still has its row and its lease, not
\* even with an answer that overtook the acquisition of the lease.
THEOREM HeartbeatIsSound == Spec => []NoSpuriousStop
<1>1. BeatsTruthful => NoSpuriousStop
  BY DEF BeatsTruthful, NoSpuriousStop
<1>2. QED
  BY <1>1, BeatInvariant, PTL

\* What is live is what the holder of the lease, a copier or a plugin-data build
\* last knew of it.
LEMMA LiveInvariant == Spec => []LiveInv
<1>1. Init => LiveInv
  BY ProcessFacts DEF Init, LiveInv, HolderIsLive, CopyIsFresh, BaseIsFresh
<1>2. TypeOK /\ OrderInv /\ LiveInv /\ [Next]_vars => LiveInv'
  <2> SUFFICES ASSUME TypeOK, OrderInv, LiveInv, [Next]_vars PROVE LiveInv'
    OBVIOUS
  <2> USE ProcessFacts, TTLAssumption, SwitchAssumption
  <2> USE DEF TypeOK, OrderInv, FenceHolds, LockedRowIsFree, CopiersInTime, Copying,
          LiveInv, HolderIsLive, CopyIsFresh, BaseIsFresh,
          Goto, runVars, beatVars, channel, LeaseRow, FreeRow, Free,
          HeldBy, Claimed, Renewed, Released, RenewedRun
  <2>1. ASSUME NEW r \in Runs, StartRun(r) PROVE LiveInv'
    BY <2>1 DEF StartRun, StatusSwept
  <2>2. ASSUME NEW r \in Runs, StartPluginData(r) PROVE LiveInv'
    BY <2>2 DEF StartPluginData
  <2>3. ASSUME NEW r \in Runs, AcquireLiveRelease(r) PROVE LiveInv'
    BY <2>3 DEF AcquireLiveRelease
  <2>4. ASSUME NEW r \in Runs, BeginPluginDataRun(r) PROVE LiveInv'
    BY <2>4 DEF BeginPluginDataRun, StatusSwept
  <2>5. ASSUME NEW r \in Runs, CheckLive(r) PROVE LiveInv'
    BY <2>5 DEF CheckLive
  <2>6. ASSUME NEW r \in Runs, Fence(r) PROVE LiveInv'
    BY <2>6 DEF Fence, ReadyToRelease
  <2>7. ASSUME NEW r \in Runs, GiveUp(r) PROVE LiveInv'
    BY <2>7 DEF GiveUp
  <2>8. ASSUME NEW r \in Runs, ProviderReleases(r) PROVE LiveInv'
    BY <2>8 DEF ProviderReleases
  <2>9. ASSUME NEW r \in Runs, ProviderFails(r) PROVE LiveInv'
    BY <2>9 DEF ProviderFails
  <2>10. ASSUME NEW r \in Runs, FinishPromote(r) PROVE LiveInv'
    BY <2>10 DEF FinishPromote, RecordStep, RecordSucceeded
  <2>11. ASSUME NEW r \in Runs, FinishPluginDataRun(r) PROVE LiveInv'
    BY <2>11 DEF FinishPluginDataRun, RecordStep, RecordSucceeded
  <2>12. ASSUME NEW r \in Runs, FinishRollback(r) PROVE LiveInv'
    BY <2>12 DEF FinishRollback, RecordStep, RecordSucceeded, RecordFailed
  <2>13. ASSUME NEW r \in Runs, FinishFails(r) PROVE LiveInv'
    BY <2>13 DEF FinishFails
  <2>14. ASSUME NEW r \in Runs, FailRun(r) PROVE LiveInv'
    BY <2>14 DEF FailRun
  <2>15. ASSUME NEW r \in Runs, FailRunFails(r) PROVE LiveInv'
    BY <2>15 DEF FailRunFails
  <2>16. ASSUME NEW r \in Runs, SendBeat(r) PROVE LiveInv'
    BY <2>16 DEF SendBeat, Beating
  <2>17. ASSUME NEW r \in Runs, CommitBeat(r) PROVE LiveInv'
    BY <2>17 DEF CommitBeat, BeatAnswer
  <2>18. ASSUME NEW r \in Runs, DropBeat(r) PROVE LiveInv'
    BY <2>18 DEF DropBeat
  <2>19. ASSUME NEW r \in Runs, JudgeBeat(r) PROVE LiveInv'
    BY <2>19 DEF JudgeBeat
  <2>20. ASSUME NEW r \in Runs, Settle(r) PROVE LiveInv'
    BY <2>20 DEF Settle, StatusSwept
  <2>21. ASSUME NEW r \in Runs, Crash(r) PROVE LiveInv'
    BY <2>21 DEF Crash
  <2>22. ASSUME NEW c \in Copiers, ClaimForSync(c) PROVE LiveInv'
    BY <2>22 DEF ClaimForSync
  <2>23. ASSUME NEW c \in Copiers, RenewSync(c) PROVE LiveInv'
    BY <2>23 DEF RenewSync
  <2>24. ASSUME NEW c \in Copiers, FinishSync(c) PROVE LiveInv'
    BY <2>24 DEF FinishSync
  <2>25. ASSUME NEW c \in Copiers, LockForPurge(c) PROVE LiveInv'
    BY <2>25 DEF LockForPurge
  <2>26. ASSUME NEW c \in Copiers, FinishPurge(c) PROVE LiveInv'
    BY <2>26 DEF FinishPurge
  <2>27. ASSUME NEW c \in Copiers, PurgeTimesOut(c) PROVE LiveInv'
    BY <2>27 DEF PurgeTimesOut
  <2>28. ASSUME NEW c \in Copiers, ReadLive(c) PROVE LiveInv'
    BY <2>28 DEF ReadLive
  <2>29. ASSUME NEW c \in Copiers, ReleaseCopy(c) PROVE LiveInv'
    BY <2>29 DEF ReleaseCopy
  <2>30. ASSUME NEW c \in Copiers, CrashCopier(c) PROVE LiveInv'
    BY <2>30 DEF CrashCopier
  <2>31. ASSUME Tick PROVE LiveInv'
    BY <2>31 DEF Tick, Lapse
  <2>32. ASSUME UNCHANGED vars PROVE LiveInv'
    BY <2>32 DEF vars
  <2>33. QED
    BY <2>1, <2>2, <2>3, <2>4, <2>5, <2>6, <2>7, <2>8, <2>9, <2>10, <2>11,
       <2>12, <2>13, <2>14, <2>15, <2>16, <2>17, <2>18, <2>19, <2>20, <2>21, <2>22,
       <2>23, <2>24, <2>25, <2>26, <2>27, <2>28, <2>29, <2>30, <2>31, <2>32
       DEF Next, StartStep, RunStep, BeatStep, CopierStep
<1>3. QED
  BY <1>1, <1>2, TypeCorrect, OrderInvariant, PTL DEF Spec

(***************************************************************************)
(* Action properties.  First, which steps can write the books and the      *)
(* channel at all.                                                         *)
(***************************************************************************)

\* Only the record steps write the live run in the books.
LEMMA RecordSteps ==
    ASSUME [Next]_vars, record' # record
    PROVE  \E r \in Runs : FinishPromote(r) \/ FinishPluginDataRun(r) \/ FinishRollback(r)
  BY DEF Next, vars, StartStep, RunStep, BeatStep, CopierStep, channel, StartRun,
         StartPluginData, AcquireLiveRelease, BeginPluginDataRun, CheckLive, Fence,
         GiveUp, ProviderReleases, ProviderFails, FinishFails, FailRun, FailRunFails,
         Crash, Settle, SendBeat, CommitBeat, DropBeat, JudgeBeat, ClaimForSync,
         RenewSync, FinishSync, LockForPurge, FinishPurge, PurgeTimesOut, ReadLive,
         ReleaseCopy, CrashCopier, Tick

\* Only a run whose release is in flight and a copier that has read write the
\* channel: a run writes its own build, a copier the build it read.
LEMMA LiveSteps ==
    ASSUME TypeOK, [Next]_vars, live' # live
    PROVE  \/ \E r \in Runs : pc[r] = "releasing" /\ live' = r
           \/ \E c \in Copiers : pc[c] = "read" /\ live' = seen[c]
  BY DEF Next, vars, StartStep, RunStep, BeatStep, CopierStep, channel, StartRun,
         StartPluginData, AcquireLiveRelease, BeginPluginDataRun, CheckLive, Fence,
         GiveUp, ProviderReleases, ProviderFails, FinishPromote, FinishPluginDataRun,
         FinishRollback, RecordStep, FinishFails, FailRun, FailRunFails,
         Crash, Settle, SendBeat, CommitBeat, DropBeat, JudgeBeat, ClaimForSync,
         RenewSync, FinishSync, LockForPurge, FinishPurge, PurgeTimesOut, ReadLive,
         ReleaseCopy, CrashCopier, Tick

\* A rollback that is recorded as the live run is what visitors get: the check
\* deploy.finish_rollback makes is enough (with copiers in time).
THEOREM RollbackRecordSound ==
    ASSUME ~LateCopies
    PROVE  Spec => RollbackRecordTruthful
<1>1. LiveInv /\ [Next]_vars =>
        [\A r \in Rollbacks : record' = r /\ record # r => live = r]_vars
  <2> SUFFICES ASSUME LiveInv, [Next]_vars, NEW b \in Rollbacks, record' = b, record # b
               PROVE  live = b
    BY DEF vars
  <2>1. PICK r \in Runs :
          FinishPromote(r) \/ FinishPluginDataRun(r) \/ FinishRollback(r)
    BY RecordSteps
  <2>2. FinishRollback(r) /\ r = b
    BY <2>1, ProcessFacts
       DEF FinishPromote, FinishPluginDataRun, FinishRollback, RecordSucceeded, RecordFailed
  <2>3. pc[b] = "released" /\ HeldBy(lease, b)
    BY <2>2 DEF FinishRollback, RecordStep, RecordFailed
  <2>4. QED
    BY <2>3, ProcessFacts DEF LiveInv, HolderIsLive
<1>2. QED
  BY <1>1, LiveInvariant, PTL DEF Spec, RollbackRecordTruthful

\* A redirect push or a purge that is in time never changes which build is live.
THEOREM CopySound ==
    ASSUME ~LateCopies
    PROVE  Spec => CopyKeepsPublish
<1>1. TypeOK /\ OneWriter /\ LiveInv /\ [Next]_vars =>
        [\A c \in Copiers : pc[c] = "read" /\ pc'[c] # "read" => live' = live]_vars
  <2> SUFFICES ASSUME TypeOK, OneWriter, LiveInv, [Next]_vars,
                      NEW c \in Copiers, pc[c] = "read", live' # live
               PROVE  FALSE
    BY DEF vars
  <2>1. c \in Writers
    BY DEF Writers, Copying
  <2>2. ASSUME NEW r \in Runs, pc[r] = "releasing" PROVE FALSE
    BY <2>1, <2>2, ProcessFacts DEF Writers, OneWriter
  <2>3. ASSUME NEW d \in Copiers, pc[d] = "read", live' = seen[d] PROVE FALSE
    BY <2>3 DEF LiveInv, CopyIsFresh
  <2>4. QED
    BY <2>2, <2>3, LiveSteps
<1>2. QED
  BY <1>1, TypeCorrect, LiveWritesOrdered, LiveInvariant, PTL DEF Spec, CopyKeepsPublish

\* On a publisher that compares the live version, the files of a plugin-data
\* build only ever replace the build they were baked from.
THEOREM PluginDataSound ==
    ASSUME ~LateCopies, ChecksLive
    PROVE  Spec => PluginDataKeepsPublish
<1>1. LiveInv => \A r \in PluginBuilds : pc[r] = "releasing" => live = base[r]
  BY DEF LiveInv, BaseIsFresh
<1>2. LiveInv /\ [Next]_vars =>
        [\A r \in PluginBuilds :
           pc[r] = "releasing" /\ live' = r /\ live # r => live = base[r]]_vars
  BY <1>1
<1>3. QED
  BY <1>2, LiveInvariant, PTL DEF Spec, PluginDataKeepsPublish
=============================================================================
