----------------------- MODULE StagePublicationProofs -----------------------
(***************************************************************************)
(* Proofs about StagePublication.tla, for every set of Stages, files and   *)
(* builds, and however often a Stage loses the lease too early.            *)
(***************************************************************************)
EXTENDS StagePublication, TLAPS

\* The operators on the staging-publication row return a lease row
\* (deploy-lease.ts).
LEMMA RowTypes ==
    ASSUME NEW l \in LeaseRow(Stages), NEW s \in Stages
    PROVE  /\ FreeRow \in LeaseRow(Stages)
           /\ Claimed(s) \in LeaseRow(Stages)
           /\ Renewed(l, s) \in LeaseRow(Stages)
           /\ Released(l, {s}) \in LeaseRow(Stages)
  BY TTLAssumption
     DEF LeaseRow, FreeRow, Claimed, Renewed, Released, HeldBy

\* So does a tick of the clock (deploy-run-lock.ts).
LEMMA LapseType ==
    ASSUME NEW l \in LeaseRow(Stages)
    PROVE  [l EXCEPT !.left = Lapse(@)] \in LeaseRow(Stages)
<1>1. Lapse(l.left) \in 0..TTL
  BY TTLAssumption DEF LeaseRow, Lapse
<1>2. QED
  BY <1>1 DEF LeaseRow

\* The count of early losses stays within its bound.
LEMMA OverrunType ==
    ASSUME TypeOK, NEW early, Overruns(early)
    PROVE  overruns' \in 0..MaxOverruns
  BY StageAssumption DEF TypeOK, Overruns

\* Every behaviour keeps the variables in their types: the lease never counts
\* below zero and only a Stage holds it.
THEOREM StageTypeCorrect == Spec => []TypeOK
<1>1. Init => TypeOK
  BY TTLAssumption, StageAssumption
     DEF Init, TypeOK, Alive, Slots, LeaseRow, FreeRow
<1>2. TypeOK /\ [Next]_vars => TypeOK'
  <2> SUFFICES ASSUME TypeOK, [Next]_vars PROVE TypeOK'
    OBVIOUS
  <2> USE RowTypes, OverrunType DEF TypeOK, Goto, StopSync, plan, storage, Alive
  <2>1. ASSUME NEW s \in Stages, StartTrigger(s) PROVE TypeOK'
    BY <2>1 DEF StartTrigger
  <2>2. ASSUME NEW s \in Stages, AcquireStagingPublication(s) PROVE TypeOK'
    BY <2>2 DEF AcquireStagingPublication, NextSlot, Slots
  <2>3. ASSUME NEW s \in Stages, Renew(s) PROVE TypeOK'
    BY <2>3 DEF Renew
  <2>4. ASSUME NEW s \in Stages, ReadManifest(s) PROVE TypeOK'
    BY <2>4 DEF ReadManifest
  <2>5. ASSUME NEW s \in Stages, DeleteManifest(s) PROVE TypeOK'
    BY <2>5 DEF DeleteManifest, FilesOf
  <2>6. ASSUME NEW s \in Stages, AwaitWrites(s) PROVE TypeOK'
    BY <2>6 DEF AwaitWrites, Stale
  <2>7. ASSUME NEW s \in Stages, WriteManifest(s) PROVE TypeOK'
    BY <2>7 DEF WriteManifest
  <2>8. ASSUME NEW s \in Stages, FinishTrigger(s) PROVE TypeOK'
    BY <2>8 DEF FinishTrigger
  <2>9. ASSUME NEW s \in Stages, GiveUp(s) PROVE TypeOK'
    BY <2>9 DEF GiveUp
  <2>10. ASSUME NEW s \in Stages, FailRun(s) PROVE TypeOK'
    BY <2>10 DEF FailRun
  <2>11. ASSUME NEW s \in Stages, Die(s) PROVE TypeOK'
    BY <2>11 DEF Die
  <2>12. ASSUME NEW s \in Stages, Sweep(s) PROVE TypeOK'
    BY <2>12 DEF Sweep
  <2>13. ASSUME NEW s \in Stages, NEW f \in Files, Take(s, f) PROVE TypeOK'
    BY <2>13 DEF Take
  <2>14. ASSUME NEW s \in Stages, NEW f \in Files, WriteLands(s, f) PROVE TypeOK'
    BY <2>14, StageAssumption DEF WriteLands
  <2>15. ASSUME NEW s \in Stages, NEW f \in Files, WriteFails(s, f) PROVE TypeOK'
    <3>1. broken' \in [Stages -> BOOLEAN]
      BY <2>15 DEF WriteFails
    <3>2. QED
      BY <2>15, <3>1 DEF WriteFails
  <2>16. ASSUME NEW s \in Stages, NEW f \in Files, DeleteStale(s, f) PROVE TypeOK'
    BY <2>16 DEF DeleteStale
  <2>17. ASSUME LeaseLapses PROVE TypeOK'
    BY <2>17, LapseType DEF LeaseLapses
  <2>18. ASSUME UNCHANGED vars PROVE TypeOK'
    BY <2>18 DEF vars
  <2>19. QED
    BY <2>1, <2>2, <2>3, <2>4, <2>5, <2>6, <2>7, <2>8, <2>9, <2>10, <2>11, <2>12,
       <2>13, <2>14, <2>15, <2>16, <2>17, <2>18
       DEF Next, StageStep, FileStep
<1>3. QED
  BY <1>1, <1>2, PTL DEF Spec

(***************************************************************************)
(* A Stage that holds the lease chose its slot after the last record, and  *)
(* no record can come in between: the other slot is the served one.        *)
(***************************************************************************)
Filling == {"opening", "opened", "filling", "cleaning", "complete"}

FlipInv ==
    /\ served # NoOne => pc[served] = "done"
    /\ \A s \in Stages :
         pc[s] \in Filling /\ HeldBy(lease, s) /\ served # NoOne => dest[s] # dest[served]

\* The slot a Stage fills is the one staging does not serve, as long as it holds
\* the lease (deploy.acquire_staging_publication, deploy.finish_trigger).
LEMMA FlipInvariant == Spec => []FlipInv
<1>1. Init => FlipInv
  BY DEF Init, FlipInv
<1>2. TypeOK /\ FlipInv /\ [Next]_vars => FlipInv'
  <2> SUFFICES ASSUME TypeOK, FlipInv, [Next]_vars PROVE FlipInv'
    OBVIOUS
  <2> USE StageAssumption, TTLAssumption
      DEF TypeOK, FlipInv, Filling, Goto, StopSync, plan, storage, Alive, LeaseRow,
          FreeRow, HeldBy, Claimed, Renewed, Released
  <2>1. ASSUME NEW s \in Stages, StartTrigger(s) PROVE FlipInv'
    BY <2>1 DEF StartTrigger
  <2>2. ASSUME NEW s \in Stages, AcquireStagingPublication(s) PROVE FlipInv'
    BY <2>2 DEF AcquireStagingPublication, NextSlot, Slots
  <2>3. ASSUME NEW s \in Stages, Renew(s) PROVE FlipInv'
    BY <2>3 DEF Renew
  <2>4. ASSUME NEW s \in Stages, ReadManifest(s) PROVE FlipInv'
    BY <2>4 DEF ReadManifest
  <2>5. ASSUME NEW s \in Stages, DeleteManifest(s) PROVE FlipInv'
    BY <2>5 DEF DeleteManifest
  <2>6. ASSUME NEW s \in Stages, AwaitWrites(s) PROVE FlipInv'
    BY <2>6 DEF AwaitWrites
  <2>7. ASSUME NEW s \in Stages, WriteManifest(s) PROVE FlipInv'
    BY <2>7 DEF WriteManifest
  <2>8. ASSUME NEW s \in Stages, FinishTrigger(s) PROVE FlipInv'
    BY <2>8 DEF FinishTrigger
  <2>9. ASSUME NEW s \in Stages, GiveUp(s) PROVE FlipInv'
    BY <2>9 DEF GiveUp
  <2>10. ASSUME NEW s \in Stages, FailRun(s) PROVE FlipInv'
    BY <2>10 DEF FailRun
  <2>11. ASSUME NEW s \in Stages, Die(s) PROVE FlipInv'
    BY <2>11 DEF Die
  <2>12. ASSUME NEW s \in Stages, Sweep(s) PROVE FlipInv'
    BY <2>12 DEF Sweep
  <2>13. ASSUME NEW s \in Stages, NEW f \in Files, FileStep(s, f) PROVE FlipInv'
    BY <2>13 DEF FileStep, Take, WriteLands, WriteFails, DeleteStale
  <2>14. ASSUME LeaseLapses PROVE FlipInv'
    BY <2>14 DEF LeaseLapses, Lapse
  <2>15. ASSUME UNCHANGED vars PROVE FlipInv'
    BY <2>15 DEF vars
  <2>16. QED
    BY <2>1, <2>2, <2>3, <2>4, <2>5, <2>6, <2>7, <2>8, <2>9, <2>10, <2>11, <2>12,
       <2>13, <2>14, <2>15 DEF Next, StageStep
<1>3. QED
  BY <1>1, <1>2, StageTypeCorrect, PTL DEF Spec

\* A recorded Stage moves staging to the slot that was not served, however Stages
\* stall, fail and overtake each other: the check deploy.finish_trigger makes on
\* the lease is enough.
THEOREM RecordFlips == Spec => StageFlips
<1>1. TypeOK /\ FlipInv /\ [Next]_vars =>
        [served' # served /\ served # NoOne => dest'[served'] # dest[served]]_vars
  <2> SUFFICES ASSUME TypeOK, FlipInv, [Next]_vars, served' # served, served # NoOne
               PROVE  dest'[served'] # dest[served]
    BY DEF vars
  <2>1. PICK s \in Stages : FinishTrigger(s)
    BY DEF Next, StageStep, FileStep, StartTrigger, AcquireStagingPublication, Renew,
           ReadManifest, DeleteManifest, AwaitWrites, WriteManifest, GiveUp, FailRun,
           Die, Sweep, Take, WriteLands, WriteFails, DeleteStale, LeaseLapses, vars
  <2>2. QED
    BY <2>1 DEF FinishTrigger, FlipInv, Filling, plan
<1>2. QED
  BY <1>1, StageTypeCorrect, FlipInvariant, PTL DEF Spec, StageFlips

(***************************************************************************)
(* What keeps the slots whole until a Stage loses the lease too early.     *)
(***************************************************************************)

\* Whoever works on a slot, or has writes in flight, holds the lease.
WorkersHold ==
    \A s \in Stages :
        /\ AtWork(s) => HeldBy(lease, s)
        /\ flying[s] # {} => pc[s] \in {"filling", "failing", "dead"}

\* A slot that may change has no manifest; a complete one has its Stage's.
ManifestsMatch ==
    \A s \in Stages :
        /\ pc[s] = "opened" => prev[s] = manifest[dest[s]]
        /\ pc[s] \in {"filling", "cleaning"} \/ flying[s] # {} => manifest[dest[s]] = NoOne
        /\ pc[s] = "complete" /\ HeldBy(lease, s) => manifest[dest[s]] = s

\* A file that still has to be taken is as the previous manifest lists it; one that
\* was taken and is not in flight is the build's, unless a write failed.
FilledSoFar ==
    \A s \in Stages : pc[s] = "filling" =>
        \A f \in Files :
            /\ f \in todo[s] \cup flying[s] => build[s][f] # Absent
            /\ f \in todo[s] => f \notin flying[s]
            /\ f \in todo[s] /\ prev[s] # NoOne => slot[dest[s]][f] = build[prev[s]][f]
            /\ f \notin todo[s] \cup flying[s] /\ ~broken[s] /\ build[s][f] # Absent
                 => slot[dest[s]][f] = build[s][f]

\* While a slot is cleaned, only files that are still to be deleted differ.
CleanedSoFar ==
    \A s \in Stages : pc[s] = "cleaning" =>
        \A f \in Files :
            IF f \in todo[s] THEN build[s][f] = Absent ELSE slot[dest[s]][f] = build[s][f]

\* A manifest lists what its slot holds.
SlotsListed == \A l \in Slots : manifest[l] # NoOne => slot[l] = build[manifest[l]]

\* The served slot has the served run's manifest.
ServedHasManifest == served # NoOne => manifest[dest[served]] = served

Whole ==
    /\ WorkersHold /\ ManifestsMatch /\ FilledSoFar /\ CleanedSoFar
    /\ SlotsListed /\ ServedHasManifest

WholeInv == overruns = 0 => Whole

\* A loss of the lease is not forgotten (FailRun, LeaseLapses, Sweep).
LEMMA OverrunsGrow ==
    ASSUME TypeOK, [Next]_vars
    PROVE  overruns' = 0 => overruns = 0
<1>1. ASSUME NEW early, Overruns(early) PROVE overruns' = 0 => overruns = 0
  BY <1>1 DEF TypeOK, Overruns
<1>2. (\E early \in BOOLEAN : Overruns(early)) \/ UNCHANGED overruns
  <2> USE DEF Goto
  <2>1. ASSUME NEW s \in Stages, StageStep(s)
        PROVE  (\E early \in BOOLEAN : Overruns(early)) \/ UNCHANGED overruns
    <3>1. AtWork(s) \in BOOLEAN
      BY DEF AtWork
    <3>2. QED
      BY <2>1, <3>1 DEF StageStep, StartTrigger, AcquireStagingPublication, Renew,
             ReadManifest, DeleteManifest, AwaitWrites, WriteManifest, FinishTrigger, GiveUp,
             FailRun, Die, Sweep
  <2>2. ASSUME NEW s \in Stages, NEW f \in Files, FileStep(s, f) PROVE UNCHANGED overruns
    BY <2>2 DEF FileStep, Take, WriteLands, WriteFails, DeleteStale
  <2>3. CASE LeaseLapses
    <3>1. (lease.left = 1 /\ AtWork(lease.holder)) \in BOOLEAN
      BY DEF AtWork
    <3>2. QED
      BY <2>3, <3>1 DEF LeaseLapses
  <2>4. QED
    BY <2>1, <2>2, <2>3 DEF Next, vars
<1>3. QED
  BY <1>1, <1>2

\* A slot is never filled by two Stages at once, so what its manifest says stays
\* true: the slots are whole whenever a manifest lies next to them
\* (staging-slots.ts, staging-publication-lock.ts).
LEMMA WholeInvariant == Spec => []WholeInv
<1>1. Init => WholeInv
  BY DEF Init, WholeInv, Whole, AtWork, WorkersHold, ManifestsMatch, FilledSoFar, CleanedSoFar,
         SlotsListed, ServedHasManifest, Filling
<1>2. TypeOK /\ FlipInv /\ WholeInv /\ [Next]_vars => WholeInv'
  <2> SUFFICES ASSUME TypeOK, FlipInv, Whole, [Next]_vars, overruns = 0, overruns' = 0
               PROVE  Whole'
    BY OverrunsGrow DEF WholeInv
  <2> USE StageAssumption, TTLAssumption
      DEF TypeOK, FlipInv, Filling, Whole, AtWork, WorkersHold, ManifestsMatch, FilledSoFar,
          CleanedSoFar, SlotsListed, ServedHasManifest, Goto, StopSync, plan, storage,
          Alive, LeaseRow, FreeRow, Free, HeldBy, ClaimableBy, Claimed, Renewed, Released
  <2>1. ASSUME NEW s \in Stages, StartTrigger(s) PROVE Whole'
    BY <2>1 DEF StartTrigger
  <2>2. ASSUME NEW s \in Stages, AcquireStagingPublication(s) PROVE Whole'
    <3>1. WorkersHold'
      <4>1. \A t \in Stages \ {s} : ~HeldBy(lease, t)
        BY <2>2 DEF AcquireStagingPublication
      <4>2. \A t \in Stages \ {s} : ~AtWork(t)
        BY <4>1
      <4>3. flying[s] = {}
        BY <2>2 DEF AcquireStagingPublication
      <4>4. HeldBy(lease', s)
        BY <2>2 DEF AcquireStagingPublication
      <4>5. QED
        BY <2>2, <4>2, <4>3, <4>4 DEF AcquireStagingPublication
    <3>2. ManifestsMatch' /\ FilledSoFar' /\ CleanedSoFar' /\ SlotsListed' /\ ServedHasManifest'
      BY <2>2 DEF AcquireStagingPublication, NextSlot, Slots
    <3>3. QED
      BY <3>1, <3>2
  <2>3. ASSUME NEW s \in Stages, Renew(s) PROVE Whole'
    BY <2>3 DEF Renew
  <2>4. ASSUME NEW s \in Stages, ReadManifest(s) PROVE Whole'
    BY <2>4 DEF ReadManifest
  <2>5. ASSUME NEW s \in Stages, DeleteManifest(s) PROVE Whole'
    <3>1. FilledSoFar'
      <4>1. \A t \in Stages \ {s} : ~AtWork(t)
        BY <2>5 DEF DeleteManifest
      <4>2. flying[s] = {}
        BY <2>5 DEF DeleteManifest
      <4>3. ASSUME prev[s] # NoOne PROVE slot[dest[s]] = build[prev[s]]
        <5>1. prev[s] = manifest[dest[s]] /\ dest[s] \in Slots
          BY <2>5 DEF DeleteManifest
        <5>2. QED
          BY <4>3, <5>1
      <4>4. QED
        BY <2>5, <4>1, <4>2, <4>3 DEF DeleteManifest, FilesOf
    <3>2. WorkersHold' /\ ManifestsMatch' /\ CleanedSoFar' /\ SlotsListed' /\ ServedHasManifest'
      BY <2>5 DEF DeleteManifest, FilesOf
    <3>3. QED
      BY <3>1, <3>2
  <2>6. ASSUME NEW s \in Stages, AwaitWrites(s) PROVE Whole'
    BY <2>6 DEF AwaitWrites, Stale
  <2>7. ASSUME NEW s \in Stages, WriteManifest(s) PROVE Whole'
    <3>1. ManifestsMatch'
      <4>1. \A t \in Stages \ {s} : ~AtWork(t)
        BY <2>7 DEF WriteManifest
      <4>2. flying[s] = {}
        BY <2>7 DEF WriteManifest
      <4>3. manifest'[dest[s]] = s
        BY <2>7 DEF WriteManifest
      <4>4. QED
        BY <2>7, <4>1, <4>2, <4>3 DEF WriteManifest
    <3>2. SlotsListed'
      <4>1. \A f \in Files : slot[dest[s]][f] = build[s][f]
        BY <2>7 DEF WriteManifest
      <4>2. slot[dest[s]] \in [Files -> Contents \cup {Absent}]
        OBVIOUS
      <4>3. build[s] \in [Files -> Contents \cup {Absent}]
        OBVIOUS
      <4>4. slot[dest[s]] = build[s]
        BY <4>1, <4>2, <4>3
      <4>5. QED
        BY <2>7, <4>4 DEF WriteManifest
    <3>3. WorkersHold' /\ FilledSoFar' /\ CleanedSoFar' /\ ServedHasManifest'
      BY <2>7 DEF WriteManifest
    <3>4. QED
      BY <3>1, <3>2, <3>3
  <2>8. ASSUME NEW s \in Stages, FinishTrigger(s) PROVE Whole'
    BY <2>8 DEF FinishTrigger
  <2>9. ASSUME NEW s \in Stages, GiveUp(s) PROVE Whole'
    BY <2>9 DEF GiveUp
  <2>10. ASSUME NEW s \in Stages, FailRun(s) PROVE Whole'
    BY <2>10 DEF FailRun, Overruns
  <2>11. ASSUME NEW s \in Stages, Die(s) PROVE Whole'
    BY <2>11 DEF Die
  <2>12. ASSUME NEW s \in Stages, Sweep(s) PROVE Whole'
    BY <2>12 DEF Sweep, Overruns
  <2>13. ASSUME NEW s \in Stages, NEW f \in Files, Take(s, f) PROVE Whole'
    BY <2>13 DEF Take, Needs
  <2>14. ASSUME NEW s \in Stages, NEW f \in Files, WriteLands(s, f) PROVE Whole'
    <3>1. WorkersHold'
      BY <2>14 DEF WriteLands
    <3>2. ManifestsMatch'
      BY <2>14 DEF WriteLands
    <3>3. FilledSoFar'
      BY <2>14 DEF WriteLands
    <3>4. CleanedSoFar'
      BY <2>14 DEF WriteLands
    <3>5. SlotsListed'
      BY <2>14 DEF WriteLands
    <3>6. ServedHasManifest'
      BY <2>14 DEF WriteLands
    <3>7. QED
      BY <3>1, <3>2, <3>3, <3>4, <3>5, <3>6
  <2>15. ASSUME NEW s \in Stages, NEW f \in Files, WriteFails(s, f) PROVE Whole'
    BY <2>15 DEF WriteFails
  <2>16. ASSUME NEW s \in Stages, NEW f \in Files, DeleteStale(s, f) PROVE Whole'
    BY <2>16 DEF DeleteStale
  <2>17. ASSUME LeaseLapses PROVE Whole'
    BY <2>17 DEF LeaseLapses, Lapse, Overruns
  <2>18. ASSUME UNCHANGED vars PROVE Whole'
    BY <2>18 DEF vars
  <2>19. QED
    BY <2>1, <2>2, <2>3, <2>4, <2>5, <2>6, <2>7, <2>8, <2>9, <2>10, <2>11, <2>12,
       <2>13, <2>14, <2>15, <2>16, <2>17, <2>18 DEF Next, StageStep, FileStep
<1>3. QED
  BY <1>1, <1>2, StageTypeCorrect, FlipInvariant, PTL DEF Spec

\* As long as every Stage's work on its slot ended before its lease did, a manifest
\* lists exactly what its slot holds, whatever failed or died halfway
\* (staging-slots.ts).
THEOREM ManifestsSound == Spec => []ManifestTruthful
<1>1. WholeInv => ManifestTruthful
  BY DEF WholeInv, Whole, SlotsListed, ManifestTruthful
<1>2. QED
  BY <1>1, WholeInvariant, PTL

\* Under the same condition the slot recorded as served holds the recorded run's
\* build completely (deploy.finish_trigger, staging-slots.ts).
THEOREM SlotsWhole == Spec => []ServedIsWhole
<1>1. TypeOK /\ WholeInv => ServedIsWhole
  BY StageAssumption DEF TypeOK, WholeInv, Whole, SlotsListed, ServedHasManifest, ServedIsWhole
<1>2. QED
  BY <1>1, StageTypeCorrect, WholeInvariant, PTL
=============================================================================
