------------------------- MODULE ProposalClaimsProofs -------------------------
(***************************************************************************)
(* For any number of Approves of one proposal: it is published at most     *)
(* once, and its decision agrees with the runs on record, as long as       *)
(* attempts keep within the ages and leases the claim counts by.           *)
(***************************************************************************)
EXTENDS ProposalClaims, TLAPS

\* The leases lapse together, and a row whose end is recorded has none.
LeasesSound == \A a \in Attempts : held[a] => leased[a]

\* An attempt before its run is recorded has the proposal, pending: from its
\* claim until it loses the live-release lease.
OwnsProposal(a) == Pending /\ proposal.claim = a

AttemptSound(a) ==
  /\ pc[a] = "idle" => run[a] = "none"
  /\ pc[a] = "claimed" => OwnsProposal(a) /\ proposal.age = "recent" /\ run[a] = "none"
  /\ pc[a] = "waiting" => OwnsProposal(a) /\ leased[a]
  /\ pc[a] = "holding" /\ held[a] => OwnsProposal(a)
  /\ pc[a] \in {"releasing", "released"} => OwnsProposal(a) /\ held[a]
  /\ pc[a] = "succeeded" => run[a] = "succeeded"

\* A run that succeeded keeps the claim: nobody takes the proposal over.
SuccessSound(a) ==
  run[a] = "succeeded" =>
    /\ pc[a] \in {"succeeded", "done"}
    /\ proposal.claim = a
    /\ proposal.status # "declined"
    /\ proposal.status = "applied" => proposal.applied = a

AppliedSound ==
  proposal.status = "applied" =>
    proposal.applied \in Attempts /\ run[proposal.applied] = "succeeded"

\* A claim older than a day is one whose attempt is over.
OldIsOver == \A a \in Attempts : proposal.claim = a /\ proposal.age = "old" => ~Active(a)

IInv ==
  /\ TypeOK
  /\ LeasesSound
  /\ \A a \in Attempts : AttemptSound(a) /\ SuccessSound(a)
  /\ AppliedSound
  /\ OldIsOver

-------------------------------------------------------------------------------

\* Every step of an attempt, of the sweep and of the other deciders keeps the
\* types of the proposal's row and of deploy_runs, whatever stalls or is lost.
LEMMA TypeStep == TypeOK /\ [Next]_vars => TypeOK'
<1> SUFFICES ASSUME TypeOK, [Next]_vars PROVE TypeOK'
  OBVIOUS
<1> USE DEF TypeOK, Goto, Steps, Statuses, Ages, runVars
<1>1. ASSUME NEW a \in Attempts, Claim(a) PROVE TypeOK'
  BY <1>1 DEF Claim
<1>2. ASSUME NEW a \in Attempts, RecordEarlier(a) PROVE TypeOK'
  BY <1>2 DEF RecordEarlier, MarkApplied, ClaimSucceeded, Claimed
<1>3. ASSUME NEW a \in Attempts, StartRun(a) PROVE TypeOK'
  BY <1>3 DEF StartRun, Orphans
<1>4. ASSUME NEW a \in Attempts, StartRefused(a) PROVE TypeOK'
  BY <1>4 DEF StartRefused
<1>5. ASSUME NEW a \in Attempts, Acquire(a) PROVE TypeOK'
  BY <1>5 DEF Acquire
<1>6. ASSUME NEW a \in Attempts, Fence(a) PROVE TypeOK'
  BY <1>6 DEF Fence
<1>7. ASSUME NEW a \in Attempts, Release(a) PROVE TypeOK'
  BY <1>7 DEF Release
<1>8. ASSUME NEW a \in Attempts, GiveUp(a) PROVE TypeOK'
  BY <1>8 DEF GiveUp
<1>9. ASSUME NEW a \in Attempts, Finish(a) PROVE TypeOK'
  BY <1>9 DEF Finish, Ended, Recorded
<1>10. ASSUME NEW a \in Attempts, FailRun(a) PROVE TypeOK'
  BY <1>10 DEF FailRun, Ended, runVars
<1>11. ASSUME NEW a \in Attempts, EndApplied(a) PROVE TypeOK'
  BY <1>11 DEF EndApplied, MarkApplied
<1>12. ASSUME NEW a \in Attempts, EndFailed(a) PROVE TypeOK'
  BY <1>12 DEF EndFailed
<1>13. ASSUME NEW a \in Attempts, EndFails(a) PROVE TypeOK'
  BY <1>13 DEF EndFails
<1>14. ASSUME NEW a \in Attempts, Crash(a) PROVE TypeOK'
  BY <1>14 DEF Crash
<1>15. ASSUME NEW a \in Attempts, Renew(a) PROVE TypeOK'
  BY <1>15 DEF Renew, Beating
<1>16. ASSUME NEW a \in Attempts, LeaseLapses(a) PROVE TypeOK'
  <2>1. PICK still \in {held[a], FALSE} : held' = [held EXCEPT ![a] = still]
    BY <1>16 DEF LeaseLapses
  <2>2. still \in BOOLEAN
    OBVIOUS
  <2>3. held' \in [Attempts -> BOOLEAN]
    BY <2>1, <2>2
  <2>4. QED
    BY <1>16, <2>3 DEF LeaseLapses
<1>17. ASSUME NEW a \in Attempts, Settle(a) PROVE TypeOK'
  BY <1>17 DEF Settle, Orphans
<1>18. CASE Decline
  BY <1>18 DEF Decline, Decide, Pending
<1>19. CASE Supersede
  BY <1>19 DEF Supersede, Decide, Pending
<1>20. CASE GrowsStale
  BY <1>20 DEF GrowsStale, Pending
<1>21. CASE ClaimAges
  BY <1>21 DEF ClaimAges, Claimed, Pending
<1>22. CASE UNCHANGED vars
  BY <1>22 DEF vars
<1>23. QED
  BY <1>1, <1>2, <1>3, <1>4, <1>5, <1>6, <1>7, <1>8, <1>9, <1>10, <1>11, <1>12, <1>13, <1>14, <1>15, <1>16, <1>17, <1>18, <1>19, <1>20, <1>21, <1>22 DEF Next, Work

\* The proposal's row, the runs and the attempts keep their types, and a run
\* that is not running has no lease (deploy_pending.ts, deploy-run-lifecycle.ts).
THEOREM ProposalTypeCorrect == Spec => []TypeOK
<1>1. Init => TypeOK
  BY AttemptAssumption DEF Init, TypeOK, Statuses, Ages, Steps
<1>2. QED
  BY <1>1, TypeStep, PTL DEF Spec

-------------------------------------------------------------------------------

\* Every step keeps the invariant: an attempt that may still release owns the
\* pending proposal, so no second Approve, decline or collection gets between
\* (deploy.begin_execute_proposal, claimBlocksDecision, gcOnce).
LEMMA ClaimStep ==
  ASSUME ~Stalls, ~SlowAttempts, ~LostAnswers, IInv, [Next]_vars
  PROVE  IInv'
<1>0. TypeOK /\ TypeOK'
  BY TypeStep DEF IInv
<1> USE AttemptAssumption
<1> USE DEF IInv, LeasesSound, AttemptSound, SuccessSound, AppliedSound, OldIsOver,
            OwnsProposal, Pending, Active, Beating, TypeOK, Goto, Steps, Statuses, Ages, runVars
<1>1. ASSUME NEW a \in Attempts, Claim(a) PROVE IInv'
  BY <1>0, <1>1 DEF Claim, ClaimSucceeded, ClaimLive, Claimed
<1>2. ASSUME NEW a \in Attempts, RecordEarlier(a) PROVE IInv'
  BY <1>0, <1>2 DEF RecordEarlier, MarkApplied, ClaimSucceeded, Claimed
<1>3. ASSUME NEW a \in Attempts, StartRun(a) PROVE IInv'
  BY <1>0, <1>3 DEF StartRun, Orphans
<1>4. ASSUME NEW a \in Attempts, StartRefused(a) PROVE IInv'
  BY <1>0, <1>4 DEF StartRefused
<1>5. ASSUME NEW a \in Attempts, Acquire(a) PROVE IInv'
  BY <1>0, <1>5 DEF Acquire
<1>6. ASSUME NEW a \in Attempts, Fence(a) PROVE IInv'
  BY <1>0, <1>6 DEF Fence
<1>7. ASSUME NEW a \in Attempts, Release(a) PROVE IInv'
  BY <1>0, <1>7 DEF Release
<1>8. ASSUME NEW a \in Attempts, GiveUp(a) PROVE IInv'
  BY <1>0, <1>8 DEF GiveUp
<1>9. ASSUME NEW a \in Attempts, Finish(a) PROVE IInv'
  BY <1>0, <1>9 DEF Finish, Ended, Recorded
<1>10. ASSUME NEW a \in Attempts, FailRun(a) PROVE IInv'
  BY <1>0, <1>10 DEF FailRun, Ended
<1>11. ASSUME NEW a \in Attempts, EndApplied(a) PROVE IInv'
  BY <1>0, <1>11 DEF EndApplied, MarkApplied
<1>12. ASSUME NEW a \in Attempts, EndFailed(a) PROVE IInv'
  BY <1>0, <1>12 DEF EndFailed
<1>13. ASSUME NEW a \in Attempts, EndFails(a) PROVE IInv'
  BY <1>0, <1>13 DEF EndFails
<1>14. ASSUME NEW a \in Attempts, Crash(a) PROVE IInv'
  BY <1>0, <1>14 DEF Crash
<1>15. ASSUME NEW a \in Attempts, Renew(a) PROVE IInv'
  BY <1>0, <1>15 DEF Renew
<1>16. ASSUME NEW a \in Attempts, LeaseLapses(a) PROVE IInv'
  BY <1>0, <1>16 DEF LeaseLapses
<1>17. ASSUME NEW a \in Attempts, Settle(a) PROVE IInv'
  BY <1>0, <1>17 DEF Settle, Orphans
<1>18. CASE Decline
  BY <1>0, <1>18 DEF Decline, Decide, ClaimBlocksDecision, ClaimSucceeded, ClaimLive, Claimed
<1>19. CASE Supersede
  BY <1>0, <1>19 DEF Supersede, Decide, Claimed
<1>20. CASE GrowsStale
  BY <1>0, <1>20 DEF GrowsStale
<1>21. CASE ClaimAges
  BY <1>0, <1>21 DEF ClaimAges, Claimed
<1>22. CASE UNCHANGED vars
  BY <1>22 DEF vars
<1>23. QED
  BY <1>1, <1>2, <1>3, <1>4, <1>5, <1>6, <1>7, <1>8, <1>9, <1>10, <1>11, <1>12, <1>13, <1>14, <1>15, <1>16, <1>17, <1>18, <1>19, <1>20, <1>21, <1>22 DEF Next, Work

\* The state in which the proposal was just made (deploy.propose_promote).
LEMMA ClaimInit == Init => IInv
  BY AttemptAssumption
  DEF Init, IInv, TypeOK, LeasesSound, AttemptSound, SuccessSound, AppliedSound, OldIsOver,
      OwnsProposal, Pending, Active, Beating, Steps, Statuses, Ages

\* However many Approves race, fail and die, at most one run of the proposal is
\* recorded as live (deploy_pending.ts: the claim keeps a second click from
\* publishing twice).
THEOREM ProposalPublishedOnce ==
  ASSUME ~Stalls, ~SlowAttempts, ~LostAnswers
  PROVE  Spec => []PublishedOnce
<1>1. IInv => PublishedOnce
  BY DEF IInv, SuccessSound, PublishedOnce
<1>2. IInv /\ [Next]_vars => IInv'
  BY ClaimStep
<1>3. QED
  BY <1>1, <1>2, ClaimInit, PTL DEF Spec

\* An applied proposal names the run that is recorded succeeded, and no run of a
\* declined one is (_proposal-claim.ts: claimBlocksDecision).
THEOREM DecisionSound ==
  ASSUME ~Stalls, ~SlowAttempts, ~LostAnswers
  PROVE  Spec => []DecisionNamesRelease
<1>1. IInv => DecisionNamesRelease
  BY DEF IInv, SuccessSound, AppliedSound, DecisionNamesRelease
<1>2. IInv /\ [Next]_vars => IInv'
  BY ClaimStep
<1>3. QED
  BY <1>1, <1>2, ClaimInit, PTL DEF Spec
===============================================================================
