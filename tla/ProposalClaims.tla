---------------------------- MODULE ProposalClaims ----------------------------
(***************************************************************************)
(* An approved Publish live or rollback proposal is applied outside any    *)
(* transaction (admin-core ops/deploy_pending.ts, ops/_proposal-claim.ts,  *)
(* proposal-gc-worker.ts): every Approve click claims the proposal with    *)
(* the id of the run it will start, runs it, and records the outcome.      *)
(* Meanwhile others may approve, reject, withdraw or collect the same      *)
(* proposal.  The run's place among the writers of the live channel is the *)
(* subject of LiveRelease; here it runs until it is recorded or fails.     *)
(***************************************************************************)
EXTENDS Naturals, FiniteSets

CONSTANTS Attempts,      \* Approve clicks, each with the run id it mints
          NoOne,         \* no claim, no run that was applied
          Stalls,        \* a run's lease may lapse while it waits, or once it released
          SlowAttempts,  \* an attempt may outlive the ages the claim counts by
          LostAnswers    \* the answer to the record of a run may be lost

ASSUME AttemptAssumption ==
  NoOne \notin Attempts /\ {Stalls, SlowAttempts, LostAnswers} \subseteq BOOLEAN

VARIABLES kind,      \* deploy_pending_actions.kind
          proposal,  \* its row: status, claimed_by_run_id, the age of claimed_at,
                     \* applied_run_id, and whether it was created 30 days ago
          run,       \* deploy_runs.status of each attempt's run
          leased,    \* deploy_runs.lease_expires_at > clock_timestamp()
          held,      \* the run holds the live-release lease
          pc         \* deploy.execute_proposal of each attempt

vars == <<kind, proposal, run, leased, held, pc>>

runVars == <<run, leased, held>>

\* "rejected" and "cancelled" are one here: declined.
Statuses == {"pending", "applied", "declined", "superseded"}

\* The claim is younger than CLAIM_WITHOUT_RUN_MS, older, older than a day.
Ages == {"recent", "late", "old"}

Steps == {"idle", "claimed", "waiting", "holding", "releasing", "released", "failing",
          "succeeded", "failed", "done"}

TypeOK ==
  /\ kind \in {"promote", "rollback"}
  /\ proposal \in [status : Statuses, claim : Attempts \cup {NoOne}, age : Ages,
                   applied : Attempts \cup {NoOne}, stale : BOOLEAN]
  /\ run \in [Attempts -> {"none", "running", "succeeded", "failed"}]
  /\ leased \in [Attempts -> BOOLEAN]
  /\ held \in [Attempts -> BOOLEAN]
  /\ pc \in [Attempts -> Steps]
  /\ \A a \in Attempts : leased[a] => run[a] = "running"

\* proposeDeployPromoteOp, proposeDeployRollbackOp.
Init ==
  /\ kind \in {"promote", "rollback"}
  /\ proposal = [status |-> "pending", claim |-> NoOne, age |-> "recent",
                 applied |-> NoOne, stale |-> FALSE]
  /\ run = [a \in Attempts |-> "none"]
  /\ leased = [a \in Attempts |-> FALSE]
  /\ held = [a \in Attempts |-> FALSE]
  /\ pc = [a \in Attempts |-> "idle"]

Goto(a, step) == pc' = [pc EXCEPT ![a] = step]

\* The process holds a run that is not recorded; its heartbeat is armed.
Beating(a) == pc[a] \in {"waiting", "holding", "releasing", "released", "failing"}

Active(a) == Beating(a) \/ pc[a] \in {"claimed", "succeeded", "failed"}

-------------------------------------------------------------------------------
(* deploy.begin_execute_proposal and deploy.end_execute_proposal *)

Pending == proposal.status = "pending"

Claimed == proposal.claim # NoOne

\* The claimed run went live and waits to be recorded as the approval.
ClaimSucceeded == Claimed /\ run[proposal.claim] = "succeeded"

\* Mutant of ClaimLive: a run that died counts as running for good.
ClaimLiveForever ==
  Claimed /\ (\/ run[proposal.claim] = "running"
              \/ run[proposal.claim] = "none" /\ proposal.age = "recent")

\* The attempt that claimed it still applies it.
ClaimLive ==
  Claimed /\ (\/ run[proposal.claim] = "running" /\ leased[proposal.claim]
              \/ run[proposal.claim] = "none" /\ proposal.age = "recent")

\* markApplied.
MarkApplied(r) ==
  proposal' = IF Pending THEN [proposal EXCEPT !.status = "applied", !.applied = r] ELSE proposal

\* An Approve takes the proposal.
Claim(a) ==
  /\ pc[a] = "idle" /\ Pending
  /\ ~ClaimSucceeded /\ ~ClaimLive
  /\ proposal' = [proposal EXCEPT !.claim = a, !.age = "recent"]
  /\ Goto(a, "claimed")
  /\ UNCHANGED <<kind, runVars>>

\* An Approve finds that an earlier one went live and records that.
RecordEarlier(a) ==
  /\ pc[a] = "idle" /\ Pending
  /\ ClaimSucceeded
  /\ MarkApplied(proposal.claim)
  /\ Goto(a, "done")
  /\ UNCHANGED <<kind, runVars>>

\* The outcome of an attempt that succeeded.
EndApplied(a) ==
  /\ pc[a] = "succeeded"
  /\ MarkApplied(a)
  /\ Goto(a, "done")
  /\ UNCHANGED <<kind, runVars>>

\* Mutant of EndFailed: whichever claim the row has.
EndFailedAnyClaim(a) ==
  /\ pc[a] = "failed"
  /\ proposal' = IF Pending THEN [proposal EXCEPT !.claim = NoOne] ELSE proposal
  /\ Goto(a, "done")
  /\ UNCHANGED <<kind, runVars>>

\* The outcome of an attempt that failed: its own claim is given up.
EndFailed(a) ==
  /\ pc[a] = "failed"
  /\ proposal' = IF Pending /\ proposal.claim = a THEN [proposal EXCEPT !.claim = NoOne]
                 ELSE proposal
  /\ Goto(a, "done")
  /\ UNCHANGED <<kind, runVars>>

\* Recording the outcome failed: the claim stays.
EndFails(a) ==
  /\ pc[a] \in {"succeeded", "failed"}
  /\ Goto(a, "done")
  /\ UNCHANGED <<kind, proposal, runVars>>

-------------------------------------------------------------------------------
(* deploy.promote and deploy.rollback *)

Orphans == {a \in Attempts : run[a] = "running" /\ ~leased[a]}

\* failRunIfOrphanedInTx, by a read that reports the run: a run that died
\* becomes failed and loses the lease.
Settle(a) ==
  /\ a \in Orphans
  /\ run' = [run EXCEPT ![a] = "failed"]
  /\ held' = [held EXCEPT ![a] = FALSE]
  /\ UNCHANGED <<kind, proposal, leased, pc>>

\* beginRunInTx: the runs that died are swept, the run's row is committed.
StartRun(a) ==
  /\ pc[a] = "claimed"
  /\ run' = [b \in Attempts |-> IF b = a THEN "running"
                                ELSE IF b \in Orphans THEN "failed" ELSE run[b]]
  /\ held' = [b \in Attempts |-> held[b] /\ b \notin Orphans]
  /\ leased' = [leased EXCEPT ![a] = TRUE]
  /\ Goto(a, "waiting")
  /\ UNCHANGED <<kind, proposal>>

\* A gate refuses the start: no row.
StartRefused(a) ==
  /\ pc[a] = "claimed"
  /\ Goto(a, "failed")
  /\ UNCHANGED <<kind, proposal, runVars>>

\* deploy.acquire_live_release.
Acquire(a) ==
  /\ pc[a] = "waiting"
  /\ \A b \in Attempts : ~held[b]
  /\ held' = [held EXCEPT ![a] = TRUE]
  /\ Goto(a, "holding")
  /\ UNCHANGED <<kind, proposal, run, leased>>

\* Proof, right before the release, that row and lease are still the run's.
Fence(a) ==
  /\ pc[a] = "holding"
  /\ leased' = [leased EXCEPT ![a] = run[a] = "running"]
  /\ Goto(a, IF run[a] = "running" /\ held[a] THEN "releasing" ELSE "failing")
  /\ UNCHANGED <<kind, proposal, run, held>>

Release(a) ==
  /\ pc[a] = "releasing"
  /\ Goto(a, "released")
  /\ UNCHANGED <<kind, proposal, runVars>>

\* A wait that ran out, a stop, a provider that fails, a record that does not
\* commit.
GiveUp(a) ==
  /\ pc[a] \in {"waiting", "holding", "releasing", "released"}
  /\ Goto(a, "failing")
  /\ UNCHANGED <<kind, proposal, runVars>>

\* deploy.finish_promote records whatever the row says, deploy.finish_rollback
\* only while the run kept its lease.
Recorded(a) == IF kind = "promote" \/ held[a] THEN "succeeded" ELSE "failed"

\* Mutant of Ended: lease_expires_at is not reset.
EndedStillLeased(a, status) ==
  /\ run' = [run EXCEPT ![a] = status]
  /\ held' = [held EXCEPT ![a] = FALSE]
  /\ UNCHANGED leased

\* The record of the run's end gives up both leases.
Ended(a, status) ==
  /\ run' = [run EXCEPT ![a] = status]
  /\ leased' = [leased EXCEPT ![a] = FALSE]
  /\ held' = [held EXCEPT ![a] = FALSE]

Finish(a) ==
  /\ pc[a] = "released"
  /\ Ended(a, Recorded(a))
  /\ \E next \in {Recorded(a)} \cup (IF LostAnswers THEN {"failing"} ELSE {}) : Goto(a, next)
  /\ UNCHANGED <<kind, proposal>>

\* deploy.fail_run; when it fails too, the row waits for the sweep.
FailRun(a) ==
  /\ pc[a] = "failing"
  /\ \/ Ended(a, IF run[a] = "running" THEN "failed" ELSE run[a])
     \/ UNCHANGED runVars
  /\ Goto(a, "failed")
  /\ UNCHANGED <<kind, proposal>>

\* The process dies: it does nothing more, like one that is done.
Crash(a) ==
  /\ Active(a)
  /\ Goto(a, "done")
  /\ UNCHANGED <<kind, proposal, runVars>>

\* A beat reaches a row that lapsed and was not swept; a lost lease stays lost.
Renew(a) ==
  /\ Beating(a) /\ run[a] = "running" /\ ~leased[a]
  /\ leased' = [leased EXCEPT ![a] = TRUE]
  /\ UNCHANGED <<kind, proposal, run, held, pc>>

\* Three beats were missed: both leases lapse, at about the same time.  A
\* release is shorter than the leases its fence renewed.
LeaseLapses(a) ==
  /\ leased[a] \/ held[a]
  /\ Stalls \/ pc[a] \notin {"waiting", "released"}
  /\ pc[a] # "releasing"
  /\ leased' = [leased EXCEPT ![a] = FALSE]
  /\ \E still \in {held[a], FALSE} : (Stalls \/ ~still) /\ held' = [held EXCEPT ![a] = still]
  /\ UNCHANGED <<kind, proposal, run, pc>>

-------------------------------------------------------------------------------
(* The other decisions *)

\* Mutant of ClaimBlocksDecision: only a claim that is being applied.
ClaimBlocksLiveOnly == ClaimLive

\* claimBlocksDecision.
ClaimBlocksDecision == ClaimSucceeded \/ ClaimLive

Decide(status) ==
  /\ proposal' = [proposal EXCEPT !.status = status]
  /\ UNCHANGED <<kind, runVars, pc>>

\* deploy.reject_proposal, and pending_proposals.cancel by who proposed it.
Decline == Pending /\ ~ClaimBlocksDecision /\ Decide("declined")

\* gcOnce: a claim older than a day is taken for one whose attempt died.
Supersede ==
  /\ Pending /\ proposal.stale
  /\ ~Claimed \/ proposal.age = "old"
  /\ Decide("superseded")

GrowsStale ==
  /\ Pending /\ ~proposal.stale
  /\ proposal' = [proposal EXCEPT !.stale = TRUE]
  /\ UNCHANGED <<kind, runVars, pc>>

\* The ages count while the proposal is pending.  An attempt starts its run
\* within CLAIM_WITHOUT_RUN_MS, and ends within a day.
ClaimAges ==
  /\ Pending /\ Claimed /\ proposal.age # "old"
  /\ \/ SlowAttempts
     \/ IF proposal.age = "recent" THEN pc[proposal.claim] # "claimed"
        ELSE ~Active(proposal.claim)
  /\ proposal' = [proposal EXCEPT !.age = IF @ = "recent" THEN "late" ELSE "old"]
  /\ UNCHANGED <<kind, runVars, pc>>

-------------------------------------------------------------------------------

Work(a) ==
  \/ StartRun(a) \/ StartRefused(a) \/ Acquire(a) \/ Fence(a) \/ Release(a)
  \/ GiveUp(a) \/ Finish(a) \/ FailRun(a) \/ EndApplied(a) \/ EndFailed(a) \/ EndFails(a)

Next ==
  \/ \E a \in Attempts :
       \/ Claim(a) \/ RecordEarlier(a) \/ Work(a)
       \/ Crash(a) \/ Renew(a) \/ LeaseLapses(a) \/ Settle(a)
  \/ Decline \/ Supersede \/ GrowsStale \/ ClaimAges

Spec == Init /\ [][Next]_vars

\* A live attempt goes on and the clock runs.  Nobody need ever look at the
\* runs: no fairness of Settle.
FairSpec ==
  /\ Spec
  /\ \A a \in Attempts : WF_vars(Work(a)) /\ WF_vars(LeaseLapses(a))
  /\ WF_vars(ClaimAges)

-------------------------------------------------------------------------------

\* At most one run of a proposal goes live and is recorded, however many
\* Approves race, fail or die (deploy_pending.ts: "The claim keeps a second
\* click from publishing twice").
PublishedOnce ==
  \A a, b \in Attempts : run[a] = "succeeded" /\ run[b] = "succeeded" => a = b

\* The decision agrees with the record of the runs: an applied proposal names the
\* one run that is recorded succeeded, and no run is for a rejected or withdrawn
\* one (_proposal-claim.ts: no decision may contradict what is being released).
\* A run that released and died before its record is not recorded succeeded.
DecisionNamesRelease ==
  proposal.status \in {"applied", "declined"} =>
    \A a \in Attempts : run[a] = "succeeded" <=> proposal.status = "applied" /\ proposal.applied = a

\* A claim ends: an attempt that failed or died does not keep the proposal from
\* being approved for ever (CLAIM_WITHOUT_RUN_MS, the run's lease).
ClaimEnds == (Pending /\ ClaimLive) ~> ~(Pending /\ ClaimLive)

===============================================================================
