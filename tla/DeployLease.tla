---------------------------- MODULE DeployLease ----------------------------
(***************************************************************************)
(* The row mechanics of a publish lease (packages/admin-core/src/deploy/   *)
(* deploy-lease.ts) and of a run's own lease (deploy-run-lock.ts,          *)
(* ops/deploy-run-lifecycle.ts), as operators on values.  Two rows of      *)
(* deploy_leases exist: "live-release" (LiveRelease.tla) and               *)
(* "staging-publication" (StagePublication.tla).                           *)
(*                                                                         *)
(* Time is a countdown: a lease with left = n expires n ticks from now, so *)
(* left > 0 stands for expires_at > clock_timestamp() and left = 0 for an  *)
(* expiry in the past or NULL.  Every countdown is measured on the one     *)
(* database clock, as in the code.                                         *)
(***************************************************************************)
EXTENDS Naturals

CONSTANTS
    TTL,    \* DEPLOY_RUN_LEASE_TTL_MS and SYNC_LEASE_TTL_MS, in ticks
    NoOne   \* the NULL holder

ASSUME TTLAssumption == TTL \in Nat \ {0}

(***************************************************************************)
(* A deploy_leases row.  holder is holder_run_id or holder_sync_id: the    *)
(* deploy_leases_one_holder CHECK allows one of the two.                   *)
(***************************************************************************)
LeaseRow(Holders) == [holder : Holders \cup {NoOne}, left : 0..TTL]

FreeRow == [holder |-> NoOne, left |-> 0]

\* Nobody holds the row: no holder, or the holder's claim lapsed.
Free(l) == l.holder = NoOne \/ l.left = 0

\* The row is x's and unexpired.
HeldBy(l, x) == l.holder = x /\ l.left > 0

\* claimLease: a run may take a free row, and its own row again.
ClaimableBy(l, x) == Free(l) \/ l.holder = x

Claimed(x) == [holder |-> x, left |-> TTL]

RenewedOnTop(l, x) == IF HeldBy(l, x) THEN [l EXCEPT !.left = @ + TTL] ELSE l   \* mutant: counts from the old expiry

\* renewLease, renewSyncLease: only an unexpired claim is extended.
Renewed(l, x) == IF HeldBy(l, x) THEN Claimed(x) ELSE l

\* releaseLease, releaseSyncLease for every x in S.
Released(l, S) == IF l.holder \in S THEN FreeRow ELSE l

LapsePastZero(n) == n - 1   \* mutant: no floor

\* One tick of the database clock.
Lapse(n) == IF n > 0 THEN n - 1 ELSE 0

(***************************************************************************)
(* deployRunIsOrphaned: a running row whose run lease lapsed.              *)
(***************************************************************************)
OrphanedAnyRunning(runStatus, runLeft) == runStatus = "running"   \* mutant: ignores the lease

Orphaned(runStatus, runLeft) == runStatus = "running" /\ runLeft = 0

Orphans(Runs, runStatus, runLeft) ==
    {q \in Runs : Orphaned(runStatus[q], runLeft[q])}

\* deploy.renew_run_lease on the run's row: extends a running row's lease,
\* even one that lapsed and was not swept yet.
RenewedRun(runStatus, runLeft) == IF runStatus = "running" THEN TTL ELSE runLeft
=============================================================================
