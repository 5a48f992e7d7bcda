----------------------------- MODULE ChangeJournal -----------------------------
(***************************************************************************)
(* The change journal and one plugin's change consumer                     *)
(* (packages/query-api/src/change-journal.ts,                              *)
(* packages/plugin-host/src/change-consumers.ts).  Transactions write      *)
(* journal rows and commit in any order; every admin instance is woken by  *)
(* NOTIFY and drains the consumer under a claim with a lease: poll a page  *)
(* past the cursor, dispatch it to the plugin, commit the cursor.  Garbage *)
(* collection may pass a stalled consumer, which then rebuilds.            *)
(***************************************************************************)
EXTENDS JournalSnapshots

CONSTANTS Instances,     \* admin processes
          NoOne,         \* no claim
          Departed,      \* the instance id of a process that died
          Limit,         \* BATCH: rows of one page
          MaxBatches,    \* MAX_BATCHES: pages of one drain
          MaxFaults,     \* bound: crashes, failed steps, lost connections, lapses
          LateRebuilds   \* an instance may outlive its claim around a forced rebuild

ASSUME ConsumerAssumption ==
  /\ NoOne \notin Instances /\ Departed \notin Instances /\ NoOne # Departed
  /\ Limit \in Nat /\ Limit > 0
  /\ MaxBatches \in Nat /\ MaxBatches > 0
  /\ MaxFaults \in Nat
  /\ LateRebuilds \in BOOLEAN

VARIABLES tx,        \* the writing transactions
          journal,   \* entity_changes: rows of committed transactions
          horizon,   \* entity_change_horizons: the newest deleted id, 0 for none
          row,       \* the consumer's row of change_consumers
          applied,   \* the changes the plugin's derived state reflects
          drain,     \* drainOne of each instance
          loop,      \* the wake-up loop of each instance
          faults

vars == <<tx, journal, horizon, row, applied, drain, loop, faults>>

Steps == {"idle", "dead", "rebuild", "finish", "poll", "begin", "dispatch",
          "commit", "reclaim", "fail", "leave"}

Token == [from : Snapshots, cursor : Snapshots,
          target : Snapshots \cup {NoSnapshot}, after : 0..MaxXid]

NoToken == [from |-> NoSnapshot, cursor |-> NoSnapshot, target |-> NoSnapshot, after |-> 0]

TypeOK ==
  /\ tx \in [Xids -> TxStates]
  /\ journal \subseteq Committed(tx)
  /\ horizon \in 0..MaxXid
  /\ row \in [cursor : Snapshots \cup {NoSnapshot}, target : Snapshots \cup {NoSnapshot},
              after : 0..MaxXid, pending : BOOLEAN,
              holder : Instances \cup {NoOne, Departed}, unexpired : BOOLEAN]
  /\ row.target # NoSnapshot => row.cursor # NoSnapshot
  /\ applied \subseteq Committed(tx)
  /\ drain \in [Instances -> [pc : Steps, index : 0..MaxBatches, token : Token \cup {NoToken},
                              todo : SUBSET Xids, lost : BOOLEAN, beat : BOOLEAN]]
  /\ loop \in [Instances -> [wake : BOOLEAN, retry : BOOLEAN, backoff : BOOLEAN,
                             listening : BOOLEAN]]
  /\ faults \in 0..MaxFaults

NoDrain == [pc |-> "idle", index |-> 0, token |-> NoToken, todo |-> {}, lost |-> FALSE,
            beat |-> FALSE]

\* startChangeConsumers: the first LISTEN wakes the loop.
Woken == [wake |-> TRUE, retry |-> FALSE, backoff |-> FALSE, listening |-> TRUE]

Init ==
  /\ tx = [x \in Xids |-> "none"]
  /\ journal = {}
  /\ horizon = 0
  /\ row = [cursor |-> NoSnapshot, target |-> NoSnapshot, after |-> 0, pending |-> FALSE,
            holder |-> NoOne, unexpired |-> FALSE]
  /\ applied = {}
  /\ drain = [i \in Instances |-> NoDrain]
  /\ loop = [i \in Instances |-> Woken]
  /\ faults = 0

-------------------------------------------------------------------------------
(* Writers *)

\* Mutant of Begin: the row is written outside the transaction.
BeginVisible(x) ==
  /\ Start(tx, x)
  /\ tx' = [tx EXCEPT ![x] = "open"]
  /\ journal' = journal \cup {x}
  /\ UNCHANGED <<horizon, row, applied, drain, loop, faults>>

Begin(x) ==
  /\ Start(tx, x)
  /\ tx' = [tx EXCEPT ![x] = "open"]
  /\ UNCHANGED <<journal, horizon, row, applied, drain, loop, faults>>

\* The journal row becomes visible and NOTIFY wakes every instance that
\* listens; one that does not misses it for good.
Commit(x) ==
  /\ tx[x] = "open"
  /\ tx' = [tx EXCEPT ![x] = "committed"]
  /\ journal' = journal \cup {x}
  /\ loop' = [i \in Instances |-> [loop[i] EXCEPT !.wake = @ \/ loop[i].listening]]
  /\ UNCHANGED <<horizon, row, applied, drain, faults>>

Abort(x) ==
  /\ tx[x] = "open"
  /\ tx' = [tx EXCEPT ![x] = "aborted"]
  /\ UNCHANGED <<journal, horizon, row, applied, drain, loop, faults>>

-------------------------------------------------------------------------------
(* The consumer's row *)

Registered == row.cursor # NoSnapshot

\* claimHeld: the owner fence of a state update.
ClaimHeld(i) == row.holder = i /\ row.unexpired

Claimable(i) == row.holder \in {NoOne, i} \/ ~row.unexpired

ClaimedBy(r, i) == [r EXCEPT !.holder = i, !.unexpired = TRUE]

\* claimConsumer by an instance that works already.
Renewed(i) == IF Claimable(i) THEN ClaimedBy(row, i) ELSE row

ReleasedBy(r, i) == IF r.holder = i THEN [r EXCEPT !.holder = NoOne, !.unexpired = FALSE] ELSE r

\* registerConsumer: the cursor at "now", the rebuild pending.
RegisteredRow ==
  IF Registered THEN row
  ELSE [row EXCEPT !.cursor = CurrentSnapshot(tx), !.pending = TRUE]

\* Mutant of PassedByGC: off by one.
PassedByGCLate(cursor) == horizon > Xmin(cursor)

\* The cursor is at or below the horizon of the garbage collection.
PassedByGC(cursor) == horizon >= Xmin(cursor)

\* readChanges: visible in the target, not in the cursor, after the last page.
Unread(cursor, target, after) ==
  {x \in journal : ~Visible(x, cursor) /\ Visible(x, target) /\ x > after}

\* A paged read pins its target.
Target == IF row.target = NoSnapshot THEN CurrentSnapshot(tx) ELSE row.target

Page == FirstRows(Unread(row.cursor, Target, row.after), Limit)

MorePages == Page # Unread(row.cursor, Target, row.after)

\* Mutant of PolledToken: the cursor is the newest id, whatever is still open.
PolledTokenById ==
  IF MorePages
  THEN [from |-> row.cursor, cursor |-> row.cursor, target |-> Target, after |-> Max(Page)]
  ELSE [from |-> row.cursor, cursor |-> [Target EXCEPT !.xip = {}], target |-> NoSnapshot,
        after |-> 0]

PolledToken ==
  IF MorePages
  THEN [from |-> row.cursor, cursor |-> row.cursor, target |-> Target, after |-> Max(Page)]
  ELSE [from |-> row.cursor, cursor |-> Target, target |-> NoSnapshot, after |-> 0]

Committable(i) == row.cursor = drain[i].token.from /\ ClaimHeld(i)

-------------------------------------------------------------------------------
(* drainOne *)

FaultHappens == faults < MaxFaults /\ faults' = faults + 1

To(i, step) == [drain[i] EXCEPT !.pc = step]

\* Out of the batch: only a renewal under way outlives it.
At(i, step) == [NoDrain EXCEPT !.pc = step, !.beat = drain[i].beat]

\* A step's transaction committed; its answer may be lost, which the drain
\* takes for a failure.
Proceed(i, next) ==
  \/ drain' = [drain EXCEPT ![i] = next] /\ UNCHANGED faults
  \/ drain' = [drain EXCEPT ![i] = At(i, "fail")] /\ FaultHappens

\* settle: the report of a drain that failed.
Failed(i) == [loop[i] EXCEPT !.backoff = TRUE, !.retry = TRUE]

\* FOR UPDATE SKIP LOCKED: a claim that meets the transaction that gives the
\* consumer back counts it as held, finds nobody's expiry, and schedules no
\* retry.
SkippedMeanwhile(i) ==
  SUBSET {j \in Instances \ {i} : drain[j].pc = "idle" /\ loop[j].wake /\ ~loop[j].backoff}

AfterRelease(i, own) ==
  \E skipped \in SkippedMeanwhile(i) :
    loop' = [j \in Instances |->
               IF j = i THEN own
               ELSE IF j \in skipped THEN [loop[j] EXCEPT !.wake = FALSE]
               ELSE loop[j]]

StartDrain(i) ==
  /\ drain[i].pc = "idle" /\ loop[i].wake
  /\ UNCHANGED <<tx, journal, horizon, applied>>

\* plugin_changes.claim, granted.
Claim(i) ==
  /\ StartDrain(i)
  /\ ~loop[i].backoff
  /\ Claimable(i)
  /\ row' = ClaimedBy(RegisteredRow, i)
  /\ drain' = [drain EXCEPT ![i].pc = IF row'.pending THEN "rebuild" ELSE "poll"]
  /\ loop' = [loop EXCEPT ![i].wake = FALSE]
  /\ UNCHANGED faults

\* Mutant of ClaimSkips: no retry is scheduled.
ClaimSkipsForGood(i) ==
  /\ StartDrain(i)
  /\ ~loop[i].backoff
  /\ ~Claimable(i)
  /\ loop' = [loop EXCEPT ![i].wake = FALSE]
  /\ UNCHANGED <<row, drain, faults>>

\* plugin_changes.claim, held by another: retry when its claim lapses.
ClaimSkips(i) ==
  /\ StartDrain(i)
  /\ ~loop[i].backoff
  /\ ~Claimable(i)
  /\ loop' = [loop EXCEPT ![i].wake = FALSE, ![i].retry = TRUE]
  /\ UNCHANGED <<row, drain, faults>>

\* The claim failed: nothing is claimed, nothing to release.
ClaimFails(i) ==
  /\ StartDrain(i)
  /\ ~loop[i].backoff
  /\ FaultHappens
  /\ loop' = [loop EXCEPT ![i] = [Failed(i) EXCEPT !.wake = FALSE]]
  /\ UNCHANGED <<row, drain>>

\* isWaiting: the consumer is left out of this round, the timer runs on.
DrainWaits(i) ==
  /\ StartDrain(i)
  /\ loop[i].backoff
  /\ loop' = [loop EXCEPT ![i].wake = FALSE, ![i].retry = TRUE]
  /\ UNCHANGED <<row, drain, faults>>

\* The plugin's rebuild derives everything from the source.
Rebuild(i) ==
  /\ drain[i].pc = "rebuild"
  /\ applied' = applied \cup Committed(tx)
  /\ Proceed(i, IF drain[i].lost THEN At(i, "fail") ELSE To(i, "finish"))
  /\ UNCHANGED <<tx, journal, horizon, row, loop>>

FinishRebuild(i) ==
  /\ drain[i].pc = "finish"
  /\ ClaimHeld(i)
  /\ row' = [row EXCEPT !.pending = FALSE]
  /\ Proceed(i, To(i, IF drain[i].index = MaxBatches THEN "leave" ELSE "poll"))
  /\ UNCHANGED <<tx, journal, horizon, applied, loop>>

Poll(i) ==
  /\ drain[i].pc = "poll"
  /\ ~PassedByGC(row.cursor)
  /\ Proceed(i, [drain[i] EXCEPT !.pc = IF Page = {} THEN "commit" ELSE "dispatch",
                                 !.todo = Page, !.token = PolledToken])
  /\ UNCHANGED <<tx, journal, horizon, row, applied, loop>>

PollNeedsRebuild(i) ==
  /\ drain[i].pc = "poll"
  /\ PassedByGC(row.cursor)
  /\ Proceed(i, [drain[i] EXCEPT !.pc = "begin", !.index = @ + 1])
  /\ UNCHANGED <<tx, journal, horizon, row, applied, loop>>

\* beginConsumerRebuild: the cursor moves to "now" before the rebuild reads.
\* It is the one update of the row that is not fenced by the claim.
BeginRebuild(i) ==
  /\ drain[i].pc = "begin"
  /\ row' = [row EXCEPT !.cursor = CurrentSnapshot(tx), !.target = NoSnapshot, !.after = 0,
                        !.pending = TRUE]
  /\ Proceed(i, To(i, "rebuild"))
  /\ UNCHANGED <<tx, journal, horizon, applied, loop>>

\* The changes of one branch are one dispatch.
Dispatch(i) ==
  /\ drain[i].pc = "dispatch"
  /\ \E group \in SUBSET drain[i].todo \ {{}} :
       /\ applied' = applied \cup group
       /\ Proceed(i, IF drain[i].lost THEN At(i, "fail")
                     ELSE [drain[i] EXCEPT !.todo = @ \ group,
                                           !.pc = IF group = drain[i].todo THEN "commit" ELSE @])
  /\ UNCHANGED <<tx, journal, horizon, row, loop>>

LastBatch(i) == drain[i].token.target = NoSnapshot \/ drain[i].index = MaxBatches - 1

StoredToken(i) ==
  [row EXCEPT !.cursor = drain[i].token.cursor, !.target = drain[i].token.target,
              !.after = drain[i].token.after]

\* commitChanges of a page with more to come in this drain.
CommitBatch(i) ==
  /\ drain[i].pc = "commit"
  /\ Committable(i)
  /\ ~LastBatch(i)
  /\ row' = StoredToken(i)
  /\ Proceed(i, [drain[i] EXCEPT !.pc = "reclaim", !.index = @ + 1, !.token = NoToken])
  /\ UNCHANGED <<tx, journal, horizon, applied, loop>>

\* commitChanges and releaseConsumer of the last page, in one transaction.
CommitLastBatch(i) ==
  /\ drain[i].pc = "commit"
  /\ Committable(i)
  /\ LastBatch(i)
  /\ row' = ReleasedBy(StoredToken(i), i)
  /\ \/ /\ drain' = [drain EXCEPT ![i] = At(i, "idle")]
        /\ AfterRelease(i, [loop[i] EXCEPT !.wake = @ \/ drain[i].token.target # NoSnapshot,
                                           !.backoff = FALSE])
        /\ UNCHANGED faults
     \/ /\ drain' = [drain EXCEPT ![i] = At(i, "fail")]
        /\ FaultHappens
        /\ UNCHANGED loop
  /\ UNCHANGED <<tx, journal, horizon, applied>>

\* The claim between two pages; its answer is not looked at.
Reclaim(i) ==
  /\ drain[i].pc = "reclaim"
  /\ row' = Renewed(i)
  /\ Proceed(i, To(i, "poll"))
  /\ UNCHANGED <<tx, journal, horizon, applied, loop>>

\* A commit or a finish that the fence refuses, an operation that throws.
Refused(i) ==
  \/ drain[i].pc = "finish" /\ ~ClaimHeld(i)
  \/ drain[i].pc = "commit" /\ ~Committable(i)

StepFails(i) ==
  /\ \/ Refused(i) /\ UNCHANGED faults
     \/ /\ drain[i].pc \in {"rebuild", "finish", "poll", "begin", "dispatch", "commit", "reclaim"}
        /\ ~Refused(i)
        /\ FaultHappens
  /\ drain' = [drain EXCEPT ![i] = At(i, "fail")]
  /\ UNCHANGED <<tx, journal, horizon, row, applied, loop>>

\* The release in drainOne's finally; it may fail, which is only logged.
Release(i) ==
  /\ drain[i].pc \in {"fail", "leave"}
  /\ \/ row' = ReleasedBy(row, i) /\ UNCHANGED faults
     \/ row' = row /\ FaultHappens
  /\ drain' = [drain EXCEPT ![i] = At(i, "idle")]
  /\ AfterRelease(i, IF drain[i].pc = "fail" THEN Failed(i)
                     ELSE [loop[i] EXCEPT !.backoff = FALSE])
  /\ UNCHANGED <<tx, journal, horizon, applied>>

-------------------------------------------------------------------------------
(* keepingClaim: the claim is renewed while the plugin's operation runs.  A
   renewal is not cancelled when the operation ends: a slow one lands later. *)

RenewalLost(i) == ~Claimable(i) /\ drain[i].pc \in {"dispatch", "rebuild"}

Renew(i) ==
  /\ drain[i].pc \in {"dispatch", "rebuild"}
  /\ row' = Renewed(i)
  /\ drain' = [drain EXCEPT ![i].lost = @ \/ RenewalLost(i)]
  /\ UNCHANGED <<tx, journal, horizon, applied, loop, faults>>

RenewalIsSlow(i) ==
  /\ drain[i].pc \in {"dispatch", "rebuild"}
  /\ ~drain[i].beat
  /\ FaultHappens
  /\ drain' = [drain EXCEPT ![i].beat = TRUE]
  /\ UNCHANGED <<tx, journal, horizon, row, applied, loop>>

\* It extends the claim, takes a free one, or finds it lost.
RenewalLands(i) ==
  /\ drain[i].beat
  /\ row' = Renewed(i)
  /\ drain' = [drain EXCEPT ![i].beat = FALSE, ![i].lost = @ \/ RenewalLost(i)]
  /\ UNCHANGED <<tx, journal, horizon, applied, loop, faults>>

-------------------------------------------------------------------------------
(* The wake-up loop and the database's clock *)

LoseListen(i) ==
  /\ loop[i].listening
  /\ FaultHappens
  /\ loop' = [loop EXCEPT ![i].listening = FALSE]
  /\ UNCHANGED <<tx, journal, horizon, row, applied, drain>>

\* onListen of a reconnect wakes the loop.
Relisten(i) ==
  /\ drain[i].pc # "dead"
  /\ ~loop[i].listening
  /\ loop' = [loop EXCEPT ![i].listening = TRUE, ![i].wake = TRUE]
  /\ UNCHANGED <<tx, journal, horizon, row, applied, drain, faults>>

BackoffEnds(i) ==
  /\ loop[i].backoff
  /\ drain[i].pc = "idle"
  /\ loop' = [loop EXCEPT ![i].backoff = FALSE]
  /\ UNCHANGED <<tx, journal, horizon, row, applied, drain, faults>>

\* scheduleRetry's timer.  It is set for after the lapse of the claim that
\* was met, which a renewal may have moved since.
RetryFires(i) ==
  /\ loop[i].retry
  /\ loop' = [loop EXCEPT ![i].retry = FALSE, ![i].wake = TRUE]
  /\ UNCHANGED <<tx, journal, horizon, row, applied, drain, faults>>

Working(i) == drain[i].pc \notin {"idle", "dead"}

\* The rebuild that garbage collection forces is due or under way.
RebuildForced == Registered /\ horizon > 0 /\ (row.pending \/ PassedByGC(row.cursor))

\* The claim's lease runs out, under an instance that works only as a fault.
ClaimLapses ==
  /\ row.holder # NoOne
  /\ row.unexpired
  /\ IF row.holder \in Instances /\ Working(row.holder)
     THEN (LateRebuilds \/ ~RebuildForced) /\ FaultHappens
     ELSE UNCHANGED faults
  /\ row' = [row EXCEPT !.unexpired = FALSE]
  /\ UNCHANGED <<tx, journal, horizon, applied, drain, loop>>

Stray == {i \in Instances : Working(i) /\ ~ClaimHeld(i)}

\* Its claim stays until it lapses; the next process has another id.
Die(i) ==
  /\ drain[i].pc # "dead"
  /\ FaultHappens
  /\ row' = [row EXCEPT !.holder = IF @ = i THEN Departed ELSE @]
  /\ drain' = [drain EXCEPT ![i] = [NoDrain EXCEPT !.pc = "dead"]]
  /\ loop' = [loop EXCEPT ![i] = [Woken EXCEPT !.wake = FALSE, !.listening = FALSE]]
  /\ UNCHANGED <<tx, journal, horizon, applied>>

Restart(i) ==
  /\ drain[i].pc = "dead"
  /\ drain' = [drain EXCEPT ![i] = NoDrain]
  /\ loop' = [loop EXCEPT ![i] = Woken]
  /\ UNCHANGED <<tx, journal, horizon, row, applied, faults>>

-------------------------------------------------------------------------------
(* Garbage collection *)

Undelivered(cursor) == {x \in journal : x >= Xmin(cursor) /\ ~Visible(x, cursor)}

\* A consumer whose oldest undelivered row is past the stall window holds
\* nothing back; the rows past the window are among those past retention.
Stalled(old) == Undelivered(row.cursor) # {} /\ Min(Undelivered(row.cursor)) \in old

\* collectJournalGarbage: old are the rows past the retention window.
Victims(old, stalled) ==
  {x \in old : /\ x < Xmin(CurrentSnapshot(tx))
               /\ ~(Registered /\ ~stalled /\ x >= Xmin(row.cursor))}

CollectGarbage ==
  \E old \in SUBSET journal, stalled \in BOOLEAN :
    /\ stalled => Registered /\ Stalled(old)
    /\ Victims(old, stalled) # {}
    /\ stalled => LateRebuilds \/ Stray = {}
    /\ journal' = journal \ Victims(old, stalled)
    /\ horizon' = Max({horizon} \cup Victims(old, stalled))
    /\ UNCHANGED <<tx, row, applied, drain, loop, faults>>

-------------------------------------------------------------------------------

Drain(i) ==
  \/ Claim(i) \/ ClaimSkips(i) \/ DrainWaits(i)
  \/ Rebuild(i) \/ FinishRebuild(i)
  \/ Poll(i) \/ PollNeedsRebuild(i) \/ BeginRebuild(i)
  \/ Dispatch(i) \/ CommitBatch(i) \/ CommitLastBatch(i) \/ Reclaim(i)
  \/ StepFails(i) \/ Release(i)

Loop(i) ==
  \/ Relisten(i) \/ BackoffEnds(i) \/ RetryFires(i) \/ Restart(i)
  \/ Renew(i) \/ RenewalLands(i)

Faults(i) == ClaimFails(i) \/ LoseListen(i) \/ Die(i) \/ RenewalIsSlow(i)

Next ==
  \/ \E x \in Xids : Begin(x) \/ Commit(x) \/ Abort(x)
  \/ \E i \in Instances : Drain(i) \/ Loop(i) \/ Faults(i)
  \/ ClaimLapses
  \/ CollectGarbage

Spec == Init /\ [][Next]_vars

FairSpec ==
  /\ Spec
  /\ \A i \in Instances :
       /\ WF_vars(Drain(i))
       /\ WF_vars(Relisten(i)) /\ WF_vars(BackoffEnds(i)) /\ WF_vars(RetryFires(i))
       /\ WF_vars(Restart(i)) /\ WF_vars(RenewalLands(i))
  /\ WF_vars(ClaimLapses)

-------------------------------------------------------------------------------
(* Properties *)

\* The changes the consumer will still be given: with a rebuild due, all.
Owed ==
  IF ~Registered \/ row.pending \/ PassedByGC(row.cursor) THEN Committed(tx)
  ELSE {x \in journal : /\ ~Visible(x, row.cursor)
                        /\ row.target # NoSnapshot => ~Visible(x, row.target) \/ x > row.after}

Delivery == INSTANCE ChangeDelivery
              WITH Changes <- Xids, committed <- Committed(tx), owed <- Owed

\* The journal delivers at least once: whatever the cursor passes, a page
\* or a garbage collection removes, or a finished rebuild settles is in the
\* consumer's derived state already (change-journal.ts, "Cursor semantics",
\* "Retention").
DeliversAtLeastOnce == Delivery!Spec

\* A continuous cursor (consumerCursorContinuous): every change so far is
\* reflected or waits in the journal.
ContinuousIsComplete ==
  Registered /\ ~row.pending /\ ~PassedByGC(row.cursor)
    => Committed(tx) \ applied \subseteq {x \in journal : ~Visible(x, row.cursor)}

\* Every committed change reaches the plugin, also when its notification is
\* lost, its holder dies or another instance skipped it.
EveryChangeApplied == \A x \in Xids : tx[x] = "committed" ~> x \in applied
===============================================================================
