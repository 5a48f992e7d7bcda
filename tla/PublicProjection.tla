--------------------------- MODULE PublicProjection ---------------------------
(***************************************************************************)
(* The published projection of cms_admin in the two public databases       *)
(* (packages/migrations/src/public-projection.ts, admin-core's             *)
(* createPublicProjectionPublisher, the adapter's publish after commit and *)
(* the triggers of migration 0281).  A write leaves an outbox row; the     *)
(* writing process drains the outbox before its call returns, drains       *)
(* coalesce, publishers of all processes take turns by an advisory lock,   *)
(* and a tick drains what a failure or a crash left.                       *)
(*                                                                         *)
(* Published content is the set of writes it reflects.  A key is what is   *)
(* republished as a whole: a section, or one comment.                      *)
(***************************************************************************)
EXTENDS Naturals, FiniteSets, SequencesExt

CONSTANTS Processes,   \* admin processes
          NoOne,       \* nobody holds the projection lock
          NoKey,       \* of a write that has not begun
          MaxWrites,   \* bound: writes, by the outbox id they draw
          Home,        \* the process that runs each write
          Changes,     \* the keys each write may change
          FullKeys,    \* ALL_SECTIONS: the keys a full publish covers
          HeldBy,      \* the keys each public database holds
          Batch,       \* OUTBOX_BATCH
          MaxFaults,   \* bound: crashes, failed steps, lost connections
          LostLocks    \* the database may end an idle publisher's transaction

Writes == 1..MaxWrites

\* PUBLIC_TARGETS.
Targets == {"live", "staging"}

ASSUME ProjectionAssumption ==
  /\ NoOne \notin Processes
  /\ MaxWrites \in Nat /\ MaxFaults \in Nat
  /\ Batch \in Nat /\ Batch > 0
  /\ Home \in [Writes -> Processes]
  /\ DOMAIN Changes = Writes /\ DOMAIN HeldBy = Targets
  /\ LostLocks \in BOOLEAN

VARIABLES call,      \* the writing calls: their transaction, then their wait
          key,       \* the key each write changes
          outbox,    \* public_projection_outbox: the committed rows
          public,    \* what each public database holds
          lock,      \* the advisory lock of the publishers
          queue,     \* per process: waitingDrain and waitingFull, in order
          job,       \* per process: the publish that runs
          due,       \* per process: fullPublishDue
          faults

vars == <<call, key, outbox, public, lock, queue, job, due, faults>>

CallStates == {"none", "open", "rolledback", "committed", "queued", "running",
               "published", "failed"}

Steps == {"idle", "dead", "lock", "outbox", "snapshot", "live", "staging", "consume"}

Keys == FullKeys \cup UNION Range(Changes)

NoJob == [pc |-> "idle", kind |-> "drain", ids |-> {}, keys |-> {}, content |-> {}]

TypeOK ==
  /\ call \in [Writes -> CallStates]
  /\ key \in [Writes -> Keys \cup {NoKey}]
  /\ outbox \subseteq Writes
  /\ public \in [Targets -> SUBSET Writes]
  /\ lock \in Processes \cup {NoOne}
  /\ queue \in [Processes -> {<<>>, <<"drain">>, <<"full">>, <<"drain", "full">>,
                              <<"full", "drain">>}]
  /\ job \in [Processes -> [pc : Steps, kind : {"drain", "full"}, ids : SUBSET Writes,
                            keys : SUBSET Keys,
                            content : SUBSET Writes]]
  /\ due \in [Processes -> BOOLEAN]
  /\ faults \in 0..MaxFaults

\* The processes have booted and published everything.
Init ==
  /\ call = [w \in Writes |-> "none"]
  /\ key = [w \in Writes |-> NoKey]
  /\ outbox = {}
  /\ public = [t \in Targets |-> {}]
  /\ lock = NoOne
  /\ queue = [p \in Processes |-> <<>>]
  /\ job = [p \in Processes |-> NoJob]
  /\ due = [p \in Processes |-> FALSE]
  /\ faults = 0

FaultHappens == faults < MaxFaults /\ faults' = faults + 1

Alive(p) == job[p].pc # "dead"

Committed == {w \in Writes : call[w] \notin {"none", "open", "rolledback"}}

Of(writes, keys) == {w \in writes : key[w] \in keys}

-------------------------------------------------------------------------------
(* The writing call *)

\* The trigger draws the outbox id when it inserts the row.
Begin(w) ==
  /\ call[w] = "none" /\ Alive(Home[w])
  /\ \A v \in 1..(w - 1) : call[v] # "none"
  /\ call' = [call EXCEPT ![w] = "open"]
  /\ \E k \in Changes[w] : key' = [key EXCEPT ![w] = k]
  /\ UNCHANGED <<outbox, public, lock, queue, job, due, faults>>

\* The row is visible with the commit.
Commit(w) ==
  /\ call[w] = "open"
  /\ call' = [call EXCEPT ![w] = "committed"]
  /\ outbox' = outbox \cup {w}
  /\ UNCHANGED <<key, public, lock, queue, job, due, faults>>

Abort(w) ==
  /\ call[w] = "open"
  /\ call' = [call EXCEPT ![w] = "rolledback"]
  /\ UNCHANGED <<key, outbox, public, lock, queue, job, due, faults>>

Waiting(p, kind) == Contains(queue[p], kind)

\* Mutant of Enqueued: nothing is joined.
EnqueuedAlways(p, kind) == [queue EXCEPT ![p] = Append(@, kind)]

\* enqueue, unless one of the kind waits to start.
Enqueued(p, kind) == IF Waiting(p, kind) THEN queue ELSE [queue EXCEPT ![p] = Append(@, kind)]

\* Mutant of AskForDrain: a drain that runs is joined too.
AskForDrainRunning(w) ==
  /\ call[w] = "committed"
  /\ IF job[Home[w]].kind = "drain" /\ job[Home[w]].pc # "idle"
     THEN call' = [call EXCEPT ![w] = "running"] /\ UNCHANGED queue
     ELSE call' = [call EXCEPT ![w] = "queued"] /\ queue' = Enqueued(Home[w], "drain")
  /\ UNCHANGED <<key, outbox, public, lock, job, due, faults>>

\* #publishAfterCommit: the call waits for the drain that waits to start.
AskForDrain(w) ==
  /\ call[w] = "committed"
  /\ call' = [call EXCEPT ![w] = "queued"]
  /\ queue' = Enqueued(Home[w], "drain")
  /\ UNCHANGED <<key, outbox, public, lock, job, due, faults>>

\* The scheduler's backstop task.
Backstop(p) ==
  /\ Alive(p)
  /\ queue' = Enqueued(p, IF due[p] THEN "full" ELSE "drain")
  /\ queue' # queue
  /\ UNCHANGED <<key, call, outbox, public, lock, job, due, faults>>

-------------------------------------------------------------------------------
(* A publish *)

\* The calls that wait for the publish that runs get their answer.
Answered(p, answer) ==
  [w \in Writes |-> IF call[w] = "running" /\ Home[w] = p THEN answer ELSE call[w]]

\* Mutant of Unlocked: a session's lock, which outlives the transaction.
UnlockedNever(p) == lock

\* The advisory lock ends with the admin transaction.
Unlocked(p) == IF lock = p THEN NoOne ELSE lock

\* The publish ended: its admin transaction and with it the lock are gone.
Ends(p, answer, stillDue) ==
  /\ call' = Answered(p, answer)
  /\ lock' = Unlocked(p)
  /\ job' = [job EXCEPT ![p] = NoJob]
  /\ due' = IF job[p].kind = "full" THEN [due EXCEPT ![p] = stillDue] ELSE due

Succeeds(p) == Ends(p, "published", FALSE)
Fails(p) == Ends(p, "failed", TRUE)

StartJob(p) ==
  /\ job[p].pc = "idle" /\ queue[p] # <<>>
  /\ job' = [job EXCEPT ![p] = [NoJob EXCEPT !.pc = "lock", !.kind = Head(queue[p])]]
  /\ queue' = [queue EXCEPT ![p] = Tail(@)]
  /\ call' = IF Head(queue[p]) = "drain"
             THEN [w \in Writes |-> IF call[w] = "queued" /\ Home[w] = p THEN "running"
                                    ELSE call[w]]
             ELSE call
  /\ UNCHANGED <<key, outbox, public, lock, due, faults>>

\* Mutant of LockFree: the lock is not asked for.
LockFreeAlways == TRUE

\* With LostLocks, idle_in_transaction_session_timeout (migration 0392) ends
\* the admin transaction of a publisher that waits for a public database, and
\* the lock with it.
LockFree == lock = NoOne \/ (LostLocks /\ lock # NoOne /\ job[lock].pc \in Targets)

TakeLock(p) ==
  /\ job[p].pc = "lock" /\ LockFree
  /\ lock' = p
  /\ job' = [job EXCEPT ![p].pc = "outbox"]
  /\ UNCHANGED <<key, call, outbox, public, queue, due, faults>>

\* ProjectionBusyError: another publisher held the lock for the whole wait.
Busy(p) ==
  /\ job[p].pc = "lock" /\ lock # NoOne
  /\ Fails(p)
  /\ UNCHANGED <<key, outbox, public, queue, faults>>

Oldest(n, ids) == {w \in ids : Cardinality({v \in ids : v < w}) < n}

\* readOutbox.  A key no public database holds is only consumed.
KeysToPublish(p, ids) ==
  ({key[w] : w \in ids} \cup (IF job[p].kind = "full" THEN FullKeys ELSE {}))
    \cap UNION {HeldBy[t] : t \in Targets}

ReadOutbox(p) ==
  /\ job[p].pc = "outbox"
  /\ LET ids  == Oldest(Batch, outbox)
         keys == KeysToPublish(p, ids)
     IN  job' = [job EXCEPT ![p].ids = ids, ![p].keys = keys,
                            ![p].pc = IF keys = {} THEN "consume" ELSE "snapshot"]
  /\ UNCHANGED <<key, call, outbox, public, lock, queue, due, faults>>

\* readSnapshot: later statements of the same transaction see what committed
\* meanwhile.
ReadSnapshot(p) ==
  /\ job[p].pc = "snapshot"
  /\ job' = [job EXCEPT ![p].content = Of(Committed, job[p].keys), ![p].pc = "live"]
  /\ UNCHANGED <<key, call, outbox, public, lock, queue, due, faults>>

\* writeSnapshot: what target t holds once the publish of p wrote it.
Written(p, t) ==
  {w \in public[t] : key[w] \notin job[p].keys} \cup Of(job[p].content, HeldBy[t])

\* writeAll: live, then staging, each in a transaction of its own.  When the
\* answer to its commit is lost, the publish failed.
WritePublic(p, t) ==
  /\ job[p].pc = t
  /\ public' = [public EXCEPT ![t] = Written(p, t)]
  /\ \/ /\ job' = [job EXCEPT ![p].pc = IF t = "live" THEN "staging" ELSE "consume"]
        /\ UNCHANGED <<call, lock, due, faults>>
     \/ Fails(p) /\ FaultHappens
  /\ UNCHANGED <<key, outbox, queue>>

\* Mutant of Consumed: everything up to the newest id read.
ConsumedRange(p) == {w \in outbox : \E v \in job[p].ids : w <= v}

\* consumeOutbox: the ids that were read.
Consumed(p) == outbox \cap job[p].ids

\* consumeOutbox and the commit of the admin transaction, if it still stands.
Consume(p) ==
  /\ job[p].pc = "consume"
  /\ outbox' = IF lock = p THEN outbox \ Consumed(p) ELSE outbox
  /\ \/ lock = p /\ Succeeds(p) /\ UNCHANGED faults
     \/ Fails(p) /\ (IF lock = p THEN FaultHappens ELSE UNCHANGED faults)
  /\ UNCHANGED <<key, public, queue>>

\* A step fails: the admin transaction rolls back.
StepFails(p) ==
  /\ job[p].pc \notin {"idle", "dead"}
  /\ FaultHappens
  /\ Fails(p)
  /\ UNCHANGED <<key, outbox, public, queue>>

Die(p) ==
  /\ Alive(p)
  /\ FaultHappens
  /\ call' = [w \in Writes |->
                IF Home[w] # p THEN call[w]
                ELSE IF call[w] = "open" THEN "rolledback"
                ELSE IF call[w] \in {"committed", "queued", "running"} THEN "failed"
                ELSE call[w]]
  /\ lock' = Unlocked(p)
  /\ queue' = [queue EXCEPT ![p] = <<>>]
  /\ job' = [job EXCEPT ![p] = [NoJob EXCEPT !.pc = "dead"]]
  /\ due' = [due EXCEPT ![p] = FALSE]
  /\ UNCHANGED <<key, outbox, public>>

\* Boot publishes everything.
Restart(p) ==
  /\ ~Alive(p)
  /\ job' = [job EXCEPT ![p] = NoJob]
  /\ queue' = [queue EXCEPT ![p] = <<"full">>]
  /\ UNCHANGED <<key, call, outbox, public, lock, due, faults>>

-------------------------------------------------------------------------------

PublishSteps(p) ==
  \/ StartJob(p) \/ TakeLock(p) \/ Busy(p) \/ ReadOutbox(p) \/ ReadSnapshot(p)
  \/ WritePublic(p, "live") \/ WritePublic(p, "staging") \/ Consume(p)

Next ==
  \/ \E w \in Writes : Begin(w) \/ Commit(w) \/ Abort(w) \/ AskForDrain(w)
  \/ \E p \in Processes :
       Backstop(p) \/ PublishSteps(p) \/ StepFails(p) \/ Die(p) \/ Restart(p)

Spec == Init /\ [][Next]_vars

\* A process's steps go on, a dead process is started again, and the scheduler's
\* task, which any process may claim, keeps being run by one of them.
Fairness ==
  /\ \A w \in Writes : WF_vars(AskForDrain(w))
  /\ \A p \in Processes :
       WF_vars(PublishSteps(p)) /\ WF_vars(Restart(p))
  /\ WF_vars(\E p \in Processes : Backstop(p))

FairSpec == Spec /\ Fairness

-------------------------------------------------------------------------------

Published(w) == \A t \in Targets : key[w] \in HeldBy[t] => w \in public[t]

\* A call that returned without an error finds its change in both public
\* databases: the drain it joined had not started, so it read the outbox after
\* the call's commit (createPublicProjectionPublisher's coalescing, the
\* adapter's publish after commit).
ReturnedIsPublished == \A w \in Writes : call[w] = "published" => Published(w)

\* A committed change is in every public database it belongs to, or its outbox
\* row still waits for a drain (consumeOutbox by the ids that were read, with
\* ids drawn before the commit that shows them).
NothingForgotten == \A w \in Committed : Published(w) \/ w \in outbox

\* No publish takes back what an earlier one published: publishers take turns
\* across the read and both public writes (withProjectionLock).
PublicMovesForward == [][\A t \in Targets : public[t] \subseteq public'[t]]_vars

\* Every committed change is published in the end, whatever failed or died in
\* between (the backstop and the boot publish).
EveryChangePublished == \A w \in Writes : (w \in Committed) ~> Published(w)

===============================================================================
