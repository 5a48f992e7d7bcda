------------------------ MODULE PublicProjectionProofs ------------------------
(***************************************************************************)
(* Proofs about PublicProjection.tla, for any number of processes, writes, *)
(* keys and faults, any batch size and whatever each database holds, while *)
(* the database does not end a publisher's admin transaction (LostLocks).  *)
(***************************************************************************)
EXTENDS PublicProjection, SequenceTheorems, FiniteSetTheorems, TLAPS

Job == [pc : Steps, kind : {"drain", "full"}, ids : SUBSET Writes,
        keys : SUBSET Keys, content : SUBSET Writes]

\* What the coalescing can leave waiting: at most one publish of each kind.
Queues == {<<>>, <<"drain">>, <<"full">>, <<"drain", "full">>, <<"full", "drain">>}

\* The types, with what ties them together: a row waits only for a committed
\* write, and a write that has begun has a key.
Shape ==
  /\ call \in [Writes -> CallStates]
  /\ key \in [Writes -> Keys \cup {NoKey}]
  /\ \A w \in Writes : call[w] # "none" => key[w] \in Keys
  /\ outbox \subseteq Committed
  /\ public \in [Targets -> SUBSET Writes]
  /\ lock \in Processes \cup {NoOne}
  /\ queue \in [Processes -> Queues]
  /\ job \in [Processes -> Job]
  /\ due \in [Processes -> BOOLEAN]
  /\ faults \in 0..MaxFaults

\* What is published was committed, where it belongs.
PublicSound == \A t \in Targets : public[t] \subseteq Of(Committed, HeldBy[t])

Under(p) == job[p].pc \in {"outbox", "snapshot", "live", "staging", "consume"}

\* withProjectionLock: a publisher past the lock holds it.
LockHeld == \A p \in Processes : Under(p) => lock = p

\* The rows that were read wait in the outbox, and their keys are published.
BatchSound ==
  \A p \in Processes : job[p].pc \in {"snapshot", "live", "staging", "consume"} =>
    /\ job[p].ids \subseteq outbox
    /\ \A w \in job[p].ids, t \in Targets : key[w] \in HeldBy[t] => key[w] \in job[p].keys

\* The content that was read covers the batch and everything published.
ContentSound ==
  \A p \in Processes : job[p].pc \in {"live", "staging"} =>
    /\ \A w \in job[p].content : w \in Committed /\ key[w] \in job[p].keys
    /\ \A w \in job[p].ids : key[w] \in job[p].keys => w \in job[p].content
    /\ \A t \in Targets : \A w \in public[t] : key[w] \in job[p].keys => w \in job[p].content

\* The targets that were written hold the batch.
WrittenSound ==
  \A p \in Processes, t \in Targets :
    job[p].pc = "consume" \/ (job[p].pc = "staging" /\ t = "live") =>
      \A w \in job[p].ids : key[w] \in HeldBy[t] => w \in public[t]

IInv == Shape /\ PublicSound /\ LockHeld /\ BatchSound /\ ContentSound /\ WrittenSound
        /\ NothingForgotten
-------------------------------------------------------------------------------

\* A process that does nothing has a job's type (createPublicProjectionPublisher).
LEMMA NoJobType ==
  /\ NoJob \in Job /\ NoJob.pc = "idle"
  /\ [NoJob EXCEPT !.pc = "dead"] \in Job
  /\ [NoJob EXCEPT !.pc = "dead"].pc = "dead"
  BY DEF NoJob, Job, Steps

\* A fault is counted within its bound.
LEMMA FaultType ==
  ASSUME faults \in 0..MaxFaults, FaultHappens \/ UNCHANGED faults
  PROVE  faults' \in 0..MaxFaults
  BY ProjectionAssumption DEF FaultHappens

Early == {"idle", "dead", "lock", "outbox"}

\* A step that takes no job further than the outbox keeps the invariant if
\* what leaves the outbox is published, and a step that publishes or consumes
\* leaves no other publisher past the outbox.
LEMMA Frame ==
  ASSUME IInv, Shape', LockHeld', PublicSound',
         \A w \in Committed : w \in Committed' /\ key'[w] = key[w],
         \A w \in Committed' : w \in Committed \/ w \in outbox',
         \A w \in outbox : w \in outbox' \/ Published(w),
         \A t \in Targets : public[t] \subseteq public'[t],
         \/ public' = public /\ outbox \subseteq outbox'
         \/ \A p \in Processes : job'[p].pc \in Early,
         \A p \in Processes : job'[p] = job[p] \/ job'[p].pc \in Early
  PROVE  IInv'
<1> USE DEF IInv, Early
<1>0. outbox \subseteq Committed /\ \A p \in Processes : job[p] \in Job
  BY DEF Shape
<1>1. BatchSound' /\ ContentSound' /\ WrittenSound'
  <2>1. CASE \A p \in Processes : job'[p].pc \in Early
    BY <2>1 DEF BatchSound, ContentSound, WrittenSound
  <2>2. CASE public' = public /\ outbox \subseteq outbox'
    <3>1. BatchSound'
      BY <1>0, <2>2 DEF BatchSound
    <3>2. \A t \in Targets : public[t] \subseteq Committed
      BY DEF PublicSound, Of
    <3>3. ContentSound'
      <4> SUFFICES ASSUME NEW p \in Processes, job'[p].pc \in {"live", "staging"}
                   PROVE  /\ \A w \in job'[p].content :
                               w \in Committed' /\ key'[w] \in job'[p].keys
                          /\ \A w \in job'[p].ids :
                               key'[w] \in job'[p].keys => w \in job'[p].content
                          /\ \A t \in Targets : \A w \in public'[t] :
                               key'[w] \in job'[p].keys => w \in job'[p].content
        BY DEF ContentSound
      <4>1. job'[p] = job[p]
        OBVIOUS
      <4>2. job[p].ids \subseteq Committed
        BY <1>0, <4>1 DEF BatchSound
      <4>3. QED
        BY <2>2, <3>2, <4>1, <4>2 DEF ContentSound
    <3>4. WrittenSound'
      <4> SUFFICES ASSUME NEW p \in Processes, NEW t \in Targets,
                          job'[p].pc = "consume" \/ (job'[p].pc = "staging" /\ t = "live"),
                          NEW w \in job'[p].ids, key'[w] \in HeldBy[t]
                   PROVE  w \in public'[t]
        BY DEF WrittenSound
      <4>1. job'[p] = job[p]
        OBVIOUS
      <4>2. w \in Committed
        BY <1>0, <4>1 DEF BatchSound
      <4>3. QED
        BY <2>2, <4>1, <4>2 DEF WrittenSound
    <3>5. QED
      BY <3>1, <3>3, <3>4
  <2>3. QED
    BY <2>1, <2>2
<1>2. NothingForgotten'
  BY DEF NothingForgotten, Published
<1>3. QED
  BY <1>1, <1>2

\* The answer to the waiting calls leaves them committed
\* (DatabaseAdapter.#publishAfterCommit).
LEMMA AnswersKeepCommitted ==
  ASSUME Shape, NEW p \in Processes, NEW answer \in {"published", "failed"},
         call' = Answered(p, answer)
  PROVE  call' \in [Writes -> CallStates] /\ Committed' = Committed
  BY DEF Shape, Answered, Committed, CallStates

\* The end of a publish, however it ends, keeps the invariant, also when the
\* step that ends it published or consumed (createPublicProjectionPublisher).
LEMMA EndKeepsInv ==
  ASSUME IInv, NEW p \in Processes, NEW answer \in {"published", "failed"}, NEW d \in BOOLEAN,
         Ends(p, answer, d), UNCHANGED <<key, queue>>,
         outbox' \subseteq outbox, public' \in [Targets -> SUBSET Writes], PublicSound',
         \A w \in outbox : w \in outbox' \/ Published(w),
         \A t \in Targets : public[t] \subseteq public'[t],
         (public' = public /\ outbox' = outbox) \/ Under(p),
         FaultHappens \/ UNCHANGED faults
  PROVE  IInv'
<1> USE DEF IInv
<1>1. call' \in [Writes -> CallStates] /\ Committed' = Committed
  BY AnswersKeepCommitted DEF Ends
<1>2. job' = [job EXCEPT ![p] = NoJob] /\ lock' = IF lock = p THEN NoOne ELSE lock
  BY DEF Ends, Unlocked
<1>3. Shape'
  <2>1. faults' \in 0..MaxFaults /\ due' \in [Processes -> BOOLEAN]
    <3>1. faults' \in 0..MaxFaults
      BY FaultType DEF Shape
    <3>2. due' \in [Processes -> BOOLEAN]
      BY DEF Ends, Shape
    <3>3. QED
      BY <3>1, <3>2
  <2>2. \A w \in Writes : call'[w] # "none" => key'[w] \in Keys
    BY DEF Shape, Ends, Answered
  <2>3. QED
    BY <1>1, <1>2, <2>1, <2>2, NoJobType DEF Shape
<1>4. LockHeld'
  BY <1>2, NoJobType DEF LockHeld, Under, Shape
<1>5. \A q \in Processes : job'[q] = job[q] \/ job'[q].pc \in Early
  BY <1>2, NoJobType DEF Shape, Early
<1>6. CASE public' = public /\ outbox' = outbox
  BY <1>1, <1>3, <1>4, <1>5, <1>6, Frame
<1>7. CASE Under(p)
  <2>1. \A q \in Processes : job'[q].pc \in Early
    <3> SUFFICES ASSUME NEW q \in Processes PROVE job'[q].pc \in Early
      OBVIOUS
    <3>1. CASE q = p
      BY <1>2, <3>1, NoJobType DEF Shape, Early
    <3>2. CASE q # p
      <4>1. lock = p /\ ~Under(q)
        BY <1>7, <3>2 DEF LockHeld
      <4>2. job'[q] = job[q] /\ job[q].pc \in Steps
        BY <1>2, <3>2 DEF Shape, Job
      <4>3. QED
        BY <4>1, <4>2 DEF Under, Early, Steps
    <3>3. QED
      BY <3>1, <3>2
  <2>2. QED
    BY <1>1, <1>3, <1>4, <1>5, <2>1, Frame
<1>8. QED
  BY <1>6, <1>7

\* A step that publishes and consumes nothing.
LEMMA Quiet ==
  ASSUME IInv, Shape', LockHeld', public' = public, outbox \subseteq outbox',
         \A w \in Committed : w \in Committed' /\ key'[w] = key[w],
         \A w \in Committed' : w \in Committed \/ w \in outbox',
         \A p \in Processes : job'[p] = job[p] \/ job'[p].pc \in Early
  PROVE  IInv'
<1>1. PublicSound'
  BY DEF IInv, PublicSound, Of
<1>2. QED
  BY <1>1, Frame

\* Two waiting publishes, in the order in which they were asked for (enqueue).
LEMMA AppendToOne ==
  ASSUME NEW a, NEW b
  PROVE  Append(<<a>>, b) = <<a, b>>
<1>1. <<a>> \in Seq({a, b}) /\ <<a, b>> \in Seq({a, b}) /\ b \in {a, b}
  OBVIOUS
<1>2. /\ Append(<<a>>, b) \in Seq({a, b}) /\ Len(Append(<<a>>, b)) = 2
      /\ Append(<<a>>, b)[1] = a /\ Append(<<a>>, b)[2] = b
  BY <1>1, AppendProperties
<1>3. Len(<<a, b>>) = 2 /\ <<a, b>>[1] = a /\ <<a, b>>[2] = b
  OBVIOUS
<1>4. \A i \in 1..2 : i = 1 \/ i = 2
  OBVIOUS
<1>5. QED
  BY <1>1, <1>2, <1>3, <1>4, SeqEqual

\* Nothing waits once the only waiting publish has started (enqueue).
LEMMA TailOfOne ==
  ASSUME NEW a
  PROVE  Tail(<<a>>) = <<>>
<1>1. <<a>> \in Seq({a}) /\ Len(<<a>>) = 1 /\ <<a>> # <<>>
  OBVIOUS
<1>2. Tail(<<a>>) \in Seq({a}) /\ Len(Tail(<<a>>)) = 0
  BY <1>1, HeadTailProperties
<1>3. QED
  BY <1>2, EmptySeq

\* enqueue appends one job, or none, and never a second of its kind
\* (createPublicProjectionPublisher).
LEMMA EnqueuedType ==
  ASSUME Shape, NEW p \in Processes, NEW kind \in {"drain", "full"}
  PROVE  Enqueued(p, kind) \in [Processes -> Queues]
<1>1. queue \in [Processes -> Queues]
  BY DEF Shape
<1>2. CASE Waiting(p, kind)
  BY <1>1, <1>2 DEF Enqueued
<1>3. CASE ~Waiting(p, kind)
  <2>1. \A i \in 1..Len(queue[p]) : queue[p][i] # kind
    BY <1>3 DEF Waiting, Contains
  <2>2. Append(queue[p], kind) \in Queues
    <3>1. CASE queue[p] = <<>>
      BY <3>1 DEF Queues
    <3>2. CASE queue[p] = <<"drain">>
      <4>1. queue[p][1] # kind
        BY <2>1, <3>2
      <4>2. kind = "full"
        BY <3>2, <4>1
      <4>3. Append(<<"drain">>, "full") = <<"drain", "full">>
        BY AppendToOne
      <4>4. QED
        BY <3>2, <4>2, <4>3 DEF Queues
    <3>3. CASE queue[p] = <<"full">>
      <4>1. queue[p][1] # kind
        BY <2>1, <3>3
      <4>2. kind = "drain"
        BY <3>3, <4>1
      <4>3. Append(<<"full">>, "drain") = <<"full", "drain">>
        BY AppendToOne
      <4>4. QED
        BY <3>3, <4>2, <4>3 DEF Queues
    <3>4. CASE queue[p] = <<"drain", "full">> \/ queue[p] = <<"full", "drain">>
      <4>1. Len(queue[p]) = 2
        BY <3>4
      <4>2. queue[p][1] # kind /\ queue[p][2] # kind
        BY <2>1, <4>1
      <4>3. QED
        BY <3>4, <4>2
    <3>5. QED
      BY <1>1, <3>1, <3>2, <3>3, <3>4 DEF Queues
  <2>3. QED
    BY <1>1, <1>3, <2>2 DEF Enqueued
<1>4. QED
  BY <1>2, <1>3

\* The other steps of a publisher that publish and consume nothing, of a call
\* and of the backstop keep the invariant.
LEMMA QuietSteps ==
  ASSUME IInv, ~LostLocks,
         \/ \E w \in Writes : Begin(w) \/ Commit(w) \/ Abort(w) \/ AskForDrain(w)
         \/ \E p \in Processes :
              \/ Backstop(p) \/ StartJob(p) \/ TakeLock(p) \/ Busy(p)
              \/ StepFails(p) \/ Die(p) \/ Restart(p)
         \/ UNCHANGED vars
  PROVE  IInv' /\ public' = public
<1> USE DEF IInv, Early
<1>0. outbox \subseteq Committed /\ Committed \subseteq Writes
  BY DEF Shape, Committed
<1>1. ASSUME NEW w \in Writes, Begin(w) PROVE IInv' /\ public' = public
  <2>1. Committed' = Committed /\ w \notin Committed
    BY <1>1 DEF Begin, Committed, Shape
  <2>2. \A v \in Committed : key'[v] = key[v]
    BY <1>1, <2>1, <1>0 DEF Begin, Shape
  <2>3. key' \in [Writes -> Keys \cup {NoKey}]
    BY <1>1, ProjectionAssumption DEF Begin, Shape, Keys, Range
  <2>4. Shape'
    <3>1. key'[w] \in Keys /\ \A v \in Writes : v # w => key'[v] = key[v] /\ call'[v] = call[v]
      BY <1>1, ProjectionAssumption DEF Begin, Shape, Keys, Range
    <3>2. \A v \in Writes : call'[v] # "none" => key'[v] \in Keys
      BY <3>1 DEF Shape
    <3>3. call' \in [Writes -> CallStates]
      BY <1>1 DEF Begin, Shape, CallStates
    <3>4. QED
      BY <1>1, <2>1, <2>3, <3>2, <3>3 DEF Begin, Shape
  <2>5. LockHeld'
    BY <1>1 DEF Begin, LockHeld, Under
  <2>6. QED
    BY <1>1, <2>1, <2>2, <2>4, <2>5, Quiet DEF Begin
<1>2. ASSUME NEW w \in Writes, Commit(w) PROVE IInv' /\ public' = public
  <2>1. Committed' = Committed \cup {w}
    BY <1>2 DEF Commit, Committed, Shape
  <2>2. Shape'
    BY <1>2, <2>1 DEF Commit, Shape, CallStates
  <2>3. LockHeld'
    BY <1>2 DEF Commit, LockHeld, Under
  <2>4. QED
    BY <1>2, <2>1, <2>2, <2>3, Quiet DEF Commit
<1>3. ASSUME NEW w \in Writes, Abort(w) PROVE IInv' /\ public' = public
  <2>1. Committed' = Committed
    BY <1>3 DEF Abort, Committed, Shape
  <2>2. Shape'
    BY <1>3, <2>1 DEF Abort, Shape, CallStates
  <2>3. LockHeld'
    BY <1>3 DEF Abort, LockHeld, Under
  <2>4. QED
    BY <1>3, <2>1, <2>2, <2>3, Quiet DEF Abort
<1>4. ASSUME NEW w \in Writes, AskForDrain(w) PROVE IInv' /\ public' = public
  <2>1. Committed' = Committed
    BY <1>4 DEF AskForDrain, Committed, Shape
  <2>2. queue' \in [Processes -> Queues]
    BY <1>4, EnqueuedType, ProjectionAssumption DEF AskForDrain
  <2>3. Shape'
    BY <1>4, <2>1, <2>2 DEF AskForDrain, Shape, CallStates
  <2>4. LockHeld'
    BY <1>4 DEF AskForDrain, LockHeld, Under
  <2>5. QED
    BY <1>4, <2>1, <2>3, <2>4, Quiet DEF AskForDrain
<1>5. ASSUME NEW p \in Processes, Backstop(p) PROVE IInv' /\ public' = public
  <2>1. Committed' = Committed
    BY <1>5 DEF Backstop, Committed
  <2>2. queue' \in [Processes -> Queues]
    BY <1>5, EnqueuedType DEF Backstop
  <2>3. Shape' /\ LockHeld'
    BY <1>5, <2>1, <2>2 DEF Backstop, Shape, LockHeld, Under
  <2>4. QED
    BY <1>5, <2>1, <2>3, Quiet DEF Backstop
<1>6. ASSUME NEW p \in Processes, StartJob(p) PROVE IInv' /\ public' = public
  <2>1. call' \in [Writes -> CallStates] /\ Committed' = Committed
    BY <1>6 DEF StartJob, Shape, Committed, CallStates
  <2>2. Head(queue[p]) \in {"drain", "full"} /\ Tail(queue[p]) \in Queues
    <3>1. queue[p] \in Queues /\ queue[p] # <<>>
      BY <1>6 DEF StartJob, Shape
    <3>2. CASE queue[p] = <<"drain">> \/ queue[p] = <<"full">>
      <4>1. Head(queue[p]) \in {"drain", "full"}
        BY <3>2
      <4>2. Tail(queue[p]) = <<>>
        BY <3>2, TailOfOne
      <4>3. QED
        BY <4>1, <4>2 DEF Queues
    <3>3. CASE queue[p] = <<"drain", "full">>
      BY <3>3 DEF Queues
    <3>4. CASE queue[p] = <<"full", "drain">>
      BY <3>4 DEF Queues
    <3>5. QED
      BY <3>1, <3>2, <3>3, <3>4 DEF Queues
  <2>3. /\ job' \in [Processes -> Job] /\ job'[p].pc = "lock"
        /\ \A q \in Processes : q # p => job'[q] = job[q]
    BY <1>6, <2>2 DEF StartJob, Shape, NoJob, Job, Steps
  <2>4. queue' \in [Processes -> Queues]
    BY <1>6, <2>2 DEF StartJob, Shape
  <2>5. Shape'
    BY <1>6, <2>1, <2>3, <2>4 DEF StartJob, Shape
  <2>6. LockHeld'
    BY <1>6, <2>3 DEF StartJob, LockHeld, Under
  <2>7. QED
    BY <1>6, <2>1, <2>3, <2>5, <2>6, Quiet DEF StartJob
<1>7. ASSUME NEW p \in Processes, TakeLock(p) PROVE IInv' /\ public' = public
  <2>1. lock = NoOne /\ Committed' = Committed
    BY <1>7, ~LostLocks DEF TakeLock, LockFree, Committed
  <2>2. /\ job' \in [Processes -> Job] /\ job'[p].pc = "outbox"
        /\ \A q \in Processes : q # p => job'[q] = job[q]
    BY <1>7 DEF TakeLock, Shape, Job, Steps
  <2>3. Shape'
    BY <1>7, <2>1, <2>2 DEF TakeLock, Shape
  <2>4. LockHeld'
    BY <1>7, <2>1, <2>2, ProjectionAssumption DEF TakeLock, LockHeld, Under
  <2>5. QED
    BY <1>7, <2>1, <2>2, <2>3, <2>4, Quiet DEF TakeLock
<1>8. ASSUME NEW p \in Processes, Busy(p) PROVE IInv' /\ public' = public
  <2>1. PublicSound'
    BY <1>8, AnswersKeepCommitted DEF Busy, Fails, Ends, PublicSound, Of
  <2>2. public' \in [Targets -> SUBSET Writes]
    BY <1>8 DEF Busy, Shape
  <2>3. QED
    BY <1>8, <2>1, <2>2, EndKeepsInv DEF Busy, Fails
<1>9. ASSUME NEW p \in Processes, StepFails(p) PROVE IInv' /\ public' = public
  <2>1. PublicSound'
    BY <1>9, AnswersKeepCommitted DEF StepFails, Fails, Ends, PublicSound, Of
  <2>2. public' \in [Targets -> SUBSET Writes]
    BY <1>9 DEF StepFails, Shape
  <2>3. QED
    BY <1>9, <2>1, <2>2, EndKeepsInv DEF StepFails, Fails
<1>10. ASSUME NEW p \in Processes, Die(p) PROVE IInv' /\ public' = public
  <2>1. call' \in [Writes -> CallStates] /\ Committed' = Committed
    BY <1>10 DEF Die, Shape, Committed, CallStates
  <2>2. /\ job' \in [Processes -> Job] /\ job'[p].pc = "dead"
        /\ \A q \in Processes : q # p => job'[q] = job[q]
    BY <1>10, NoJobType DEF Die, Shape
  <2>3. Shape'
    <3>1. faults' \in 0..MaxFaults
      BY <1>10, FaultType DEF Die, Shape
    <3>2. queue' \in [Processes -> Queues] /\ due' \in [Processes -> BOOLEAN]
      BY <1>10 DEF Die, Shape, Queues
    <3>3. \A w \in Writes : call'[w] # "none" => key'[w] \in Keys
      BY <1>10 DEF Die, Shape
    <3>4. QED
      BY <1>10, <2>1, <2>2, <3>1, <3>2, <3>3 DEF Die, Shape, Unlocked
  <2>4. LockHeld'
    BY <1>10, <2>2 DEF Die, LockHeld, Under, Unlocked
  <2>5. QED
    BY <1>10, <2>1, <2>2, <2>3, <2>4, Quiet DEF Die
<1>11. ASSUME NEW p \in Processes, Restart(p) PROVE IInv' /\ public' = public
  <2>1. Committed' = Committed
    BY <1>11 DEF Restart, Committed
  <2>2. /\ job' \in [Processes -> Job] /\ job'[p].pc = "idle"
        /\ \A q \in Processes : q # p => job'[q] = job[q]
    BY <1>11, NoJobType DEF Restart, Shape
  <2>3. Shape'
    <3>1. queue' \in [Processes -> Queues]
      BY <1>11 DEF Restart, Shape, Queues
    <3>2. QED
      BY <1>11, <2>1, <2>2, <3>1 DEF Restart, Shape
  <2>4. LockHeld'
    BY <1>11, <2>2 DEF Restart, LockHeld, Under
  <2>5. QED
    BY <1>11, <2>1, <2>2, <2>3, <2>4, Quiet DEF Restart
<1>12. CASE UNCHANGED vars
  <2>1. Committed' = Committed
    BY <1>12 DEF vars, Committed
  <2>2. Shape' /\ LockHeld'
    BY <1>12, <2>1 DEF vars, Shape, LockHeld, Under
  <2>3. QED
    BY <1>12, <2>1, <2>2, Quiet DEF vars
<1>13. QED
  BY <1>1, <1>2, <1>3, <1>4, <1>5, <1>6, <1>7, <1>8, <1>9, <1>10, <1>11, <1>12

\* readOutbox keeps the invariant: the rows that were read wait in the outbox.
LEMMA OutboxStep ==
  ASSUME IInv, NEW p \in Processes, ReadOutbox(p)
  PROVE  IInv' /\ public' = public
<1> USE DEF IInv
<1> DEFINE ids  == Oldest(Batch, outbox)
           keys == KeysToPublish(p, ids)
<1>0. ids \subseteq outbox /\ outbox \subseteq Committed /\ Committed \subseteq Writes
  BY DEF Oldest, Shape, Committed
<1>1. keys \subseteq Keys
  <2>1. \A w \in ids : key[w] \in Keys
    BY <1>0 DEF Shape, Committed
  <2>2. FullKeys \subseteq Keys
    BY DEF Keys
  <2>3. QED
    BY <2>1, <2>2 DEF KeysToPublish
<1>2. \A w \in ids, t \in Targets : key[w] \in HeldBy[t] => key[w] \in keys
  BY DEF KeysToPublish
<1>3. Committed' = Committed
  BY DEF ReadOutbox, Committed
<1> HIDE DEF ids, keys
<1>4. /\ job'[p].ids = ids /\ job'[p].keys = keys
      /\ job'[p].pc = IF keys = {} THEN "consume" ELSE "snapshot"
      /\ job' \in [Processes -> Job]
      /\ \A q \in Processes : q # p => job'[q] = job[q]
  <2>1. job \in [Processes -> Job] /\ ids \in SUBSET Writes
        /\ keys \in SUBSET Keys
    BY <1>0, <1>1 DEF Shape
  <2> DEFINE next == IF keys = {} THEN "consume" ELSE "snapshot"
  <2>2. next \in Steps
    BY DEF Steps
  <2>3. job' = [job EXCEPT ![p] = [job[p] EXCEPT !.ids = ids, !.keys = keys, !.pc = next]]
    BY <2>1 DEF ReadOutbox, ids, keys
  <2> HIDE DEF next
  <2>4. QED
    BY <2>1, <2>2, <2>3 DEF Job, next
<1>5. Shape'
  BY <1>3, <1>4 DEF ReadOutbox, Shape
<1>6. LockHeld'
  BY <1>4 DEF ReadOutbox, LockHeld, Under
<1>7. PublicSound'
  BY <1>3 DEF ReadOutbox, PublicSound, Of
<1>8. BatchSound'
  BY <1>0, <1>2, <1>4 DEF ReadOutbox, BatchSound
<1>9. ContentSound'
  BY <1>3, <1>4 DEF ReadOutbox, ContentSound
<1>10. WrittenSound'
  BY <1>2, <1>4 DEF ReadOutbox, WrittenSound
<1>11. NothingForgotten'
  BY <1>3 DEF ReadOutbox, NothingForgotten, Published
<1>12. QED
  BY <1>5, <1>6, <1>7, <1>8, <1>9, <1>10, <1>11 DEF ReadOutbox

\* readSnapshot keeps the invariant: it reads at least what the batch and the
\* public databases hold.
LEMMA SnapshotStep ==
  ASSUME IInv, NEW p \in Processes, ReadSnapshot(p)
  PROVE  IInv' /\ public' = public
<1> USE DEF IInv
<1>0. job[p] \in Job /\ outbox \subseteq Committed /\ Committed \subseteq Writes
  BY DEF Shape, Committed
<1>1. Committed' = Committed
  BY DEF ReadSnapshot, Committed
<1>2. /\ job'[p].ids = job[p].ids /\ job'[p].keys = job[p].keys /\ job'[p].pc = "live"
      /\ job'[p].content = Of(Committed, job[p].keys)
      /\ job' \in [Processes -> Job]
      /\ \A q \in Processes : q # p => job'[q] = job[q]
  <2>1. Of(Committed, job[p].keys) \in SUBSET Writes
    BY <1>0 DEF Of
  <2>2. QED
    BY <2>1 DEF ReadSnapshot, Shape, Job, Steps
<1>3. Shape'
  BY <1>1, <1>2 DEF ReadSnapshot, Shape
<1>4. LockHeld'
  BY <1>2 DEF ReadSnapshot, LockHeld, Under
<1>5. PublicSound'
  BY <1>1 DEF ReadSnapshot, PublicSound, Of
<1>6. BatchSound'
  BY <1>2 DEF ReadSnapshot, BatchSound
<1>7. ContentSound'
  <2>1. job[p].ids \subseteq Committed
    BY <1>0 DEF ReadSnapshot, BatchSound
  <2>2. \A t \in Targets : public[t] \subseteq Committed
    BY DEF PublicSound, Of
  <2>3. QED
    BY <1>1, <1>2, <2>1, <2>2 DEF ReadSnapshot, ContentSound, Of
<1>8. WrittenSound'
  BY <1>2 DEF ReadSnapshot, WrittenSound
<1>9. NothingForgotten'
  BY <1>1 DEF ReadSnapshot, NothingForgotten, Published
<1>10. QED
  BY <1>3, <1>4, <1>5, <1>6, <1>7, <1>8, <1>9 DEF ReadSnapshot

\* writeSnapshot only adds to what a public database holds, and adds what
\* belongs there and was committed.
LEMMA WriteMovesForward ==
  ASSUME IInv, NEW p \in Processes, NEW t \in Targets, job[p].pc = t,
         public' = [public EXCEPT ![t] = Written(p, t)]
  PROVE  /\ public' \in [Targets -> SUBSET Writes]
         /\ \A u \in Targets : public[u] \subseteq public'[u]
         /\ \A u \in Targets : \A w \in public'[u] : w \in Committed /\ key[w] \in HeldBy[u]
         /\ \A w \in job[p].ids : key[w] \in HeldBy[t] => w \in public'[t]
         /\ \A u \in Targets : \A w \in public'[u] :
              key[w] \in job[p].keys => w \in job[p].content
         /\ Under(p)
<1> USE DEF IInv
<1>0. /\ public \in [Targets -> SUBSET Writes] /\ Committed \subseteq Writes
      /\ job[p].pc \in {"live", "staging"}
  BY DEF Shape, Committed, Targets
<1>1. \A w \in Written(p, t) :
        (w \in public[t] /\ key[w] \notin job[p].keys)
          \/ (w \in job[p].content /\ key[w] \in HeldBy[t])
  BY DEF Written, Of
<1>2. \A w \in job[p].content : w \in Committed /\ key[w] \in job[p].keys
  BY <1>0 DEF ContentSound
<1>3. \A u \in Targets : \A w \in public[u] : w \in Committed /\ key[w] \in HeldBy[u]
  BY DEF PublicSound, Of
<1>4. \A u \in Targets : \A w \in public[u] : key[w] \in job[p].keys => w \in job[p].content
  BY <1>0 DEF ContentSound
<1>5. Written(p, t) \subseteq Writes
  BY <1>0, <1>1, <1>2
<1>6. public[t] \subseteq Written(p, t)
  BY <1>3, <1>4 DEF Written, Of
<1>7. \A w \in job[p].ids : key[w] \in HeldBy[t] => w \in Written(p, t)
  <2> SUFFICES ASSUME NEW w \in job[p].ids, key[w] \in HeldBy[t] PROVE w \in Written(p, t)
    OBVIOUS
  <2>1. key[w] \in job[p].keys
    BY <1>0 DEF BatchSound
  <2>2. w \in job[p].content
    BY <1>0, <2>1 DEF ContentSound
  <2>3. QED
    BY <2>2 DEF Written, Of
<1>8. QED
  BY <1>0, <1>1, <1>2, <1>3, <1>4, <1>5, <1>6, <1>7 DEF Under

\* writeAll keeps the invariant, also when the answer to a commit is lost.
LEMMA WriteStep ==
  ASSUME IInv, NEW p \in Processes, NEW t \in Targets, WritePublic(p, t)
  PROVE  IInv' /\ \A u \in Targets : public[u] \subseteq public'[u]
<1> USE DEF IInv
<1>0. job[p].pc = t /\ public' = [public EXCEPT ![t] = Written(p, t)]
  BY DEF WritePublic
<1>1. /\ public' \in [Targets -> SUBSET Writes] /\ Under(p)
      /\ \A u \in Targets : public[u] \subseteq public'[u]
      /\ \A u \in Targets : \A w \in public'[u] : w \in Committed /\ key[w] \in HeldBy[u]
      /\ \A w \in job[p].ids : key[w] \in HeldBy[t] => w \in public'[t]
      /\ \A u \in Targets : \A w \in public'[u] :
           key[w] \in job[p].keys => w \in job[p].content
  BY <1>0, WriteMovesForward
<1>2. key' = key /\ outbox' = outbox /\ queue' = queue
  BY DEF WritePublic
<1>3. CASE /\ job' = [job EXCEPT ![p].pc = IF t = "live" THEN "staging" ELSE "consume"]
           /\ UNCHANGED <<call, lock, due, faults>>
  <2>1. Committed' = Committed
    BY <1>3 DEF Committed
  <2>2. /\ job'[p].pc = IF t = "live" THEN "staging" ELSE "consume"
        /\ job'[p].ids = job[p].ids /\ job'[p].keys = job[p].keys
        /\ job'[p].content = job[p].content
        /\ job' \in [Processes -> Job]
        /\ \A q \in Processes : q # p => job'[q] = job[q]
    BY <1>3 DEF Shape, Job, Steps
  <2>3. \A q \in Processes : q # p => ~Under(q)
    BY <1>1 DEF LockHeld
  <2>4. Shape'
    BY <1>1, <1>2, <1>3, <2>1, <2>2 DEF Shape
  <2>5. PublicSound'
    BY <1>1, <1>2, <2>1 DEF PublicSound, Of
  <2>6. LockHeld'
    BY <1>1, <1>3, <2>2 DEF LockHeld, Under
  <2>7. BatchSound'
    BY <1>0, <1>2, <2>2 DEF BatchSound, Targets
  <2>8. ContentSound'
    BY <1>0, <1>1, <1>2, <2>1, <2>2, <2>3 DEF ContentSound, Under, Targets
  <2>9. WrittenSound'
    <3> SUFFICES ASSUME NEW q \in Processes, NEW u \in Targets,
                        job'[q].pc = "consume" \/ (job'[q].pc = "staging" /\ u = "live"),
                        NEW w \in job'[q].ids, key'[w] \in HeldBy[u]
                 PROVE  w \in public'[u]
      BY DEF WrittenSound
    <3>1. q = p
      BY <2>2, <2>3 DEF Under
    <3>2. w \in job[p].ids /\ key[w] \in HeldBy[u]
      BY <1>2, <2>2, <3>1
    <3>3. CASE u = t
      BY <1>1, <3>2, <3>3
    <3>4. CASE u # t
      <4>1. t = "staging" /\ u = "live"
        BY <2>2, <3>1, <3>4 DEF Targets
      <4>2. w \in public[u]
        BY <1>0, <3>2, <4>1 DEF WrittenSound
      <4>3. QED
        BY <1>1, <4>2
    <3>5. QED
      BY <3>3, <3>4
  <2>10. NothingForgotten'
    BY <1>1, <1>2, <2>1 DEF NothingForgotten, Published
  <2>11. QED
    BY <1>1, <2>4, <2>5, <2>6, <2>7, <2>8, <2>9, <2>10
<1>4. CASE Fails(p) /\ FaultHappens
  <2>1. Committed' = Committed
    BY <1>4, AnswersKeepCommitted DEF Fails, Ends
  <2>2. PublicSound'
    BY <1>1, <1>2, <2>1 DEF PublicSound, Of
  <2>3. QED
    BY <1>1, <1>2, <1>4, <2>2, EndKeepsInv DEF Fails
<1>5. QED
  BY <1>3, <1>4 DEF WritePublic

\* consumeOutbox keeps the invariant: what it removes is published.
LEMMA ConsumeStep ==
  ASSUME IInv, NEW p \in Processes, Consume(p)
  PROVE  IInv' /\ public' = public
<1> USE DEF IInv
<1>0. /\ job[p].pc = "consume" /\ Under(p) /\ lock = p
      /\ key' = key /\ public' = public /\ queue' = queue
  BY DEF Consume, Under, LockHeld
<1>1. \A w \in job[p].ids : Published(w)
  BY <1>0 DEF WrittenSound, Published
<1>2. outbox' \subseteq outbox /\ \A w \in outbox : w \in outbox' \/ Published(w)
  BY <1>0, <1>1 DEF Consume, Consumed
<1>3. \E answer \in {"published", "failed"}, d \in BOOLEAN : Ends(p, answer, d)
  BY DEF Consume, Succeeds, Fails
<1>4. PICK answer \in {"published", "failed"}, d \in BOOLEAN : Ends(p, answer, d)
  BY <1>3
<1>5. Committed' = Committed
  BY <1>4, AnswersKeepCommitted DEF Ends
<1>6. PublicSound' /\ public' \in [Targets -> SUBSET Writes]
  BY <1>0, <1>5 DEF PublicSound, Of, Shape
<1>7. QED
  BY <1>0, <1>2, <1>4, <1>6, EndKeepsInv DEF Consume

-------------------------------------------------------------------------------

\* The processes start idle with nothing written (createPublicProjectionPublisher).
LEMMA Start == Init => IInv
<1> SUFFICES ASSUME Init PROVE IInv
  OBVIOUS
<1> USE DEF Init
<1>1. Committed = {}
  BY DEF Committed
<1>2. job \in [Processes -> Job] /\ \A p \in Processes : job[p].pc = "idle"
  BY NoJobType
<1>3. queue \in [Processes -> Queues] /\ faults \in 0..MaxFaults
  BY ProjectionAssumption DEF Queues
<1>4. Shape
  BY <1>1, <1>2, <1>3 DEF Shape, CallStates
<1>5. PublicSound /\ NothingForgotten
  BY <1>1 DEF PublicSound, NothingForgotten
<1>6. LockHeld /\ BatchSound /\ ContentSound /\ WrittenSound
  BY <1>2 DEF LockHeld, Under, BatchSound, ContentSound, WrittenSound
<1>7. QED
  BY <1>4, <1>5, <1>6 DEF IInv

\* Every step keeps the invariant, and no step takes anything back.
LEMMA Step ==
  ASSUME ~LostLocks, IInv, [Next]_vars
  PROVE  IInv' /\ \A t \in Targets : public[t] \subseteq public'[t]
<1>1. ASSUME NEW p \in Processes, ReadOutbox(p) \/ ReadSnapshot(p) \/ Consume(p)
      PROVE  IInv' /\ public' = public
  BY <1>1, OutboxStep, SnapshotStep, ConsumeStep
<1>2. ASSUME NEW p \in Processes, WritePublic(p, "live") \/ WritePublic(p, "staging")
      PROVE  IInv' /\ \A t \in Targets : public[t] \subseteq public'[t]
  BY <1>2, WriteStep DEF Targets
<1>3. QED
  BY <1>1, <1>2, QuietSteps DEF Next, PublishSteps

-------------------------------------------------------------------------------
(* What a call finds when it returns *)

Late == {"snapshot", "live", "staging", "consume"}

\* The drain a call waits for took its row when it read the outbox.
WaitCovered ==
  \A w \in Writes :
    call[w] = "running" /\ job[Home[w]].pc \in Late
      => w \in job[Home[w]].ids \/ Published(w)

\* One batch takes the whole outbox.
OutboxFits == Cardinality(outbox) <= Batch

\* readOutbox takes every row that waits, if one batch holds them.
LEMMA FittingBatch ==
  ASSUME outbox \subseteq Writes, OutboxFits
  PROVE  Oldest(Batch, outbox) = outbox
<1>1. IsFiniteSet(outbox)
  <2>1. IsFiniteSet(Writes)
    BY FS_Interval, ProjectionAssumption DEF Writes
  <2>2. QED
    BY <2>1, FS_Subset
<1>2. ASSUME NEW w \in outbox
      PROVE  Cardinality({v \in outbox : v < w}) < Batch
  <2> DEFINE older == {v \in outbox : v < w}
  <2>1. older \subseteq outbox /\ w \notin older
    BY ProjectionAssumption DEF Writes
  <2>2. Cardinality(older) \in Nat /\ Cardinality(outbox) \in Nat
    BY <1>1, <2>1, FS_Subset, FS_CardinalityType
  <2>3. Cardinality(older) < Cardinality(outbox)
    BY <1>1, <2>1, <2>2, FS_Subset
  <2> HIDE DEF older
  <2>4. Cardinality(older) < Batch
    BY <2>2, <2>3, ProjectionAssumption DEF OutboxFits
  <2>5. QED
    BY <2>4 DEF older
<1>3. QED
  BY <1>2 DEF Oldest

\* A step keeps the key of every committed write (the trigger of migration 0281).
LEMMA KeysStay ==
  ASSUME IInv, [Next]_vars
  PROVE  \A w \in Committed : key'[w] = key[w]
  BY DEF IInv, Shape, Committed, Next, PublishSteps, vars, Begin, Commit, Abort,
         AskForDrain, Backstop, StartJob, TakeLock, Busy, ReadOutbox, ReadSnapshot,
         WritePublic, Consume, StepFails, Die, Restart

\* What is published stays published, and who waits for a drain that read the
\* outbox waited for it before (createPublicProjectionPublisher).
LEMMA WaitFrame ==
  ASSUME ~LostLocks, IInv, WaitCovered, ReturnedIsPublished, [Next]_vars,
         \A w \in Writes : call'[w] = "published"
           => call[w] = "published" \/ (w \in Committed /\ Published(w)),
         \A w \in Writes : call'[w] = "running" /\ job'[Home[w]].pc \in Late
           => \/ call[w] = "running" /\ job[Home[w]].pc \in Late
                /\ job[Home[w]].ids \subseteq job'[Home[w]].ids
              \/ w \in job'[Home[w]].ids
              \/ w \in Committed /\ Published(w)
  PROVE  WaitCovered' /\ ReturnedIsPublished'
<1>1. \A w \in Committed : Published(w) => Published(w)'
  BY Step, KeysStay DEF Published
<1>2. \A w \in Writes : call[w] \in {"running", "published"} => w \in Committed
  BY DEF Committed
<1>3. WaitCovered'
  BY <1>1, <1>2 DEF WaitCovered
<1>4. ReturnedIsPublished'
  BY <1>1, <1>2 DEF ReturnedIsPublished
<1>5. QED
  BY <1>3, <1>4

\* The end of a publish that does not succeed answers no call with success.
LEMMA FailureAnswers ==
  ASSUME IInv, NEW p \in Processes, Fails(p)
  PROVE  /\ \A w \in Writes : call'[w] = "published" => call[w] = "published"
         /\ \A w \in Writes : call'[w] = "running" /\ job'[Home[w]].pc \in Late
              => call[w] = "running" /\ job'[Home[w]] = job[Home[w]]
<1>1. job \in [Processes -> Job] /\ Home \in [Writes -> Processes]
  BY ProjectionAssumption DEF IInv, Shape
<1>2. call' = [w \in Writes |-> IF call[w] = "running" /\ Home[w] = p THEN "failed" ELSE call[w]]
  BY DEF Fails, Ends, Answered
<1>3. \A w \in Writes : Home[w] # p => job'[Home[w]] = job[Home[w]]
  BY <1>1 DEF Fails, Ends
<1>4. QED
  BY <1>2, <1>3

\* A step keeps what the waiting and the returned calls rely on.
LEMMA CallsStep ==
  ASSUME ~LostLocks, IInv, WaitCovered, ReturnedIsPublished, OutboxFits, [Next]_vars
  PROVE  WaitCovered' /\ ReturnedIsPublished'
<1>0. /\ job \in [Processes -> Job] /\ Home \in [Writes -> Processes]
      /\ call \in [Writes -> CallStates]
  BY ProjectionAssumption DEF IInv, Shape
<1>1. ASSUME NEW w \in Writes, Begin(w) \/ Commit(w) \/ Abort(w) \/ AskForDrain(w)
      PROVE  WaitCovered' /\ ReturnedIsPublished'
  <2>1. job' = job /\ \A v \in Writes : call'[v] \in {"running", "published"} => call'[v] = call[v]
    BY <1>0, <1>1 DEF Begin, Commit, Abort, AskForDrain
  <2>2. QED
    BY <2>1, WaitFrame
<1>2. ASSUME NEW p \in Processes, Backstop(p) PROVE WaitCovered' /\ ReturnedIsPublished'
  BY <1>2, WaitFrame DEF Backstop
<1>3. ASSUME NEW p \in Processes, StartJob(p) PROVE WaitCovered' /\ ReturnedIsPublished'
  <2>1. job'[p].pc = "lock" /\ \A q \in Processes : q # p => job'[q] = job[q]
    BY <1>0, <1>3 DEF StartJob, NoJob
  <2>2. \A w \in Writes : /\ call'[w] = "published" => call[w] = "published"
                          /\ Home[w] # p => call'[w] = call[w]
    BY <1>0, <1>3 DEF StartJob
  <2>3. QED
    BY <1>0, <2>1, <2>2, WaitFrame DEF Late
<1>4. ASSUME NEW p \in Processes, TakeLock(p) PROVE WaitCovered' /\ ReturnedIsPublished'
  <2>1. /\ call' = call /\ job'[p].pc = "outbox"
        /\ \A q \in Processes : q # p => job'[q] = job[q]
    BY <1>0, <1>4 DEF TakeLock, Job
  <2>2. QED
    BY <1>0, <2>1, WaitFrame DEF Late
<1>5. ASSUME NEW p \in Processes, Fails(p) PROVE WaitCovered' /\ ReturnedIsPublished'
  BY <1>5, FailureAnswers, WaitFrame
<1>6. ASSUME NEW p \in Processes, ReadOutbox(p) PROVE WaitCovered' /\ ReturnedIsPublished'
  <2>1. Oldest(Batch, outbox) = outbox
    BY FittingBatch DEF IInv, Shape, Committed
  <2>2. /\ call' = call /\ job'[p].ids = outbox
        /\ \A q \in Processes : q # p => job'[q] = job[q]
    BY <1>0, <1>6, <2>1 DEF ReadOutbox, Job
  <2>3. \A w \in Writes : call[w] = "running"
          => w \in Committed /\ (w \in outbox \/ Published(w))
    BY DEF IInv, NothingForgotten, Committed
  <2>4. QED
    BY <1>0, <2>2, <2>3, WaitFrame
<1>7. ASSUME NEW p \in Processes, ReadSnapshot(p) PROVE WaitCovered' /\ ReturnedIsPublished'
  <2>1. /\ call' = call /\ job[p].pc \in Late /\ job'[p].ids = job[p].ids
        /\ \A q \in Processes : q # p => job'[q] = job[q]
    BY <1>0, <1>7 DEF ReadSnapshot, Job, Late
  <2>2. QED
    BY <1>0, <2>1, WaitFrame
<1>8. ASSUME NEW p \in Processes, NEW t \in Targets, WritePublic(p, t)
      PROVE  WaitCovered' /\ ReturnedIsPublished'
  <2>1. CASE Fails(p)
    BY <1>5, <2>1
  <2>2. CASE /\ job' = [job EXCEPT ![p].pc = IF t = "live" THEN "staging" ELSE "consume"]
             /\ call' = call
    <3>1. /\ job[p].pc \in Late /\ job'[p].ids = job[p].ids
          /\ \A q \in Processes : q # p => job'[q] = job[q]
      BY <1>0, <1>8, <2>2 DEF WritePublic, Job, Late, Targets
    <3>2. QED
      BY <1>0, <2>2, <3>1, WaitFrame
  <2>3. QED
    BY <1>8, <2>1, <2>2 DEF WritePublic
<1>9. ASSUME NEW p \in Processes, Consume(p) PROVE WaitCovered' /\ ReturnedIsPublished'
  <2>1. CASE Fails(p)
    BY <1>5, <2>1
  <2>2. CASE Succeeds(p)
    <3>1. \A w \in job[p].ids : Published(w)
      BY <1>9 DEF Consume, IInv, WrittenSound, Published
    <3>2. \A w \in Writes : call[w] = "running" /\ Home[w] = p
            => w \in Committed /\ Published(w)
      BY <1>9, <3>1 DEF Consume, WaitCovered, Late, Committed
    <3>3. call' = [w \in Writes |->
                     IF call[w] = "running" /\ Home[w] = p THEN "published" ELSE call[w]]
      BY <2>2 DEF Succeeds, Ends, Answered
    <3>4. \A w \in Writes : Home[w] # p => job'[Home[w]] = job[Home[w]]
      BY <1>0, <2>2 DEF Succeeds, Ends
    <3>5. QED
      BY <3>2, <3>3, <3>4, WaitFrame
  <2>3. QED
    BY <1>9, <2>1, <2>2 DEF Consume
<1>10. ASSUME NEW p \in Processes, Die(p) PROVE WaitCovered' /\ ReturnedIsPublished'
  <2>1. \A w \in Writes : Home[w] # p => job'[Home[w]] = job[Home[w]]
    BY <1>0, <1>10 DEF Die
  <2>2. \A w \in Writes : /\ call'[w] \in {"published", "running"} => call'[w] = call[w]
                          /\ call'[w] = "running" => Home[w] # p
    BY <1>0, <1>10 DEF Die
  <2>3. QED
    BY <2>1, <2>2, WaitFrame
<1>11. ASSUME NEW p \in Processes, Restart(p) PROVE WaitCovered' /\ ReturnedIsPublished'
  <2>1. call' = call /\ job'[p].pc = "idle" /\ \A q \in Processes : q # p => job'[q] = job[q]
    BY <1>0, <1>11, NoJobType DEF Restart
  <2>2. QED
    BY <1>0, <2>1, WaitFrame DEF Late
<1>12. CASE UNCHANGED vars
  BY <1>12, WaitFrame DEF vars
<1>13. QED
  BY <1>1, <1>2, <1>3, <1>4, <1>5, <1>6, <1>7, <1>8, <1>9, <1>10, <1>11, <1>12
     DEF Next, PublishSteps, Targets, Busy, StepFails

-------------------------------------------------------------------------------
(* The theorems *)

\* The types, the coalesced queues among them: at most one publish of a kind
\* waits, however often drains are asked for (createPublicProjectionPublisher).
THEOREM ProjectionTypeCorrect ==
  ASSUME ~LostLocks
  PROVE  Spec => []TypeOK
<1>1. Init => IInv
  BY Start
<1>2. IInv /\ [Next]_vars => IInv'
  BY Step
<1>3. IInv => TypeOK
  BY DEF IInv, Shape, TypeOK, Job, Queues, Committed
<1>4. QED
  BY <1>1, <1>2, <1>3, PTL DEF Spec

\* A call that returned without an error finds its change in both public
\* databases, as long as one batch holds every row that waits: drain() of
\* createPublicProjectionPublisher publishes one batch (OUTBOX_BATCH) and
\* answers everyone who joined it.
THEOREM ReturnSound ==
  ASSUME ~LostLocks
  PROVE  Spec /\ []OutboxFits => []ReturnedIsPublished
<1> DEFINE Calls == WaitCovered /\ ReturnedIsPublished
<1>1. Init => IInv /\ Calls
  BY Start DEF Init, WaitCovered, ReturnedIsPublished
<1>2. IInv /\ [Next]_vars => IInv'
  BY Step
<1>3. IInv /\ Calls /\ OutboxFits /\ [Next]_vars => Calls'
  BY CallsStep
<1>4. Calls => ReturnedIsPublished
  OBVIOUS
<1> HIDE DEF Calls
<1>5. QED
  BY <1>1, <1>2, <1>3, <1>4, PTL DEF Spec

\* A committed change is published wherever it belongs or its outbox row still
\* waits, for any number of processes and whatever fails or dies
\* (consumeOutbox, withProjectionLock).
THEOREM OutboxSound ==
  ASSUME ~LostLocks
  PROVE  Spec => []NothingForgotten
<1>1. Init => IInv
  BY Start
<1>2. IInv /\ [Next]_vars => IInv'
  BY Step
<1>3. IInv => NothingForgotten
  BY DEF IInv
<1>4. QED
  BY <1>1, <1>2, <1>3, PTL DEF Spec

\* No publish takes back what an earlier one published (withProjectionLock).
THEOREM PublishSound ==
  ASSUME ~LostLocks
  PROVE  Spec => PublicMovesForward
<1>1. Init => IInv
  BY Start
<1>2. IInv /\ [Next]_vars => IInv'
  BY Step
<1>3. IInv /\ [Next]_vars
        => [\A t \in Targets : public[t] \subseteq public'[t]]_vars
  BY Step
<1>4. QED
  BY <1>1, <1>2, <1>3, PTL DEF Spec, PublicMovesForward
===============================================================================
