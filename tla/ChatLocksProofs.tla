---------------------------- MODULE ChatLocksProofs ----------------------------
(***************************************************************************)
(* Proofs about ChatLocks.tla, for any number of chats and changes, as     *)
(* long as an isolated chat rests while its Stage builds and no lock is    *)
(* released under a write: the lock names the one branch that has unstaged *)
(* changes of the entity; a Stage takes nothing back that another brought  *)
(* to the main line; and nobody overwrites on the shared draft what it was *)
(* not shown, save what was uncommitted when one of its reads began.       *)
(***************************************************************************)
EXTENDS ChatLocks, SequenceTheorems, WellFoundedInduction, TLAPS

\* A lock row is its chat's, on the branch the chat works on.
LockSound == lock # NoLock => lock.branch = BranchOf(lock.chat) /\ lock.chat \notin closed

\* A write under way has a row to lock: the committed one, or its own.
WritersLock ==
  \A c \in Chats :
    /\ txn[c].pc \in {"started", "written"} => c \notin closed /\ (lock # NoLock \/ rowTx = c)
    /\ txn[c].pc = "started" /\ rowTx = c => lock = NoLock
    /\ txn[c].pc = "written" => rowTx = c /\ txn[c].adopts = Adopted(c)

RowIsWriters == rowTx # NoOne => txn[rowTx].pc \in {"started", "written"}

\* An uncommitted change is its writer's.
OpenIsWritten ==
  \A i \in DOMAIN changes : changes[i].state = "open" =>
    txn[changes[i].owner].pc = "written" /\ changes[i].branch = BranchOf(changes[i].owner)

\* The lock names the branch with unstaged changes: the heart of OneBranch.
PendingLocked == \A b \in Branches \ closed : Pending(b) # {} => lock.branch = b

\* The Stage of an isolated chat merged everything the chat has pending.
StageCovers ==
  \A c \in Isolated : stage[c] # NoStage =>
    Pending(c) \subseteq stage[c] /\ txn[c].pc \notin {"started", "written"}

IInv ==
  /\ TypeOK
  /\ LockSound
  /\ WritersLock
  /\ RowIsWriters
  /\ OpenIsWritten
  /\ PendingLocked
  /\ StageCovers

-------------------------------------------------------------------------------

\* The latest of some pending changes is one of them (headOverlaySql).
LEMMA LatestIsOne ==
  ASSUME NEW n \in Nat, NEW S \in SUBSET (1..n), S # {}
  PROVE  Max(S) \in S /\ \A x \in S : x <= Max(S)
<1> DEFINE T == {n - x : x \in S}
           R == OpToRel(<, Nat)
<1>1. T \subseteq Nat /\ T # {}
  <2>1. \A x \in S : n - x \in Nat
    OBVIOUS
  <2>2. PICK x \in S : TRUE
    OBVIOUS
  <2>3. n - x \in T
    BY <2>2
  <2>4. QED
    BY <2>1, <2>3
<1>2. IsWellFoundedOn(R, Nat)
  BY NatLessThanWellFounded
<1>3. \E x \in T : \A y \in T : ~(<<y, x>> \in R)
  <2> HIDE DEF T, R
  <2> QED BY <1>1, <1>2, WFMin
<1>4. PICK x \in T : \A y \in T : ~(<<y, x>> \in R)
  BY <1>3
<1>5. \A y \in T : ~(y < x)
  BY <1>1, <1>4 DEF OpToRel
<1>6. PICK m \in S : x = n - m
  OBVIOUS
<1>7. \A y \in S : m >= y
  <2> TAKE y \in S
  <2>1. ~(n - y < n - m)
    BY <1>5, <1>6
  <2>2. QED
    BY <2>1
<1>8. Max(S) \in S /\ \A y \in S : Max(S) >= y
  BY <1>7 DEF Max
<1>9. QED
  BY <1>8

\* A history of the entity is what it is at each time (entity snapshots).
LEMMA HistoryType ==
  ASSUME NEW n \in Nat, NEW h \in [1..n -> Change]
  PROVE  h \in Seq(Change) /\ Len(h) = n /\ DOMAIN h = 1..n
<1>1. h \in Seq(Change)
  BY SeqDef
<1>2. DOMAIN h = 1..n
  OBVIOUS
<1>3. QED
  BY <1>1, <1>2, LenProperties

\* Marking changes keeps the history's length and what else is in it.
LEMMA BecomeType ==
  ASSUME changes \in Seq(Change), NEW ids, NEW s \in {"open", "pending", "staged", "undone"}
  PROVE  /\ Become(ids, s) \in Seq(Change)
         /\ Len(Become(ids, s)) = Len(changes)
         /\ DOMAIN Become(ids, s) = DOMAIN changes
         /\ \A i \in DOMAIN changes :
              /\ Become(ids, s)[i].owner = changes[i].owner
              /\ Become(ids, s)[i].branch = changes[i].branch
              /\ Become(ids, s)[i].content = changes[i].content
              /\ Become(ids, s)[i].state = IF i \in ids THEN s ELSE changes[i].state
<1>1. DOMAIN changes = 1..Len(changes) /\ Len(changes) \in Nat
  OBVIOUS
<1>2. \A i \in DOMAIN changes : changes[i] \in Change
  OBVIOUS
<1>3. Become(ids, s) \in [1..Len(changes) -> Change]
  BY <1>1, <1>2 DEF Become, Change
<1>4. QED
  BY <1>1, <1>2, <1>3, HistoryType DEF Become, Change

\* A chat works on a branch, and no chat or branch stands for none.
LEMMA Names ==
  /\ \A c \in Chats : BranchOf(c) \in Branches /\ c # NoOne /\ c # NoStage
  /\ \A b \in Branches : b # NoOne /\ b # NoStage
  /\ \A c \in Isolated : c \in Chats /\ c \in Branches /\ c # Draft /\ BranchOf(c) = c
  /\ \A c \in Drafting : c \in Chats /\ BranchOf(c) = Draft
  /\ \A c \in Chats : BranchOf(c) # Draft => c \in Isolated
  /\ Draft \in Branches /\ Draft \notin Isolated
BY LockAssumption DEF Chats, Branches, BranchOf

\* What is pending on a branch are times of the history (pendingSnapshotSql).
LEMMA PendingType ==
  ASSUME TypeOK, NEW b
  PROVE  Pending(b) \subseteq 1..Now /\ Pending(b) \subseteq Ids /\ Now \in Nat
BY LockAssumption DEF TypeOK, Pending, Now, Ids

\* What a branch builds on is a set of changes (headOverlaySql).
LEMMA ContentType ==
  ASSUME TypeOK, NEW ids \in SUBSET (1..Now)
  PROVE  Content(ids) \subseteq Ids
<1>1. CASE ids = {}
  BY <1>1 DEF Content, TypeOK
<1>2. CASE ids # {}
  <2>1. Now \in Nat /\ DOMAIN changes = 1..Now
    BY DEF TypeOK, Now
  <2>2. Max(ids) \in 1..Now
    BY <1>2, <2>1, LatestIsOne
  <2>3. changes[Max(ids)] \in Change
    BY <2>1, <2>2 DEF TypeOK
  <2>4. QED
    BY <1>2, <2>3 DEF Content, Change
<1>3. QED
  BY <1>1, <1>2

\* The history a commit leaves (takeOverEntity).
LEMMA CommitType ==
  ASSUME TypeOK, NEW c \in Chats, CommitWrite(c)
  PROVE  /\ changes' \in Seq(Change)
         /\ Len(changes') = Len(changes)
         /\ DOMAIN changes' = DOMAIN changes
         /\ \A i \in DOMAIN changes :
              /\ i \in OpenChange(c) =>
                   changes'[i].state = "pending" /\ changes'[i].branch = changes[i].branch
              /\ i \in txn[c].adopts \ OpenChange(c) =>
                   changes'[i].state = changes[i].state /\ changes'[i].branch = BranchOf(c)
              /\ i \notin OpenChange(c) \cup txn[c].adopts => changes'[i] = changes[i]
              /\ i \in OpenChange(c) \cup txn[c].adopts => changes'[i].owner = c
              /\ changes'[i].content = changes[i].content
<1>1. DOMAIN changes = 1..Len(changes) /\ Len(changes) \in Nat
  BY DEF TypeOK
<1>2. \A i \in DOMAIN changes : changes[i] \in Change
  BY DEF TypeOK
<1>3. changes' \in [1..Len(changes) -> Change]
  BY <1>1, <1>2, Names DEF CommitWrite, Change
<1>4. changes' \in Seq(Change) /\ Len(changes') = Len(changes) /\ DOMAIN changes' = DOMAIN changes
  BY <1>1, <1>3, HistoryType
<1>5. \A i \in DOMAIN changes :
        changes'[i] = IF i \in OpenChange(c) THEN [changes[i] EXCEPT !.state = "pending"]
                      ELSE IF i \in txn[c].adopts
                           THEN [changes[i] EXCEPT !.owner = c, !.branch = BranchOf(c)]
                      ELSE changes[i]
  BY DEF CommitWrite
<1>6. \A i \in OpenChange(c) : changes[i].owner = c
  BY DEF OpenChange
<1>7. ASSUME NEW i \in DOMAIN changes
      PROVE  /\ i \in OpenChange(c) =>
                  changes'[i].state = "pending" /\ changes'[i].branch = changes[i].branch
             /\ i \in txn[c].adopts \ OpenChange(c) =>
                  changes'[i].state = changes[i].state /\ changes'[i].branch = BranchOf(c)
             /\ i \notin OpenChange(c) \cup txn[c].adopts => changes'[i] = changes[i]
             /\ i \in OpenChange(c) \cup txn[c].adopts => changes'[i].owner = c
             /\ changes'[i].content = changes[i].content
  <2>1. changes[i] \in Change
    BY <1>2
  <2>2. CASE i \in OpenChange(c)
    <3>1. changes'[i] = [changes[i] EXCEPT !.state = "pending"] /\ changes[i].owner = c
      BY <1>5, <1>6, <2>2
    <3>2. QED
      BY <2>1, <2>2, <3>1 DEF Change
  <2>3. CASE i \in txn[c].adopts \ OpenChange(c)
    <3>1. changes'[i] = [changes[i] EXCEPT !.owner = c, !.branch = BranchOf(c)]
      BY <1>5, <2>3
    <3>2. QED
      BY <2>1, <2>3, <3>1 DEF Change
  <2>4. CASE i \notin OpenChange(c) \cup txn[c].adopts
    BY <1>5, <2>4
  <2>5. QED
    BY <2>2, <2>3, <2>4
<1>8. QED
  BY <1>4, <1>7

\* The history a write leaves (emitSnapshot).
LEMMA WriteType ==
  ASSUME TypeOK, NEW c \in Chats, Write(c)
  PROVE  /\ changes' \in Seq(Change)
         /\ Len(changes') = Len(changes) + 1 /\ Len(changes') <= MaxChanges
         /\ \A i \in DOMAIN changes : i \in DOMAIN changes' /\ changes'[i] = changes[i]
         /\ \A i \in DOMAIN changes' : i \in DOMAIN changes \/ i = Len(changes) + 1
         /\ changes'[Len(changes) + 1].owner = c
         /\ changes'[Len(changes) + 1].branch = BranchOf(c)
         /\ changes'[Len(changes) + 1].state = "open"
         /\ changes'[Len(changes) + 1].content
              = Content(Pending(BranchOf(c)) \cup Adopted(c)) \cup {Len(changes) + 1}
<1> DEFINE ids == Pending(BranchOf(c)) \cup Adopted(c)
           new == [owner |-> c, branch |-> BranchOf(c), state |-> "open",
                   content |-> Content(ids) \cup {Now + 1}]
<1>1. changes' = Append(changes, new)
  BY DEF Write
<1>2. ids \in SUBSET (1..Now) /\ Now \in Nat /\ Now < MaxChanges
  BY PendingType DEF Adopted, Write
<1>3. Content(ids) \subseteq Ids
  <2> HIDE DEF ids
  <2> QED BY <1>2, ContentType
<1>4. Now + 1 \in Ids
  BY <1>2, LockAssumption DEF Ids
<1>5. new \in Change
  BY <1>3, <1>4, Names DEF Change
<1>6. QED
  <2> HIDE DEF new
  <2>1. changes \in Seq(Change) /\ Len(changes) <= MaxChanges /\ Len(changes) < MaxChanges
    BY <1>2 DEF TypeOK, Now
  <2>2. /\ new.owner = c /\ new.branch = BranchOf(c) /\ new.state = "open"
        /\ new.content = Content(Pending(BranchOf(c)) \cup Adopted(c)) \cup {Len(changes) + 1}
    BY DEF new, Now
  <2>3. QED
    <3>1. /\ changes' \in Seq(Change) /\ Len(changes') = Len(changes) + 1
          /\ Len(changes') <= MaxChanges
          /\ \A i \in DOMAIN changes : i \in DOMAIN changes' /\ changes'[i] = changes[i]
          /\ \A i \in DOMAIN changes' : i \in DOMAIN changes \/ i = Len(changes) + 1
          /\ changes'[Len(changes) + 1] = new
      BY <1>1, <1>5, <2>1, LockAssumption
    <3>2. QED
      BY <2>2, <3>1

-------------------------------------------------------------------------------

Txn == [pc : {"idle", "started", "written", "reading"}, start : Times, adopts : SUBSET Ids]

\* The transactions a step may leave behind.
LEMMA TxnType ==
  ASSUME TypeOK
  PROVE  /\ Now \in Times
         /\ IdleTxn \in Txn /\ IdleTxn.pc = "idle"
         /\ [IdleTxn EXCEPT !.pc = "reading", !.start = Now] \in Txn
         /\ [IdleTxn EXCEPT !.pc = "reading", !.start = Now].pc = "reading"
         /\ [IdleTxn EXCEPT !.pc = "started", !.start = Now] \in Txn
         /\ [IdleTxn EXCEPT !.pc = "started", !.start = Now].pc = "started"
<1>1. Now \in Times
  BY LockAssumption DEF TypeOK, Now, Times
<1>2. 0 \in Times
  BY LockAssumption DEF Times
<1>3. QED
  BY <1>1, <1>2 DEF IdleTxn, Txn

\* Every step keeps the types of the snapshots, the lock row, the observations
\* and the Stages (locks.ts, draft.ts, publish.ts), also with every fault.
LEMMA TypeStep == TypeOK /\ [Next]_vars => TypeOK'
<1> SUFFICES ASSUME TypeOK, [Next]_vars PROVE TypeOK'
  OBVIOUS
<1>a. /\ changes \in Seq(Change) /\ Len(changes) <= MaxChanges
      /\ main \subseteq Ids
      /\ lock \in [chat : Chats, branch : Branches] \cup {NoLock}
      /\ rowTx \in Chats \cup {NoOne}
      /\ txn \in [Chats -> Txn]
      /\ seen \in [Drafting -> Times]
      /\ known \in [Chats -> SUBSET Ids]
      /\ missed \in [Drafting -> SUBSET Ids]
      /\ stage \in [Branches -> (SUBSET Ids) \cup {NoStage}]
      /\ closed \subseteq Isolated
  BY DEF TypeOK, Txn
<1>b. \A b : Pending(b) \subseteq Ids
  BY PendingType
<1>c. \A c \in Chats : Seen(c) \in [Drafting -> Times]
  <2>1. \A c \in Chats : txn[c].start \in Times
    BY <1>a DEF Txn
  <2>2. QED
    BY <1>a, <2>1 DEF Seen
<1>1. ASSUME NEW c \in Chats, StartRead(c) PROVE TypeOK'
  <2>1. InFlight \subseteq Ids
    <3>1. \A d \in Chats : OpenChange(d) \subseteq Ids /\ txn[d].adopts \subseteq Ids
      BY <1>a, LockAssumption DEF OpenChange, Txn, Ids
    <3>2. QED
      BY <3>1 DEF InFlight, Uncommitted
  <2>2. missed' \in [Drafting -> SUBSET Ids]
    BY <1>a, <1>1, <2>1 DEF StartRead
  <2>3. QED
    BY <1>a, <1>1, <2>2, TxnType DEF StartRead, TypeOK, Txn
<1>2. ASSUME NEW c \in Chats, FinishRead(c) PROVE TypeOK'
  BY <1>a, <1>b, <1>c, <1>2, TxnType DEF FinishRead, TypeOK, Txn
<1>3. ASSUME NEW c \in Chats, StartWrite(c) PROVE TypeOK'
  BY <1>a, <1>3, TxnType DEF StartWrite, TypeOK, Txn
<1>4. ASSUME NEW c \in Chats, WriteRefused(c) PROVE TypeOK'
  BY <1>a, <1>b, <1>c, <1>4, TxnType, Names DEF WriteRefused, TypeOK, Txn
<1>5. ASSUME NEW c \in Chats, Write(c) PROVE TypeOK'
  <2>1. Adopted(c) \subseteq Ids
    BY <1>b DEF Adopted
  <2>2. txn' \in [Chats -> Txn]
    BY <1>a, <1>5, <2>1 DEF Write, Txn
  <2>3. QED
    BY <1>a, <1>5, <2>2, WriteType DEF Write, TypeOK, Txn
<1>6. ASSUME NEW c \in Chats, CommitWrite(c) PROVE TypeOK'
  <2>1. txn[c].adopts \subseteq Ids
    BY <1>a DEF Txn
  <2>2. seen' \in [Drafting -> Times] /\ known' \in [Chats -> SUBSET Ids]
    BY <1>a, <1>c, <1>6, <2>1 DEF CommitWrite
  <2>3. stage' \in [Branches -> (SUBSET Ids) \cup {NoStage}]
    BY <1>a, <1>6 DEF CommitWrite
  <2>4. lock' \in [chat : Chats, branch : Branches] \cup {NoLock} /\ rowTx' \in Chats \cup {NoOne}
    BY <1>a, <1>6, Names DEF CommitWrite
  <2>5. txn' \in [Chats -> Txn] /\ main' = main /\ closed' = closed /\ missed' = missed
    BY <1>a, <1>6, TxnType DEF CommitWrite
  <2>6. QED
    BY <1>a, <1>6, <2>2, <2>3, <2>4, <2>5, CommitType DEF TypeOK, Txn
<1>7. ASSUME NEW c \in Chats, AbortWrite(c) PROVE TypeOK'
  BY <1>a, <1>7, TxnType, BecomeType DEF AbortWrite, TypeOK, Txn
<1>8. ASSUME NEW c \in Chats, FinalizeStage(c) PROVE TypeOK'
  BY <1>a, <1>8, BecomeType DEF FinalizeStage, Release, TypeOK, Txn
<1>9. ASSUME NEW c \in Chats, UndoDraftChat(c) PROVE TypeOK'
  BY <1>a, <1>9, BecomeType DEF UndoDraftChat, Release, TypeOK, Txn
<1>10. ASSUME NEW c \in Chats, Discard(c) PROVE TypeOK'
  BY <1>a, <1>10 DEF Discard, Release, TypeOK, Txn
<1>11. ASSUME NEW b \in Branches, Merge(b) PROVE TypeOK'
  <2>1. Content(Pending(b)) \subseteq Ids
    BY PendingType, ContentType
  <2>2. QED
    BY <1>a, <1>b, <1>11, <2>1 DEF Merge, TypeOK, Txn
<1>12. ASSUME NEW b \in Branches, BuildFails(b) PROVE TypeOK'
  BY <1>a, <1>12 DEF BuildFails, TypeOK, Txn
<1>13. CASE FinalizeDraftStage
  BY <1>a, <1>13, BecomeType, Names DEF FinalizeDraftStage, Release, TypeOK, Txn
<1>14. CASE UNCHANGED vars
  BY <1>14 DEF vars, TypeOK
<1>15. QED
  BY <1>1, <1>2, <1>3, <1>4, <1>5, <1>6, <1>7, <1>8, <1>9, <1>10, <1>11, <1>12, <1>13, <1>14 DEF Next

\* The first state has the types (no snapshot, no lock, nothing read).
LEMMA ChatTypeInit == Init => TypeOK
<1>1. Init => changes \in Seq(Change) /\ Len(changes) <= MaxChanges
  BY LockAssumption DEF Init
<1>2. Init => txn \in [Chats -> Txn] /\ seen \in [Drafting -> Times]
  BY LockAssumption DEF Init, IdleTxn, Txn, Times
<1>3. QED
  BY <1>1, <1>2 DEF Init, TypeOK, Txn

\* The snapshots, the lock row, the observations and the Stages keep their types
\* (locks.ts, draft.ts, ops/chat/publish.ts), whatever fault happens.
THEOREM ChatTypeCorrect == Spec => []TypeOK
BY ChatTypeInit, TypeStep, PTL DEF Spec

-------------------------------------------------------------------------------

\* The parts of the types the steps below use.
LEMMA Parts ==
  ASSUME TypeOK
  PROVE  /\ txn \in [Chats -> Txn] /\ rowTx \in Chats \cup {NoOne}
         /\ stage \in [Branches -> (SUBSET Ids) \cup {NoStage}]
         /\ lock \in [chat : Chats, branch : Branches] \cup {NoLock}
         /\ closed \subseteq Isolated
         /\ DOMAIN changes = 1..Len(changes) /\ Len(changes) \in Nat
         /\ \A i \in DOMAIN changes : changes[i].owner \in Chats /\ changes[i].branch \in Branches
<1>1. changes \in Seq(Change)
  BY DEF TypeOK
<1>2. \A i \in DOMAIN changes : changes[i] \in Change
  BY <1>1
<1>3. \A i \in DOMAIN changes : changes[i].owner \in Chats /\ changes[i].branch \in Branches
  BY <1>2 DEF Change
<1>4. QED
  BY <1>1, <1>3 DEF TypeOK, Txn

\* A step that neither writes nor locks leaves what is pending and what a
\* takeover would adopt.
LEMMA SamePending ==
  ASSUME changes' = changes, lock' = lock
  PROVE  /\ \A b : Pending(b)' = Pending(b)
         /\ \A c : Adopted(c)' = Adopted(c)
BY DEF Pending, Adopted, HeldByBranch

\* Staging or undoing changes takes them, and nothing else, off their branch.
LEMMA LessPending ==
  ASSUME TypeOK, NEW ids, NEW s \in {"staged", "undone"}, changes' = Become(ids, s)
  PROVE  /\ \A b : Pending(b)' = Pending(b) \ ids
         /\ DOMAIN changes' = DOMAIN changes
         /\ \A i \in DOMAIN changes :
              /\ changes'[i].owner = changes[i].owner
              /\ changes'[i].branch = changes[i].branch
              /\ changes'[i].state = "open" => changes[i].state = "open" /\ i \notin ids
<1>1. changes \in Seq(Change)
  BY DEF TypeOK
<1>2. QED
  BY <1>1, BecomeType DEF Pending

\* With no write under way nothing is open and nobody holds the row.
LEMMA NoWriter ==
  ASSUME IInv, Writing = {}
  PROVE  /\ rowTx = NoOne
         /\ \A c \in Chats : txn[c].pc \notin {"started", "written"}
         /\ \A i \in DOMAIN changes : changes[i].state # "open"
<1>1. \A c \in Chats : txn[c].pc \notin {"started", "written"}
  BY DEF Writing
<1>2. \A i \in DOMAIN changes : changes[i].owner \in Chats
  BY Parts DEF IInv
<1>3. QED
  BY <1>1, <1>2 DEF IInv, RowIsWriters, OpenIsWritten, TypeOK

LockInv == LockSound /\ WritersLock /\ RowIsWriters /\ OpenIsWritten /\ PendingLocked /\ StageCovers

\* A step of a read, the start of a write, a merge and a failed build keep the
\* invariant: they change neither the history nor the lock.
LEMMA QuietStep ==
  ASSUME ~EditsDuringBuild, IInv,
         \/ \E c \in Chats : StartRead(c) \/ FinishRead(c) \/ StartWrite(c)
         \/ \E b \in Branches : Merge(b) \/ BuildFails(b)
         \/ UNCHANGED vars
  PROVE  LockInv'
<1>1. /\ changes' = changes /\ lock' = lock /\ closed' = closed
      /\ \A b : Pending(b)' = Pending(b)
      /\ \A c : Adopted(c)' = Adopted(c)
  <2>1. changes' = changes /\ lock' = lock /\ closed' = closed
    BY DEF StartRead, FinishRead, StartWrite, Merge, BuildFails, vars
  <2>2. QED
    BY <2>1, SamePending
<1>2. /\ txn \in [Chats -> Txn] /\ rowTx \in Chats \cup {NoOne}
      /\ stage \in [Branches -> (SUBSET Ids) \cup {NoStage}]
      /\ \A i \in DOMAIN changes : changes[i].owner \in Chats
      /\ TypeOK
  BY Parts DEF IInv
<1> USE DEF LockInv, IInv
<1>3. LockSound' /\ PendingLocked'
  BY <1>1 DEF LockSound, PendingLocked, NoLock
<1>4. ASSUME NEW c \in Chats, StartRead(c) \/ FinishRead(c) PROVE LockInv'
  <2>1. /\ txn[c].pc \notin {"started", "written"}
        /\ txn' = [txn EXCEPT ![c] = txn'[c]] /\ txn'[c].pc \in {"idle", "reading"}
        /\ rowTx' = rowTx /\ stage' = stage
    BY <1>2, <1>4, TxnType DEF StartRead, FinishRead
  <2>2. WritersLock' /\ RowIsWriters' /\ OpenIsWritten' /\ StageCovers'
    BY <1>1, <1>2, <2>1, Names DEF WritersLock, RowIsWriters, OpenIsWritten, StageCovers
  <2>3. QED
    BY <1>3, <2>2
<1>5. ASSUME NEW c \in Chats, StartWrite(c) PROVE LockInv'
  <2>1. /\ txn[c].pc = "idle" /\ c \notin closed
        /\ txn' = [txn EXCEPT ![c] = txn'[c]] /\ txn'[c].pc = "started"
        /\ lock # NoLock \/ rowTx = NoOne
        /\ rowTx' = IF lock = NoLock THEN c ELSE rowTx
        /\ stage' = stage /\ (c \in Isolated => stage[c] = NoStage)
    BY <1>2, <1>5, TxnType DEF StartWrite, Building
  <2>2. WritersLock' /\ RowIsWriters'
    BY <1>1, <1>2, <2>1, Names DEF WritersLock, RowIsWriters
  <2>3. OpenIsWritten' /\ StageCovers'
    BY <1>1, <1>2, <2>1, Names DEF OpenIsWritten, StageCovers
  <2>4. QED
    BY <1>3, <2>2, <2>3
<1>6. ASSUME NEW b \in Branches, Merge(b) \/ BuildFails(b) PROVE LockInv'
  <2>1. txn' = txn /\ rowTx' = rowTx
    BY <1>6 DEF Merge, BuildFails
  <2>2. WritersLock' /\ RowIsWriters' /\ OpenIsWritten'
    BY <1>1, <2>1 DEF WritersLock, RowIsWriters, OpenIsWritten
  <2>3. StageCovers'
    BY <1>1, <1>2, <1>6, <2>1, Names DEF StageCovers, Merge, BuildFails, Writing
  <2>4. QED
    BY <1>3, <2>2, <2>3
<1>7. CASE UNCHANGED vars
  BY <1>1, <1>7 DEF vars, WritersLock, RowIsWriters, OpenIsWritten, StageCovers, LockSound, PendingLocked, NoLock
<1>8. QED
  BY <1>4, <1>5, <1>6, <1>7

\* Removing changes from the branches while nobody writes keeps the invariant
\* when a lock that goes leaves nothing pending on its branch.
LEMMA ReleaseFrame ==
  ASSUME IInv, Writing = {}, txn' = txn, rowTx' = rowTx, lock' \in {lock, NoLock},
         closed \subseteq closed', NEW ids, NEW s \in {"staged", "undone"},
         changes' = Become(ids, s),
         lock' = lock => lock = NoLock \/ lock.chat \notin closed',
         lock' = NoLock =>
           \A b \in Branches \ closed' : lock.branch = b => Pending(b) \subseteq ids,
         \A c \in Isolated : stage'[c] # NoStage => stage'[c] = stage[c]
  PROVE  LockInv'
<1>1. /\ rowTx = NoOne
      /\ \A c \in Chats : txn[c].pc \notin {"started", "written"}
      /\ \A i \in DOMAIN changes : changes[i].state # "open"
  BY NoWriter
<1>2. /\ \A b : Pending(b)' = Pending(b) \ ids
      /\ DOMAIN changes' = DOMAIN changes
      /\ \A i \in DOMAIN changes : changes'[i].state # "open"
  BY <1>1, LessPending DEF IInv
<1>3. LockSound'
  BY Names DEF IInv, LockSound, BranchOf
<1>4. WritersLock' /\ RowIsWriters' /\ OpenIsWritten'
  BY <1>1, <1>2 DEF WritersLock, RowIsWriters, OpenIsWritten
<1>5. PendingLocked'
  BY <1>2 DEF IInv, PendingLocked
<1>6. StageCovers'
  BY <1>1, <1>2, Names DEF IInv, StageCovers
<1>7. QED
  BY <1>3, <1>4, <1>5, <1>6 DEF LockInv

\* Finalizing a Stage, undoing a draft chat and discarding a branch keep the
\* invariant (markBranchStaged, finalizeDraftSelection, undoDraftChat).
LEMMA ReleaseStep ==
  ASSUME ~ReleaseRaces, IInv,
         \/ \E c \in Chats : FinalizeStage(c) \/ UndoDraftChat(c) \/ Discard(c)
         \/ FinalizeDraftStage
  PROVE  LockInv'
<1>1. Writing = {}
  BY DEF FinalizeStage, UndoDraftChat, Discard, FinalizeDraftStage, Release, MayRelease
<1>2. ASSUME NEW c \in Chats, FinalizeStage(c) PROVE LockInv'
  <2>1. stage[c] # NoStage /\ c \in Isolated /\ c \in Branches
    BY <1>2, Names DEF FinalizeStage
  <2>2. Finalized(c) = Pending(c)
    BY <2>1 DEF IInv, StageCovers, Finalized
  <2>3. lock.chat = c => lock = NoLock \/ lock.branch = c
    BY <2>1, Names DEF IInv, LockSound
  <2>4. /\ changes' = Become(Finalized(c), "staged") /\ closed' = closed /\ txn' = txn
        /\ rowTx' = rowTx /\ stage' = [stage EXCEPT ![c] = NoStage]
        /\ lock' = IF lock.chat = c THEN NoLock ELSE lock
    BY <1>2 DEF FinalizeStage, Release
  <2>5. lock' = NoLock => \A b \in Branches \ closed' : lock.branch = b => Pending(b) \subseteq Finalized(c)
    BY <2>2, <2>3, <2>4, Names DEF NoLock
  <2>6. lock' = lock => lock = NoLock \/ lock.chat \notin closed'
    BY <2>4 DEF IInv, LockSound
  <2>7. \A d \in Isolated : stage'[d] # NoStage => stage'[d] = stage[d]
    BY <2>1, <2>4, Parts, Names DEF IInv
  <2>8. QED
    BY <1>1, <2>4, <2>5, <2>6, <2>7, ReleaseFrame
<1>3. ASSUME NEW ids, NEW s \in {"staged", "undone"},
             changes' = Become(ids, s),
             Release(IdleDraftLock(Pending(Draft) \ ids)),
             closed' = closed, txn' = txn, rowTx' = rowTx,
             \A d \in Isolated : stage'[d] # NoStage => stage'[d] = stage[d]
      PROVE  LockInv'
  <2>1. lock' = IF lock.branch = Draft /\ Pending(Draft) \ ids = {} THEN NoLock ELSE lock
    BY <1>3 DEF Release, IdleDraftLock
  <2>2. lock' = NoLock => \A b \in Branches \ closed' : lock.branch = b => Pending(b) \subseteq ids
    BY <2>1, Names DEF NoLock
  <2>3. lock' = lock => lock = NoLock \/ lock.chat \notin closed'
    BY <1>3 DEF IInv, LockSound
  <2>4. QED
    BY <1>1, <1>3, <2>1, <2>2, <2>3, ReleaseFrame
<1>4. ASSUME NEW c \in Chats, UndoDraftChat(c) PROVE LockInv'
  BY <1>3, <1>4 DEF UndoDraftChat
<1>5. CASE FinalizeDraftStage
  <2>1. \A d \in Isolated : stage'[d] # NoStage => stage'[d] = stage[d]
    BY <1>5, Parts, Names DEF IInv, FinalizeDraftStage
  <2>2. QED
    BY <1>3, <1>5, <2>1 DEF FinalizeDraftStage
<1>6. ASSUME NEW c \in Chats, Discard(c) PROVE LockInv'
  <2>1. /\ c \in Isolated /\ changes' = changes /\ closed' = closed \cup {c} /\ txn' = txn
        /\ rowTx' = rowTx /\ stage' = stage
        /\ lock' = IF lock.chat = c THEN NoLock ELSE lock
    BY <1>6 DEF Discard, Release
  <2>2. changes = Become({}, "staged")
    BY Parts DEF IInv, TypeOK, Become
  <2>3. lock' = NoLock => \A b \in Branches \ closed' : lock.branch = b => Pending(b) \subseteq {}
    BY <2>1, Names DEF NoLock, IInv, LockSound
  <2>4. lock' = lock => lock = NoLock \/ lock.chat \notin closed'
    BY <2>1, Names DEF NoLock, IInv, LockSound
  <2>5. QED
    BY <1>1, <2>1, <2>2, <2>3, <2>4, ReleaseFrame
<1>7. QED
  BY <1>2, <1>4, <1>5, <1>6

\* A refused write keeps the invariant: the row it inserted is the draft's, and
\* it inserted one only because there was none (draftConflict).
LEMMA RefusedStep ==
  ASSUME IInv, NEW c \in Chats, WriteRefused(c)
  PROVE  LockInv'
<1>1. /\ txn[c].pc = "started" /\ rowTx \in {c, NoOne} /\ c \in Drafting /\ c \notin closed
      /\ rowTx' = NoOne /\ changes' = changes /\ stage' = stage /\ closed' = closed
      /\ lock' = IF rowTx = c THEN [chat |-> c, branch |-> Draft] ELSE lock
      /\ txn' = [txn EXCEPT ![c] = IdleTxn] /\ BranchOf(c) = Draft
  BY Names DEF WriteRefused, LocksRow, DraftConflict, IInv, WritersLock
<1>2. \A b : Pending(b)' = Pending(b)
  BY <1>1 DEF Pending
<1>3. lock' # NoLock /\ (lock # NoLock => lock' = lock)
  BY <1>1, Names DEF IInv, WritersLock, NoLock
<1>4. \A d \in Chats : txn'[d].pc \in {"started", "written"} => d # c /\ txn'[d] = txn[d]
  BY <1>1, TxnType, Parts DEF IInv
<1>5. \A d \in Chats : txn[d].pc # "written"
  BY <1>1, Names DEF IInv, WritersLock
<1>6. LockSound'
  BY <1>1, Names DEF IInv, LockSound, BranchOf
<1>7. WritersLock' /\ RowIsWriters'
  BY <1>1, <1>3, <1>4, <1>5, Names DEF IInv, WritersLock, RowIsWriters
<1>8. OpenIsWritten'
  BY <1>1, <1>5, Parts DEF IInv, OpenIsWritten
<1>9. PendingLocked'
  BY <1>1, <1>2, <1>3, Names DEF IInv, PendingLocked, NoLock
<1>10. StageCovers'
  BY <1>1, <1>2, <1>4, Names DEF IInv, StageCovers
<1>11. QED
  BY <1>6, <1>7, <1>8, <1>9, <1>10 DEF LockInv

\* A write that locked the row keeps the invariant (emitSnapshot).
LEMMA WriteStep ==
  ASSUME IInv, NEW c \in Chats, Write(c)
  PROVE  LockInv'
<1>1. /\ txn[c].pc = "started" /\ rowTx \in {c, NoOne} /\ c \notin closed
      /\ lock # NoLock \/ rowTx = c
      /\ lock' = lock /\ stage' = stage /\ closed' = closed
      /\ rowTx' = IF lock = NoLock THEN rowTx ELSE c
      /\ txn' = [txn EXCEPT ![c].pc = "written", ![c].adopts = Adopted(c)]
  BY DEF Write, LocksRow, NoRow, IInv, WritersLock
<1>2. rowTx' = c
  BY <1>1
<1>3. /\ txn'[c].pc = "written" /\ txn'[c].adopts = Adopted(c)
      /\ \A d \in Chats : d # c => txn'[d] = txn[d]
  BY <1>1, Parts DEF IInv, Txn
<1>4. \A b : Pending(b)' = Pending(b)
  <2>1. TypeOK
    BY DEF IInv
  <2>2. QED
    BY <2>1, WriteType DEF Pending
<1>5. Adopted(c)' = Adopted(c)
  BY <1>1, <1>4 DEF Adopted, HeldByBranch
<1>6. \A d \in Chats : txn[d].pc # "written"
  BY <1>1, Names DEF IInv, WritersLock
<1>7. LockSound' /\ PendingLocked'
  BY <1>1, <1>4 DEF IInv, LockSound, PendingLocked, NoLock
<1>8. WritersLock' /\ RowIsWriters'
  BY <1>1, <1>2, <1>3, <1>5, <1>6, Names DEF IInv, WritersLock, RowIsWriters
<1>9. OpenIsWritten'
  <2>1. \A i \in DOMAIN changes : changes[i].state # "open"
    BY <1>6, Parts DEF IInv, OpenIsWritten
  <2>2. QED
    BY <1>3, <2>1, WriteType DEF IInv, OpenIsWritten
<1>10. StageCovers'
  BY <1>1, <1>3, <1>4, Names DEF IInv, StageCovers
<1>11. QED
  BY <1>7, <1>8, <1>9, <1>10 DEF LockInv

\* A write that rolls back keeps the invariant: only its open change goes.
LEMMA AbortStep ==
  ASSUME IInv, NEW c \in Chats, AbortWrite(c)
  PROVE  LockInv'
<1>1. /\ txn[c].pc \in {"started", "written"}
      /\ lock' = lock /\ stage' = stage /\ closed' = closed
      /\ rowTx' = IF rowTx = c THEN NoOne ELSE rowTx
      /\ txn' = [txn EXCEPT ![c] = IdleTxn]
      /\ changes' = Become(OpenChange(c), "undone")
  BY DEF AbortWrite, Writing
<1>2. \A d \in Chats : txn'[d].pc \in {"started", "written"} => d # c /\ txn'[d] = txn[d]
  BY <1>1, TxnType, Parts DEF IInv
<1>3. \A d \in Chats : d # c => txn'[d] = txn[d]
  BY <1>1, Parts DEF IInv
<1>4. /\ \A b : Pending(b)' = Pending(b)
      /\ DOMAIN changes' = DOMAIN changes
      /\ \A i \in DOMAIN changes :
           /\ changes'[i].owner = changes[i].owner
           /\ changes'[i].branch = changes[i].branch
           /\ changes'[i].state = "open" => changes[i].state = "open" /\ changes[i].owner # c
  <2>1. \A b : Pending(b) \ OpenChange(c) = Pending(b)
    BY DEF Pending, OpenChange
  <2>2. \A i \in DOMAIN changes : i \notin OpenChange(c) /\ changes[i].state = "open" => changes[i].owner # c
    BY DEF OpenChange
  <2>3. /\ \A b : Pending(b)' = Pending(b) \ OpenChange(c)
        /\ DOMAIN changes' = DOMAIN changes
        /\ \A i \in DOMAIN changes :
             /\ changes'[i].owner = changes[i].owner
             /\ changes'[i].branch = changes[i].branch
             /\ changes'[i].state = "open" => changes[i].state = "open" /\ i \notin OpenChange(c)
    <3> DEFINE ids == OpenChange(c)
    <3>1. changes' = Become(ids, "undone") /\ TypeOK
      BY <1>1 DEF IInv
    <3> HIDE DEF ids
    <3>2. /\ \A b : Pending(b)' = Pending(b) \ ids
          /\ DOMAIN changes' = DOMAIN changes
          /\ \A i \in DOMAIN changes :
               /\ changes'[i].owner = changes[i].owner
               /\ changes'[i].branch = changes[i].branch
               /\ changes'[i].state = "open" => changes[i].state = "open" /\ i \notin ids
      BY <3>1, LessPending
    <3>3. QED
      BY <3>2 DEF ids
  <2>4. QED
    BY <2>1, <2>2, <2>3
<1>5. \A d : Adopted(d)' = Adopted(d)
  BY <1>1, <1>4 DEF Adopted, HeldByBranch
<1>6. LockSound' /\ PendingLocked'
  BY <1>1, <1>4 DEF IInv, LockSound, PendingLocked, NoLock
<1>7. WritersLock' /\ RowIsWriters'
  BY <1>1, <1>2, <1>3, <1>5, Parts, Names DEF IInv, WritersLock, RowIsWriters
<1>8. OpenIsWritten'
  BY <1>3, <1>4, Parts DEF IInv, OpenIsWritten
<1>9. StageCovers'
  BY <1>1, <1>2, <1>4, Names DEF IInv, StageCovers
<1>10. QED
  BY <1>6, <1>7, <1>8, <1>9 DEF LockInv

\* A write that commits keeps the invariant: what the branch that had the lock
\* holds pending is adopted with the lock (takeOverEntity).
LEMMA CommitStep ==
  ASSUME IInv, NEW c \in Chats, CommitWrite(c)
  PROVE  LockInv'
<1>1. /\ txn[c].pc = "written" /\ rowTx = c /\ c \notin closed /\ closed' = closed
      /\ txn[c].adopts = Adopted(c) /\ rowTx' = NoOne
      /\ lock' = IF lock = NoLock \/ ~HeldByBranch(c) THEN [chat |-> c, branch |-> BranchOf(c)]
                 ELSE lock
      /\ txn' = [txn EXCEPT ![c] = IdleTxn]
      /\ stage' = [b \in Branches |-> IF stage[b] = NoStage THEN NoStage
                                       ELSE stage[b] \ txn[c].adopts]
  BY DEF CommitWrite, IInv, WritersLock
<1>2. \A d \in Chats : txn'[d].pc \in {"started", "written"} => d # c /\ txn'[d] = txn[d]
  BY <1>1, TxnType, Parts DEF IInv
<1>3. \A d \in Chats : d # c => txn[d].pc # "written"
  BY <1>1 DEF IInv, WritersLock
<1>4. lock' # NoLock /\ lock'.branch = BranchOf(c)
  BY <1>1, Names, Parts DEF IInv, HeldByBranch, NoLock
<1>5. BranchOf(c) \notin closed /\ BranchOf(c) \in Branches
  BY <1>1, Names, Parts DEF IInv, BranchOf
<1>6. \A b \in Branches : b # BranchOf(c) => Pending(b)' \subseteq Pending(b) \ Adopted(c)
  <2>1. \A i \in OpenChange(c) : changes[i].branch = BranchOf(c)
    BY DEF OpenChange, IInv, OpenIsWritten
  <2>2. \A i \in DOMAIN changes : changes'[i].state = "pending" /\ i \notin OpenChange(c) =>
          /\ changes[i].state = "pending"
          /\ i \in Adopted(c) => changes'[i].branch = BranchOf(c)
          /\ i \notin Adopted(c) => changes'[i].branch = changes[i].branch
    BY <1>1, CommitType DEF IInv
  <2>3. \A i \in OpenChange(c) : changes'[i].branch = BranchOf(c)
    BY <2>1, CommitType DEF IInv, OpenChange
  <2>4. DOMAIN changes' = DOMAIN changes
    BY CommitType DEF IInv
  <2>5. QED
    BY <2>2, <2>3, <2>4 DEF Pending
<1>7. LockSound'
  BY <1>1, <1>4, Names DEF IInv, LockSound, BranchOf
<1>8. WritersLock' /\ RowIsWriters'
  BY <1>1, <1>2, <1>3, <1>4, Names DEF IInv, WritersLock, RowIsWriters
<1>9. OpenIsWritten'
  <2>1. \A i \in DOMAIN changes : changes'[i].state # "open"
    BY <1>1, <1>3, CommitType, Parts DEF IInv, OpenIsWritten, OpenChange
  <2>2. QED
    BY <2>1, CommitType DEF IInv, OpenIsWritten
<1>10. PendingLocked'
  <2>1. ASSUME NEW b \in Branches \ closed, b # BranchOf(c) PROVE Pending(b)' = {}
    <3>1. CASE Pending(b) = {}
      BY <1>6, <2>1, <3>1
    <3>2. CASE Pending(b) # {}
      <4>1. lock.branch = b
        BY <2>1, <3>2 DEF IInv, PendingLocked
      <4>2. Adopted(c) = Pending(b)
        BY <2>1, <4>1, Names DEF Adopted, HeldByBranch
      <4>3. QED
        BY <1>6, <2>1, <4>2
    <3>3. QED
      BY <3>1, <3>2
  <2>2. QED
    BY <1>1, <1>4, <2>1 DEF PendingLocked
<1>11. StageCovers'
  <2>1. ASSUME NEW d \in Isolated, stage'[d] # NoStage
        PROVE  Pending(d)' \subseteq stage'[d] /\ txn'[d].pc \notin {"started", "written"}
    <3>1. d \in Branches /\ d \in Chats /\ stage[d] # NoStage /\ stage'[d] = stage[d] \ Adopted(c)
      BY <1>1, <2>1, Names
    <3>2. Pending(d) \subseteq stage[d] /\ txn[d].pc \notin {"started", "written"}
      BY <3>1 DEF IInv, StageCovers
    <3>3. d # BranchOf(c)
      BY <1>1, <3>2, Names DEF BranchOf
    <3>4. QED
      BY <1>2, <1>6, <3>1, <3>2, <3>3
  <2>2. QED
    BY <2>1 DEF StageCovers
<1>12. QED
  BY <1>7, <1>8, <1>9, <1>10, <1>11 DEF LockInv

-------------------------------------------------------------------------------
(* The invariant of the locks as lemmas *)

\* Nobody has written or locked anything yet (locks.ts).
LEMMA LockInit == Init => IInv
<1>1. Init => TypeOK
  BY ChatTypeInit
<1>2. Init => LockSound /\ WritersLock /\ RowIsWriters /\ OpenIsWritten /\ PendingLocked /\ StageCovers
  BY Names DEF Init, LockSound, WritersLock, RowIsWriters, OpenIsWritten, PendingLocked,
     StageCovers, Pending, IdleTxn
<1>3. QED
  BY <1>1, <1>2 DEF IInv

\* Every step keeps the invariant of the locks (checkAndAcquireEntityLock).
LEMMA LockStep ==
  ASSUME ~EditsDuringBuild, ~ReleaseRaces, IInv, [Next]_vars
  PROVE  IInv'
<1>1. TypeOK'
  BY TypeStep DEF IInv
<1>2. LockInv'
  BY QuietStep, ReleaseStep, RefusedStep, WriteStep, AbortStep, CommitStep DEF Next
<1>3. QED
  BY <1>1, <1>2 DEF IInv, LockInv

\* Two branches that can still stage never hold unstaged changes of the same
\* entity (locks.ts: "The lock keeps two branches from holding divergent unmerged
\* edits"), for any number of chats, when isolated chats rest while their Stage
\* builds and no lock row is released under a write.
THEOREM LockKeepsOneBranch ==
  ASSUME ~EditsDuringBuild, ~ReleaseRaces
  PROVE  Spec => []OneBranch
<1>1. Init => IInv
  BY LockInit
<1>2. IInv /\ [Next]_vars => IInv'
  BY LockStep
<1>3. IInv => OneBranch
  BY DEF IInv, PendingLocked, OneBranch
<1>4. QED
  BY <1>1, <1>2, <1>3, PTL DEF Spec

-------------------------------------------------------------------------------
(* What a Stage brought to the main line *)

\* A Stage merged the change from the branch it is on.
InStage(i) == stage[changes[i].branch] # NoStage /\ i \in stage[changes[i].branch]

\* A change that can still reach the main line.
Unstaged(j) == changes[j].state \in {"open", "pending"} /\ changes[j].branch \notin closed

\* What change j must contain, for its merge to take nothing back: what is
\* staged, what another branch's Stage merged, and the older ones of its branch.
Demands(i, j) ==
  \/ changes[i].state = "staged"
  \/ changes[i].state = "pending" /\ changes[i].branch = changes[j].branch /\ i <= j
  \/ changes[i].state = "pending" /\ changes[i].branch # changes[j].branch /\ InStage(i)

\* The main line has what was staged and what a Stage merged.
MainKeeps ==
  \A i \in DOMAIN changes :
    changes[i].state = "staged" \/ (changes[i].state = "pending" /\ InStage(i)) => i \in main

BuildsOn ==
  \A i, j \in DOMAIN changes : Unstaged(j) /\ Demands(i, j) => i \in changes[j].content

\* An uncommitted change is the latest, and builds on what it takes over.
OpenIsNewest ==
  \A j \in DOMAIN changes : changes[j].state = "open" =>
    /\ j = Now /\ j \in changes[j].content
    /\ \A c \in Chats : changes[j].owner = c => Adopted(c) \subseteq changes[j].content

\* A Stage merged all there was: what it left out of a branch came later.
StageIsOlder ==
  \A i, j \in DOMAIN changes :
    /\ changes[i].state = "pending" /\ changes[j].state = "pending"
    /\ changes[i].branch = changes[j].branch
    /\ InStage(i) /\ ~InStage(j)
    => i < j

\* A Stage merges committed changes.
StageSaved ==
  \A b \in Branches : stage[b] # NoStage =>
    \A i \in stage[b] : i \in DOMAIN changes /\ changes[i].state # "open"

StageInv == MainKeeps /\ BuildsOn /\ OpenIsNewest /\ StageIsOlder /\ StageSaved

\* A step that leaves the history, the Stages and the main line alone keeps the
\* invariant, whatever it does to the lock when nothing is open.
LEMMA StageQuiet ==
  ASSUME StageInv, changes' = changes, stage' = stage, main' = main, closed \subseteq closed',
         lock' = lock \/ \A i \in DOMAIN changes : changes[i].state # "open"
  PROVE  StageInv'
<1>1. OpenIsNewest'
  <2>1. CASE lock' = lock
    BY <2>1, SamePending DEF StageInv, OpenIsNewest, Now
  <2>2. CASE \A i \in DOMAIN changes : changes[i].state # "open"
    BY <2>2 DEF OpenIsNewest
  <2>3. QED
    BY <2>1, <2>2
<1>2. MainKeeps' /\ StageIsOlder' /\ StageSaved'
  BY DEF StageInv, MainKeeps, StageIsOlder, StageSaved, InStage
<1>3. BuildsOn'
  BY DEF StageInv, BuildsOn, Unstaged, Demands, InStage
<1>4. QED
  BY <1>1, <1>2, <1>3 DEF StageInv

\* What Become changes: the state of some changes.
LEMMA BecomeFields ==
  ASSUME TypeOK, NEW ids, NEW s \in {"staged", "undone"}, changes' = Become(ids, s)
  PROVE  /\ DOMAIN changes' = DOMAIN changes /\ Now' = Now
         /\ \A i \in DOMAIN changes :
              /\ changes'[i].owner = changes[i].owner
              /\ changes'[i].branch = changes[i].branch
              /\ changes'[i].content = changes[i].content
              /\ changes'[i].state = IF i \in ids THEN s ELSE changes[i].state
<1>1. changes \in Seq(Change)
  BY DEF TypeOK
<1>2. QED
  BY <1>1, BecomeType DEF Now

\* Undone changes are on no branch any more (undoDraftChat, a rolled back write).
LEMMA UndoneKeeps ==
  ASSUME IInv, StageInv, NEW ids, changes' = Become(ids, "undone"),
         stage' = stage, main' = main, closed' = closed,
         \/ lock' = lock /\ \A b : Pending(b)' = Pending(b)
         \/ \A i \in DOMAIN changes : changes[i].state # "open"
  PROVE  StageInv'
<1>1. /\ DOMAIN changes' = DOMAIN changes /\ Now' = Now
      /\ \A i \in DOMAIN changes :
           /\ changes'[i].owner = changes[i].owner
           /\ changes'[i].branch = changes[i].branch
           /\ changes'[i].content = changes[i].content
           /\ changes'[i].state = IF i \in ids THEN "undone" ELSE changes[i].state
  BY BecomeFields DEF IInv
<1>2. OpenIsNewest'
  <2>1. CASE lock' = lock /\ \A b : Pending(b)' = Pending(b)
    <3>1. \A c : Adopted(c)' = Adopted(c)
      BY <2>1 DEF Adopted, HeldByBranch
    <3>2. QED
      BY <1>1, <3>1 DEF StageInv, OpenIsNewest
  <2>2. CASE \A i \in DOMAIN changes : changes[i].state # "open"
    BY <1>1, <2>2 DEF OpenIsNewest
  <2>3. QED
    BY <2>1, <2>2
<1>3. MainKeeps' /\ StageIsOlder' /\ StageSaved'
  BY <1>1 DEF StageInv, MainKeeps, StageIsOlder, StageSaved, InStage
<1>4. BuildsOn'
  BY <1>1 DEF StageInv, BuildsOn, Unstaged, Demands, InStage
<1>5. QED
  BY <1>2, <1>3, <1>4 DEF StageInv

\* A finished Stage keeps the invariant: what it staged is on the main line, and
\* what it left on the branch came later and builds on it (finalizeDraftSelection,
\* chat.finalize_stage).
LEMMA StagedKeeps ==
  ASSUME IInv, StageInv, Writing = {}, NEW b \in Branches, stage[b] # NoStage,
         changes' = Become(Finalized(b), "staged"),
         stage' = [stage EXCEPT ![b] = NoStage], main' = main, closed' = closed
  PROVE  StageInv'
<1> DEFINE ids == Finalized(b)
<1>0. \A i \in DOMAIN changes : changes[i].state # "open"
  BY NoWriter
<1>1. \A i \in DOMAIN changes :
        i \in ids <=> changes[i].branch = b /\ changes[i].state = "pending" /\ InStage(i)
  BY DEF Finalized, Pending, InStage
<1> HIDE DEF ids
<1>2. /\ DOMAIN changes' = DOMAIN changes /\ Now' = Now
      /\ \A i \in DOMAIN changes :
           /\ changes'[i].owner = changes[i].owner
           /\ changes'[i].branch = changes[i].branch
           /\ changes'[i].content = changes[i].content
           /\ changes'[i].state = IF i \in ids THEN "staged" ELSE changes[i].state
  <2>1. changes' = Become(ids, "staged")
    BY DEF ids
  <2>2. QED
    BY <2>1, BecomeFields DEF IInv
<1>3. /\ \A i \in DOMAIN changes :
           InStage(i)' <=> changes[i].branch # b /\ InStage(i)
      /\ stage'[b] = NoStage /\ \A a \in Branches : a # b => stage'[a] = stage[a]
  <2>1. stage'[b] = NoStage /\ \A a \in Branches : a # b => stage'[a] = stage[a]
    BY Parts DEF IInv
  <2>2. \A i \in DOMAIN changes : changes[i].branch \in Branches
    BY Parts DEF IInv
  <2>3. QED
    BY <1>2, <2>1, <2>2 DEF InStage
<1>4. MainKeeps'
  BY <1>1, <1>2, <1>3 DEF StageInv, MainKeeps
<1>5. OpenIsNewest'
  BY <1>0, <1>2 DEF OpenIsNewest
<1>6. StageIsOlder'
  BY <1>1, <1>2, <1>3 DEF StageInv, StageIsOlder
<1>7. StageSaved'
  BY <1>0, <1>2, <1>3 DEF StageInv, StageSaved
<1>8. BuildsOn'
  <2> SUFFICES ASSUME NEW i \in DOMAIN changes, NEW j \in DOMAIN changes,
                      Unstaged(j)', Demands(i, j)'
               PROVE  i \in changes[j].content
    BY <1>2 DEF BuildsOn
  <2>1. Unstaged(j) /\ changes[j].state = "pending" /\ j \notin ids
    BY <1>0, <1>2 DEF Unstaged
  <2>2. Demands(i, j)
    <3>1. CASE i \in ids /\ changes[j].branch = b
      <4>1. ~InStage(j)
        BY <1>1, <2>1, <3>1
      <4>2. i < j
        BY <1>1, <2>1, <3>1, <4>1 DEF StageInv, StageIsOlder
      <4>3. i \in Nat /\ j \in Nat
        BY Parts DEF IInv
      <4>4. QED
        BY <1>1, <3>1, <4>2, <4>3 DEF Demands
    <3>2. CASE i \in ids /\ changes[j].branch # b
      BY <1>1, <3>2 DEF Demands
    <3>3. CASE i \notin ids
      BY <1>2, <1>3, <3>3 DEF Demands
    <3>4. QED
      BY <3>1, <3>2, <3>3
  <2>3. QED
    BY <2>1, <2>2 DEF StageInv, BuildsOn
<1>9. QED
  BY <1>4, <1>5, <1>6, <1>7, <1>8 DEF StageInv

\* A merge keeps the invariant: the latest change of the branch holds everything
\* that was staged or merged before (chat.merge_to_main, merge_draft_to_main).
LEMMA MergeKeeps ==
  ASSUME IInv, StageInv, NEW b \in Branches, Merge(b)
  PROVE  StageInv'
<1>1. /\ stage[b] = NoStage /\ b \notin closed /\ Pending(b) # {}
      /\ main' = Content(Pending(b)) /\ stage' = [stage EXCEPT ![b] = Pending(b)]
      /\ changes' = changes /\ lock' = lock /\ closed' = closed
  BY DEF Merge
<1>2. PICK m \in Pending(b) : main' = changes[m].content /\ \A i \in Pending(b) : i <= m
  <2>1. Pending(b) \in SUBSET (1..Now) /\ Now \in Nat
    BY PendingType DEF IInv
  <2>2. Max(Pending(b)) \in Pending(b) /\ \A i \in Pending(b) : i <= Max(Pending(b))
    BY <1>1, <2>1, LatestIsOne
  <2>3. QED
    BY <1>1, <2>2 DEF Content
<1>3. /\ m \in DOMAIN changes /\ changes[m].branch = b /\ changes[m].state = "pending"
      /\ Unstaged(m)
  BY <1>1 DEF Pending, Unstaged
<1>4. /\ \A i \in DOMAIN changes : changes[i].branch # b => (InStage(i)' <=> InStage(i))
      /\ \A i \in DOMAIN changes :
           changes[i].branch = b
             => (InStage(i)' <=> stage'[b] # NoStage /\ changes[i].state = "pending")
      /\ stage'[b] = Pending(b) /\ \A a \in Branches : a # b => stage'[a] = stage[a]
  <2>1. stage'[b] = Pending(b) /\ \A a \in Branches : a # b => stage'[a] = stage[a]
    BY <1>1, Parts DEF IInv
  <2>2. \A i \in DOMAIN changes : changes[i].branch \in Branches
    BY Parts DEF IInv
  <2>3. QED
    BY <1>1, <2>1, <2>2 DEF InStage, Pending
<1>5. MainKeeps'
  <2> SUFFICES ASSUME NEW i \in DOMAIN changes,
                      changes[i].state = "staged"
                        \/ (changes[i].state = "pending" /\ InStage(i)')
               PROVE  i \in changes[m].content
    BY <1>1, <1>2 DEF MainKeeps
  <2>1. Demands(i, m)
    BY <1>2, <1>3, <1>4 DEF Demands, Pending
  <2>2. QED
    BY <1>3, <2>1 DEF StageInv, BuildsOn
<1>6. BuildsOn'
  <2> SUFFICES ASSUME NEW i \in DOMAIN changes, NEW j \in DOMAIN changes,
                      Unstaged(j), Demands(i, j)'
               PROVE  i \in changes[j].content
    BY <1>1 DEF BuildsOn, Unstaged
  <2>1. CASE Demands(i, j)
    BY <2>1 DEF StageInv, BuildsOn
  <2>2. CASE ~Demands(i, j)
    <3>1. /\ changes[i].state = "pending" /\ changes[i].branch = b /\ changes[j].branch # b
          /\ i \in Pending(b)
      BY <1>1, <1>4, <2>2 DEF Demands, Pending
    <3>2. lock.branch = b
      BY <1>1 DEF IInv, PendingLocked
    <3>3. changes[j].branch \in Branches /\ changes[j].branch \notin closed
      BY Parts DEF IInv, Unstaged
    <3>4. changes[j].state = "open"
      <4>1. changes[j].state = "pending" => Pending(changes[j].branch) # {}
        BY DEF Pending
      <4>2. QED
        BY <3>1, <3>2, <3>3, <4>1 DEF Unstaged, IInv, PendingLocked
    <3>5. changes[j].branch = BranchOf(changes[j].owner)
      BY <3>4 DEF IInv, OpenIsWritten
    <3>6. Adopted(changes[j].owner) = Pending(b) /\ changes[j].owner \in Chats
      BY <3>1, <3>2, <3>5, Names, Parts DEF IInv, Adopted, HeldByBranch
    <3>7. QED
      BY <3>1, <3>4, <3>6 DEF StageInv, OpenIsNewest
  <2>3. QED
    BY <2>1, <2>2
<1>7. OpenIsNewest'
  BY <1>1, SamePending DEF StageInv, OpenIsNewest, Now
<1>8. StageIsOlder'
  BY <1>1, <1>4 DEF StageInv, StageIsOlder
<1>9. StageSaved'
  <2>1. \A i \in Pending(b) : i \in DOMAIN changes /\ changes[i].state # "open"
    BY DEF Pending
  <2>2. QED
    BY <1>1, <1>4, <2>1 DEF StageInv, StageSaved
<1>10. QED
  BY <1>5, <1>6, <1>7, <1>8, <1>9 DEF StageInv

\* A failed build keeps the invariant: its Stage merged nothing any more.
LEMMA BuildFailsKeeps ==
  ASSUME IInv, StageInv, NEW b \in Branches, BuildFails(b)
  PROVE  StageInv'
<1>1. /\ changes' = changes /\ lock' = lock /\ closed' = closed /\ main' = main
      /\ stage'[b] = NoStage /\ \A a \in Branches : a # b => stage'[a] = stage[a]
  BY Parts DEF IInv, BuildFails
<1>2. \A i \in DOMAIN changes : InStage(i)' <=> changes[i].branch # b /\ InStage(i)
  BY <1>1, Parts DEF IInv, InStage
<1>3. MainKeeps' /\ StageIsOlder' /\ StageSaved'
  BY <1>1, <1>2 DEF StageInv, MainKeeps, StageIsOlder, StageSaved
<1>4. OpenIsNewest'
  BY <1>1, SamePending DEF StageInv, OpenIsNewest, Now
<1>5. BuildsOn'
  BY <1>1, <1>2 DEF StageInv, BuildsOn, Unstaged, Demands
<1>6. QED
  BY <1>3, <1>4, <1>5 DEF StageInv

\* A write builds on the pending changes of one branch: its own, or the one it
\* takes the entity over from, and then its own branch has none (takeOverEntity).
LEMMA BaseIsBranch ==
  ASSUME IInv, NEW c \in Chats, c \notin closed, lock # NoLock \/ HeldByBranch(c)
  PROVE  /\ BranchOf(c) \in Branches \ closed
         /\ HeldByBranch(c) => Adopted(c) = {}
         /\ ~HeldByBranch(c) =>
              /\ lock.branch \in Branches \ closed /\ lock.branch # BranchOf(c)
              /\ Adopted(c) = Pending(lock.branch) /\ Pending(BranchOf(c)) = {}
<1>1. BranchOf(c) \in Branches \ closed
  BY Names, Parts DEF IInv, BranchOf
<1>2. ASSUME ~HeldByBranch(c)
      PROVE  /\ lock.branch \in Branches \ closed /\ lock.branch # BranchOf(c)
             /\ Pending(BranchOf(c)) = {}
  <2>1. lock # NoLock /\ lock.chat \in Chats /\ lock.branch # BranchOf(c)
    BY <1>2, Parts DEF IInv, HeldByBranch
  <2>2. lock.branch = BranchOf(lock.chat) /\ lock.chat \notin closed
    BY <2>1 DEF IInv, LockSound
  <2>3. lock.branch \in Branches \ closed
    BY <2>1, <2>2, Names, Parts DEF IInv, BranchOf
  <2>4. Pending(BranchOf(c)) = {}
    BY <1>1, <2>1 DEF IInv, PendingLocked
  <2>5. QED
    BY <2>1, <2>3, <2>4
<1>3. QED
  BY <1>1, <1>2 DEF Adopted

\* A write keeps the invariant: it builds on the latest change of the branch it
\* continues, or on the main line (emitSnapshot on headOverlaySql).
LEMMA WriteKeeps ==
  ASSUME IInv, StageInv, NEW c \in Chats, Write(c)
  PROVE  StageInv'
<1> DEFINE n == Len(changes) + 1
           L == IF HeldByBranch(c) THEN BranchOf(c) ELSE lock.branch
<1>1. /\ txn[c].pc = "started" /\ rowTx \in {c, NoOne} /\ c \notin closed
      /\ lock # NoLock \/ rowTx = c
      /\ lock' = lock /\ stage' = stage /\ closed' = closed /\ main' = main
  BY DEF Write, LocksRow, NoRow, IInv, WritersLock
<1>2. \A i \in DOMAIN changes : changes[i].state # "open"
  <2>1. \A d \in Chats : txn[d].pc # "written"
    BY <1>1, Names DEF IInv, WritersLock
  <2>2. QED
    BY <2>1, Parts DEF IInv, OpenIsWritten
<1>3. /\ BranchOf(c) \in Branches \ closed
      /\ HeldByBranch(c) => Adopted(c) = {}
      /\ ~HeldByBranch(c) =>
           /\ lock.branch \in Branches \ closed /\ lock.branch # BranchOf(c)
           /\ Adopted(c) = Pending(lock.branch) /\ Pending(BranchOf(c)) = {}
  <2>1. lock # NoLock \/ HeldByBranch(c)
    BY DEF NoLock, HeldByBranch
  <2>2. QED
    BY <1>1, <2>1, BaseIsBranch
<1>4. /\ L \in Branches \ closed /\ Pending(BranchOf(c)) \cup Adopted(c) = Pending(L)
      /\ L = BranchOf(c) \/ Pending(BranchOf(c)) = {}
  BY <1>3
<1>5. /\ \A i \in DOMAIN changes : i \in DOMAIN changes' /\ changes'[i] = changes[i]
      /\ \A i \in DOMAIN changes' : i \in DOMAIN changes \/ i = n
      /\ Len(changes') = n /\ n \in DOMAIN changes' /\ n \notin DOMAIN changes
      /\ changes'[n].owner = c /\ changes'[n].branch = BranchOf(c)
      /\ changes'[n].state = "open"
      /\ changes'[n].content = Content(Pending(L)) \cup {n}
  <2>1. TypeOK
    BY DEF IInv
  <2>2. DOMAIN changes = 1..Len(changes) /\ Len(changes) \in Nat
    BY <2>1, Parts
  <2>3. changes' \in Seq(Change) /\ Len(changes') = n
    BY <2>1, WriteType
  <2>4. n \in DOMAIN changes' /\ n \notin DOMAIN changes
    BY <2>2, <2>3
  <2>5. /\ \A i \in DOMAIN changes : i \in DOMAIN changes' /\ changes'[i] = changes[i]
        /\ \A i \in DOMAIN changes' : i \in DOMAIN changes \/ i = n
        /\ changes'[n].owner = c /\ changes'[n].branch = BranchOf(c)
        /\ changes'[n].state = "open"
        /\ changes'[n].content = Content(Pending(BranchOf(c)) \cup Adopted(c)) \cup {n}
    BY <2>1, WriteType
  <2>6. QED
    BY <1>4, <2>3, <2>4, <2>5
<1>6. \A b : Pending(b)' = Pending(b)
  BY <1>5 DEF Pending
<1>7. \A d : Adopted(d)' = Adopted(d)
  BY <1>1, <1>6 DEF Adopted, HeldByBranch
<1> HIDE DEF n, L
<1>8. \A i \in DOMAIN changes : InStage(i)' <=> InStage(i)
  BY <1>1, <1>5 DEF InStage
<1>9. ASSUME NEW i \in DOMAIN changes,
             \/ changes[i].state = "staged"
             \/ i \in Pending(L)
             \/ changes[i].state = "pending" /\ InStage(i)
      PROVE  i \in Content(Pending(L))
  <2>1. CASE Pending(L) = {}
    BY <1>9, <2>1 DEF Content, StageInv, MainKeeps
  <2>2. CASE Pending(L) # {}
    <3>1. Pending(L) \in SUBSET (1..Now) /\ Now \in Nat
      BY PendingType DEF IInv
    <3>2. PICK m \in Pending(L) : /\ Content(Pending(L)) = changes[m].content
                                  /\ \A x \in Pending(L) : x <= m
      BY <2>2, <3>1, LatestIsOne DEF Content
    <3>3. m \in DOMAIN changes /\ Unstaged(m) /\ changes[m].branch = L
      BY <1>4 DEF Pending, Unstaged
    <3>4. Demands(i, m)
      BY <1>9, <3>2, <3>3 DEF Demands, Pending
    <3>5. QED
      BY <3>2, <3>3, <3>4 DEF StageInv, BuildsOn
  <2>3. QED
    BY <2>1, <2>2
<1>10. MainKeeps'
  BY <1>1, <1>5, <1>8 DEF StageInv, MainKeeps
<1>11. BuildsOn'
  <2> SUFFICES ASSUME NEW i \in DOMAIN changes', NEW j \in DOMAIN changes',
                      Unstaged(j)', Demands(i, j)'
               PROVE  i \in changes'[j].content
    BY DEF BuildsOn
  <2>1. i \in DOMAIN changes
    BY <1>5 DEF Demands
  <2>2. CASE j \in DOMAIN changes
    <3>1. Unstaged(j) /\ Demands(i, j)
      BY <1>1, <1>5, <1>8, <2>1, <2>2 DEF Unstaged, Demands
    <3>2. QED
      BY <1>5, <2>1, <2>2, <3>1 DEF StageInv, BuildsOn
  <2>3. CASE j = n
    <3>1. \/ changes[i].state = "staged"
          \/ changes[i].state = "pending" /\ changes[i].branch = BranchOf(c)
          \/ changes[i].state = "pending" /\ InStage(i)
      BY <1>5, <1>8, <2>1, <2>3 DEF Demands
    <3>2. changes[i].state = "pending" /\ changes[i].branch = BranchOf(c) => i \in Pending(L)
      BY <1>4, <2>1 DEF Pending
    <3>3. i \in Content(Pending(L))
      BY <1>9, <2>1, <3>1, <3>2
    <3>4. QED
      BY <1>5, <2>3, <3>3
  <2>4. QED
    BY <1>5, <2>2, <2>3
<1>12. OpenIsNewest'
  <2> SUFFICES ASSUME NEW j \in DOMAIN changes', changes'[j].state = "open"
               PROVE  /\ j = Now' /\ j \in changes'[j].content
                      /\ \A d \in Chats : changes'[j].owner = d
                           => Adopted(d)' \subseteq changes'[j].content
    BY DEF OpenIsNewest
  <2>1. j = n
    BY <1>2, <1>5
  <2>2. Adopted(c)' \subseteq Pending(L)
    BY <1>4, <1>7
  <2>3. Pending(L) \subseteq DOMAIN changes
    BY DEF Pending
  <2>4. QED
    BY <1>5, <1>9, <2>1, <2>2, <2>3 DEF Now
<1>13. StageIsOlder'
  BY <1>5, <1>8 DEF StageInv, StageIsOlder
<1>14. StageSaved'
  BY <1>1, <1>2, <1>5 DEF StageInv, StageSaved
<1>15. QED
  BY <1>10, <1>11, <1>12, <1>13, <1>14 DEF StageInv

\* What a commit does to each change: the writer's uncommitted ones become
\* pending, the adopted ones move to the writer's branch (takeOverEntity).
LEMMA CommitFields ==
  ASSUME IInv, NEW c \in Chats, CommitWrite(c)
  PROVE  /\ txn[c].pc = "written" /\ txn[c].adopts = Adopted(c) /\ c \notin closed
         /\ BranchOf(c) \in Branches \ closed
         /\ HeldByBranch(c) => Adopted(c) = {}
         /\ ~HeldByBranch(c) =>
              /\ lock.branch \in Branches \ closed /\ lock.branch # BranchOf(c)
              /\ Adopted(c) = Pending(lock.branch) /\ Pending(BranchOf(c)) = {}
         /\ DOMAIN changes' = DOMAIN changes /\ Now' = Now
         /\ \A i \in DOMAIN changes :
              /\ changes'[i].content = changes[i].content
              /\ changes[i].state = "open" =>
                   /\ changes[i].owner = c /\ changes[i].branch = BranchOf(c)
                   /\ i \notin Adopted(c)
                   /\ changes'[i].state = "pending" /\ changes'[i].branch = BranchOf(c)
                   /\ changes'[i].owner = c
              /\ i \in Adopted(c) =>
                   /\ changes[i].state = "pending" /\ changes[i].branch = lock.branch
                   /\ changes'[i].state = "pending" /\ changes'[i].branch = BranchOf(c)
                   /\ changes'[i].owner = c
              /\ changes[i].state # "open" /\ i \notin Adopted(c) => changes'[i] = changes[i]
<1>1. /\ txn[c].pc = "written" /\ txn[c].adopts = Adopted(c) /\ c \notin closed /\ rowTx = c
  BY DEF CommitWrite, IInv, WritersLock
<1>2. \A d \in Chats : d # c => txn[d].pc # "written"
  BY <1>1 DEF IInv, WritersLock
<1>3. /\ BranchOf(c) \in Branches \ closed
      /\ HeldByBranch(c) => Adopted(c) = {}
      /\ ~HeldByBranch(c) =>
           /\ lock.branch \in Branches \ closed /\ lock.branch # BranchOf(c)
           /\ Adopted(c) = Pending(lock.branch) /\ Pending(BranchOf(c)) = {}
  <2>1. lock # NoLock \/ HeldByBranch(c)
    BY DEF NoLock, HeldByBranch
  <2>2. QED
    BY <1>1, <2>1, BaseIsBranch
<1>4. \A i \in DOMAIN changes : changes[i].state = "open" =>
        changes[i].owner = c /\ changes[i].branch = BranchOf(c)
  BY <1>2, Parts DEF IInv, OpenIsWritten
<1>5. \A i \in DOMAIN changes : i \in OpenChange(c) <=> changes[i].state = "open"
  BY <1>4 DEF OpenChange
<1>6. \A i \in Adopted(c) : changes[i].state = "pending" /\ changes[i].branch = lock.branch
  BY <1>3 DEF Pending
<1>7. /\ DOMAIN changes' = DOMAIN changes /\ Len(changes') = Len(changes)
      /\ \A i \in DOMAIN changes :
           /\ i \in OpenChange(c) =>
                changes'[i].state = "pending" /\ changes'[i].branch = changes[i].branch
           /\ i \in Adopted(c) \ OpenChange(c) =>
                changes'[i].state = changes[i].state /\ changes'[i].branch = BranchOf(c)
           /\ i \notin OpenChange(c) \cup Adopted(c) => changes'[i] = changes[i]
           /\ i \in OpenChange(c) \cup Adopted(c) => changes'[i].owner = c
           /\ changes'[i].content = changes[i].content
  BY <1>1, CommitType DEF IInv
<1>8. QED
  BY <1>1, <1>3, <1>4, <1>5, <1>6, <1>7 DEF Now

\* A commit keeps the invariant: an adopted change leaves the Stage of the branch
\* it was on, and the writer's change builds on it (takeOverEntity).
LEMMA CommitKeeps ==
  ASSUME IInv, StageInv, NEW c \in Chats, CommitWrite(c)
  PROVE  StageInv'
<1> DEFINE B == BranchOf(c)
           A == Adopted(c)
<1>1. /\ B \in Branches \ closed /\ (A = {} \/ Pending(B) = {})
      /\ \A b \in Branches \ closed : b # B => Pending(b) \subseteq A
      /\ DOMAIN changes' = DOMAIN changes /\ Now' = Now
  <2>1. B \in Branches \ closed /\ (A = {} \/ Pending(B) = {})
    BY CommitFields
  <2>2. ASSUME NEW b \in Branches \ closed, b # B, Pending(b) # {} PROVE Pending(b) \subseteq A
    <3>1. lock.branch = b
      BY <2>2 DEF IInv, PendingLocked
    <3>2. ~HeldByBranch(c)
      BY <2>2, <3>1, Names DEF HeldByBranch
    <3>3. QED
      BY <3>1, <3>2, CommitFields
  <2>3. QED
    BY <2>1, <2>2, CommitFields
<1>2. \A i \in DOMAIN changes :
        /\ changes'[i].content = changes[i].content
        /\ changes[i].state = "open" =>
             /\ changes[i].owner = c /\ changes[i].branch = B /\ i \notin A
             /\ changes'[i].state = "pending" /\ changes'[i].branch = B
        /\ i \in A =>
             /\ changes[i].state = "pending" /\ changes[i].branch = lock.branch
             /\ lock.branch \in Branches \ closed /\ lock.branch # B
             /\ changes'[i].state = "pending" /\ changes'[i].branch = B
        /\ changes[i].state # "open" /\ i \notin A => changes'[i] = changes[i]
  BY CommitFields
<1>3. /\ main' = main /\ closed' = closed
      /\ stage' = [b \in Branches |-> IF stage[b] = NoStage THEN NoStage ELSE stage[b] \ A]
  BY CommitFields DEF CommitWrite
<1>4. \A i \in DOMAIN changes : changes[i].branch \in Branches /\ i \in Nat /\ i <= Now
  BY Parts DEF IInv, Now
<1>5. \A i \in DOMAIN changes : changes[i].state = "open" => i = Now /\ i \in changes[i].content
  BY DEF StageInv, OpenIsNewest
<1>6. \A i \in DOMAIN changes : changes[i].state = "open" => A \subseteq changes[i].content
  BY <1>2 DEF StageInv, OpenIsNewest
<1>7. \A i \in DOMAIN changes : i \in A <=> changes[i].state = "pending" /\ changes[i].branch = lock.branch /\ A # {}
  BY CommitFields DEF Pending
<1> HIDE DEF A, B
<1>8. ASSUME NEW i \in DOMAIN changes
      PROVE  /\ changes[i].state = "open" \/ i \in A => ~InStage(i)'
             /\ InStage(i)' => InStage(i) /\ changes'[i] = changes[i]
  <2>1. changes[i].state = "open" => \A b \in Branches : stage[b] # NoStage => i \notin stage[b]
    BY DEF StageInv, StageSaved
  <2>2. changes'[i].branch \in Branches
    BY <1>1, <1>2, <1>4
  <2>3. stage'[changes'[i].branch]
          = IF stage[changes'[i].branch] = NoStage THEN NoStage ELSE stage[changes'[i].branch] \ A
    BY <1>3, <2>2
  <2>4. QED
    BY <1>2, <2>1, <2>2, <2>3 DEF InStage
<1>9. ASSUME NEW i \in DOMAIN changes, NEW j \in DOMAIN changes,
             changes[j].state # "open", j \notin A, changes'[i].branch = changes'[j].branch,
             InStage(i)', InStage(j)
      PROVE  InStage(j)'
  <2>1. changes'[j] = changes[j] /\ changes[j].branch \in Branches
    BY <1>2, <1>4, <1>9
  <2>2. stage'[changes[j].branch] # NoStage
    BY <1>9, <2>1 DEF InStage
  <2>3. QED
    BY <1>3, <1>9, <2>1, <2>2 DEF InStage
<1>10. \A i \in DOMAIN changes : changes'[i].state # "open"
  BY <1>2
<1>11. MainKeeps'
  <2> SUFFICES ASSUME NEW i \in DOMAIN changes,
                      changes'[i].state = "staged"
                        \/ (changes'[i].state = "pending" /\ InStage(i)')
               PROVE  i \in main
    BY <1>1, <1>3 DEF MainKeeps
  <2>1. changes[i].state = "staged" \/ (changes[i].state = "pending" /\ InStage(i))
    BY <1>2, <1>8
  <2>2. QED
    BY <2>1 DEF StageInv, MainKeeps
<1>12. BuildsOn'
  <2> SUFFICES ASSUME NEW i \in DOMAIN changes, NEW j \in DOMAIN changes,
                      Unstaged(j)', Demands(i, j)'
               PROVE  i \in changes[j].content
    BY <1>1, <1>2 DEF BuildsOn
  <2>1. Demands(i, j) /\ Unstaged(j) => i \in changes[j].content
    BY DEF StageInv, BuildsOn
  <2>2. CASE changes[j].state = "open"
    <3>1. changes'[j].branch = changes[j].branch /\ changes[j].branch = B /\ Unstaged(j)
      BY <1>1, <1>2, <2>2 DEF Unstaged
    <3>2. i \in A \/ i = j \/ Demands(i, j)
      <4>1. CASE changes[i].state = "open"
        BY <1>5, <2>2, <4>1
      <4>2. CASE changes[i].state # "open" /\ i \notin A
        BY <1>2, <1>8, <3>1, <4>2 DEF Demands
      <4>3. QED
        BY <4>1, <4>2
    <3>3. QED
      BY <1>5, <1>6, <2>1, <2>2, <3>1, <3>2
  <2>3. CASE j \in A
    <3>1. /\ changes[j].state = "pending" /\ changes[j].branch = lock.branch /\ Unstaged(j)
          /\ changes'[j].branch = B /\ Pending(B) = {} /\ lock.branch # B
      BY <1>1, <1>2, <2>3 DEF Unstaged
    <3>2. Demands(i, j)
      <4>1. CASE changes[i].state = "open"
        <5>1. i <= j
          BY <1>2, <1>8, <3>1, <4>1 DEF Demands
        <5>2. i = j
          BY <1>4, <1>5, <4>1, <5>1
        <5>3. QED
          BY <3>1, <4>1, <5>2
      <4>2. CASE i \in A
        <5>1. i <= j
          BY <1>2, <1>8, <3>1, <4>2 DEF Demands
        <5>2. QED
          BY <1>2, <3>1, <4>2, <5>1 DEF Demands
      <4>3. CASE changes[i].state # "open" /\ i \notin A
        <5>1. changes'[i] = changes[i]
          BY <1>2, <4>3
        <5>2. changes[i].state = "pending" => changes[i].branch # B /\ changes[i].branch # lock.branch
          BY <1>7, <2>3, <3>1, <4>3 DEF Pending
        <5>3. QED
          BY <1>8, <3>1, <5>1, <5>2 DEF Demands
      <4>4. QED
        BY <4>1, <4>2, <4>3
    <3>3. QED
      BY <2>1, <3>1, <3>2
  <2>4. CASE changes[j].state # "open" /\ j \notin A
    <3>1. changes'[j] = changes[j] /\ Unstaged(j) /\ changes[j].state = "pending"
      BY <1>2, <1>3, <2>4 DEF Unstaged
    <3>2. changes[j].branch = B /\ j \in Pending(B)
      <4>1. j \in Pending(changes[j].branch) /\ changes[j].branch \in Branches \ closed
        BY <1>4, <3>1 DEF Pending, Unstaged
      <4>2. QED
        BY <1>1, <2>4, <4>1
    <3>3. A = {}
      BY <1>1, <3>2
    <3>4. Demands(i, j)
      <4>1. CASE changes[i].state = "open"
        <5>1. i <= j
          BY <1>2, <1>8, <3>1, <3>2, <4>1 DEF Demands
        <5>2. i = j
          BY <1>4, <1>5, <4>1, <5>1
        <5>3. QED
          BY <3>1, <4>1, <5>2
      <4>2. CASE changes[i].state # "open"
        <5>1. changes'[i] = changes[i]
          BY <1>2, <3>3, <4>2
        <5>2. QED
          BY <1>8, <3>1, <5>1 DEF Demands
      <4>3. QED
        BY <4>1, <4>2
    <3>5. QED
      BY <2>1, <3>1, <3>4
  <2>5. QED
    BY <2>2, <2>3, <2>4
<1>13. OpenIsNewest'
  BY <1>1, <1>10 DEF OpenIsNewest
<1>14. StageIsOlder'
  <2> SUFFICES ASSUME NEW i \in DOMAIN changes, NEW j \in DOMAIN changes,
                      changes'[i].state = "pending", changes'[j].state = "pending",
                      changes'[i].branch = changes'[j].branch, InStage(i)', ~InStage(j)'
               PROVE  i < j
    BY <1>1 DEF StageIsOlder
  <2>1. /\ InStage(i) /\ changes'[i] = changes[i] /\ changes[i].state = "pending" /\ i \notin A
    BY <1>2, <1>8
  <2>2. CASE changes[j].state = "open"
    BY <1>4, <1>5, <2>1, <2>2
  <2>3. CASE j \in A
    <3>1. changes[i].branch = B /\ i \in Pending(B) /\ Pending(B) = {}
      BY <1>1, <1>2, <2>1, <2>3 DEF Pending
    <3>2. QED
      BY <3>1
  <2>4. CASE changes[j].state # "open" /\ j \notin A
    <3>1. ~InStage(j) /\ changes'[j] = changes[j]
      BY <1>2, <1>9, <2>4
    <3>2. QED
      BY <2>1, <2>4, <3>1 DEF StageInv, StageIsOlder
  <2>5. QED
    BY <2>2, <2>3, <2>4
<1>15. StageSaved'
  BY <1>1, <1>3, <1>10 DEF StageInv, StageSaved
<1>16. QED
  BY <1>11, <1>12, <1>13, <1>14, <1>15 DEF StageInv

\* Every step keeps what the Stages rely on.
LEMMA StageStep ==
  ASSUME ~ReleaseRaces, IInv, StageInv, [Next]_vars
  PROVE  StageInv'
<1>1. ASSUME NEW c \in Chats, StartRead(c) \/ FinishRead(c) \/ StartWrite(c)
      PROVE  StageInv'
  BY <1>1, StageQuiet DEF StartRead, FinishRead, StartWrite
<1>2. ASSUME NEW c \in Chats, WriteRefused(c) PROVE StageInv'
  <2>1. \A d \in Chats : txn[d].pc # "written"
    BY <1>2, Names DEF WriteRefused, LocksRow, IInv, WritersLock
  <2>2. \A i \in DOMAIN changes : changes[i].state # "open"
    BY <2>1, Parts DEF IInv, OpenIsWritten
  <2>3. QED
    BY <1>2, <2>2, StageQuiet DEF WriteRefused
<1>3. ASSUME NEW c \in Chats, AbortWrite(c) PROVE StageInv'
  <2> DEFINE ids == OpenChange(c)
  <2>1. changes' = Become(ids, "undone")
    BY <1>3 DEF AbortWrite
  <2>2. \A b : ids \cap Pending(b) = {}
    BY DEF OpenChange, Pending
  <2> HIDE DEF ids
  <2>3. \A b : Pending(b)' = Pending(b)
    BY <2>1, <2>2, LessPending DEF IInv
  <2>4. QED
    BY <1>3, <2>1, <2>3, UndoneKeeps DEF AbortWrite
<1>4. ASSUME NEW c \in Chats, FinalizeStage(c) PROVE StageInv'
  <2>1. Writing = {} /\ c \in Branches
    BY <1>4, Names DEF FinalizeStage, Release, MayRelease
  <2>2. QED
    BY <1>4, <2>1, StagedKeeps DEF FinalizeStage
<1>5. CASE FinalizeDraftStage
  <2>1. Writing = {} /\ Draft \in Branches
    BY <1>5, Names DEF FinalizeDraftStage, Release, MayRelease
  <2>2. QED
    BY <1>5, <2>1, StagedKeeps DEF FinalizeDraftStage
<1>6. ASSUME NEW c \in Chats, UndoDraftChat(c) PROVE StageInv'
  <2>1. Writing = {}
    BY <1>6 DEF UndoDraftChat, Release, MayRelease
  <2>2. \A i \in DOMAIN changes : changes[i].state # "open"
    BY <2>1, NoWriter
  <2>3. QED
    BY <1>6, <2>2, UndoneKeeps DEF UndoDraftChat
<1>7. ASSUME NEW c \in Chats, Discard(c) PROVE StageInv'
  <2>1. Writing = {}
    BY <1>7 DEF Discard, Release, MayRelease
  <2>2. \A i \in DOMAIN changes : changes[i].state # "open"
    BY <2>1, NoWriter
  <2>3. QED
    BY <1>7, <2>2, StageQuiet DEF Discard
<1>8. CASE UNCHANGED vars
  BY <1>8, StageQuiet DEF vars
<1>9. QED
  BY <1>1, <1>2, <1>3, <1>4, <1>5, <1>6, <1>7, <1>8, MergeKeeps, BuildFailsKeeps,
     WriteKeeps, CommitKeeps DEF Next

\* What a finished Stage brought to the main line stays there, whatever is staged
\* later and from whichever branch (locks.ts: "the second Stage would silently
\* overwrite the first"), for any number of chats and changes.
THEOREM StagesKeepChanges ==
  ASSUME ~EditsDuringBuild, ~ReleaseRaces
  PROVE  Spec => []StageKeepsChanges
<1>1. Init => IInv /\ StageInv
  <2>1. Init => StageInv
    BY DEF Init, StageInv, MainKeeps, BuildsOn, OpenIsNewest, StageIsOlder, StageSaved
  <2>2. QED
    BY <2>1, LockInit
<1>2. IInv /\ [Next]_vars => IInv'
  BY LockStep
<1>3. IInv /\ StageInv /\ [Next]_vars => StageInv'
  BY StageStep
<1>4. StageInv => StageKeepsChanges
  BY DEF StageInv, MainKeeps, StageKeepsChanges
<1>5. QED
  BY <1>1, <1>2, <1>3, <1>4, PTL DEF Spec

-------------------------------------------------------------------------------
(* What a chat on the shared draft has seen *)

\* Nobody has seen the future.
TimesPast == \A c \in Drafting : seen[c] <= Now /\ txn[c].start <= Now

\* What a chat was shown, or could not be shown by one of its reads.
Excused(c) == known[c] \cup missed[c]

\* A read misses only what is written when it begins, and with a write also what
\* the write takes over.
MissedPast ==
  /\ \A c \in Drafting : missed[c] \subseteq DOMAIN changes
  /\ \A c \in Drafting, j \in DOMAIN changes :
       changes[j].state = "open" /\ j \in missed[c] =>
         txn[changes[j].owner].adopts \subseteq missed[c]

\* An uncommitted change that no read of a chat missed is later than what the chat
\* has seen or reads.
OpenUnseen ==
  \A c \in Drafting, j \in DOMAIN changes :
    changes[j].state = "open" /\ changes[j].owner # c /\ j \notin missed[c] =>
      seen[c] < j /\ (txn[c].pc = "reading" => txn[c].start < j)

\* A write under way has its change, and its chat was shown what is pending, or
\* missed it.
WrittenOpen ==
  \A c \in Chats : txn[c].pc = "written" =>
    \E j \in DOMAIN changes : changes[j].state = "open" /\ changes[j].owner = c

WrittenKnown ==
  \A c \in Drafting : txn[c].pc = "written" =>
    \A i \in Pending(Draft) : changes[i].owner = c \/ i \in Excused(c)

\* A pending change that a chat was not shown and did not miss though it is older
\* than what the chat has seen came by a takeover: its owner's later write, which the chat has
\* not seen, follows it with nothing of others in between.
SeenShown ==
  \A c \in Drafting, i \in Pending(Draft) :
    changes[i].owner # c /\ i \notin Excused(c) /\ i <= seen[c] =>
      \E k \in Pending(Draft) :
        /\ seen[c] < k
        /\ \A m \in Pending(Draft) : i <= m /\ m <= k => changes[m].owner = changes[i].owner

SeenInv == TimesPast /\ MissedPast /\ OpenUnseen /\ WrittenOpen /\ WrittenKnown /\ SeenShown

\* The types of what was seen.
LEMMA SeenTypes ==
  ASSUME TypeOK
  PROVE  /\ Now \in Nat /\ \A i \in DOMAIN changes : i \in Nat /\ i <= Now
         /\ seen \in [Drafting -> Nat] /\ known \in [Chats -> SUBSET Ids]
         /\ missed \in [Drafting -> SUBSET Ids]
         /\ txn \in [Chats -> Txn]
         /\ \A c \in Chats : txn[c].start \in Nat
         /\ \A b : Pending(b) \subseteq DOMAIN changes
<1>1. Times \subseteq Nat
  BY LockAssumption DEF Times
<1>2. seen \in [Drafting -> Nat] /\ known \in [Chats -> SUBSET Ids] /\ txn \in [Chats -> Txn]
  BY <1>1 DEF TypeOK, Txn
<1>3. \A c \in Chats : txn[c].start \in Nat
  BY <1>1, <1>2 DEF Txn
<1>4. Now \in Nat /\ \A i \in DOMAIN changes : i \in Nat /\ i <= Now
  BY Parts DEF Now
<1>5. QED
  BY <1>2, <1>3, <1>4 DEF Pending, TypeOK

\* A chat that is not refused was shown every pending change of the draft, or
\* missed it (draftConflict).
LEMMA NoConflictKnown ==
  ASSUME IInv, SeenShown, NEW c \in Drafting, c \notin closed,
         ~HeldByBranch(c) \/ ~DraftConflict(c)
  PROVE  \A i \in Pending(Draft) : changes[i].owner = c \/ i \in Excused(c)
<1>1. CASE ~HeldByBranch(c)
  <2>1. c \in Chats /\ BranchOf(c) = Draft
    BY Names
  <2>2. lock # NoLock \/ HeldByBranch(c)
    BY DEF NoLock, HeldByBranch
  <2>3. Pending(Draft) = {}
    BY <1>1, <2>1, <2>2, BaseIsBranch
  <2>4. QED
    BY <2>3
<1>2. CASE ~DraftConflict(c)
  <2> SUFFICES ASSUME NEW i \in Pending(Draft), changes[i].owner # c, i \notin Excused(c)
               PROVE  FALSE
    OBVIOUS
  <2>1. /\ seen[c] \in Nat /\ Pending(Draft) \subseteq Nat
    BY SeenTypes DEF IInv
  <2>2. \A k \in Pending(Draft) : seen[c] < k => changes[k].owner = c
    BY <1>2, <2>1 DEF DraftConflict
  <2>3. i <= seen[c]
    BY <2>1, <2>2
  <2>4. PICK k \in Pending(Draft) :
          /\ seen[c] < k
          /\ \A m \in Pending(Draft) : i <= m /\ m <= k => changes[m].owner = changes[i].owner
    BY <2>3 DEF SeenShown
  <2>5. i <= k /\ k <= k
    BY <2>1, <2>3, <2>4
  <2>6. QED
    BY <2>2, <2>4, <2>5
<1>3. QED
  BY <1>1, <1>2

\* What is uncommitted when a read begins: every change under way, whole.
LEMMA InFlightOpen ==
  ASSUME IInv
  PROVE  /\ InFlight \subseteq DOMAIN changes
         /\ \A j \in DOMAIN changes : changes[j].state = "open" =>
              j \in InFlight /\ txn[changes[j].owner].adopts \subseteq InFlight
<1>1. \A j \in DOMAIN changes : changes[j].owner \in Chats
  BY Parts DEF IInv
<1>2. \A c \in Uncommitted : c \in Chats /\ txn[c].adopts \subseteq DOMAIN changes
  <2>1. \A c \in Chats : Adopted(c) \subseteq DOMAIN changes
    BY DEF Adopted, Pending
  <2>2. QED
    BY <2>1 DEF Uncommitted, IInv, WritersLock
<1>3. InFlight \subseteq DOMAIN changes
  BY <1>2 DEF InFlight, OpenChange
<1>4. ASSUME NEW j \in DOMAIN changes, changes[j].state = "open"
      PROVE  j \in InFlight /\ txn[changes[j].owner].adopts \subseteq InFlight
  <2>1. changes[j].owner \in Uncommitted
    BY <1>1, <1>4 DEF IInv, OpenIsWritten, Uncommitted
  <2>2. j \in OpenChange(changes[j].owner)
    BY <1>4 DEF OpenChange
  <2>3. QED
    BY <2>1, <2>2 DEF InFlight
<1>5. QED
  BY <1>3, <1>4

\* The begin of a write keeps what was seen, and so does the begin of a read, which
\* misses what is uncommitted.
LEMMA BeginSeen ==
  ASSUME IInv, SeenInv, NEW c \in Chats, StartWrite(c) \/ StartRead(c)
  PROVE  SeenInv'
<1>1. /\ txn[c].pc = "idle" /\ changes' = changes /\ seen' = seen /\ known' = known
      /\ \A d \in Chats : d # c => txn'[d] = txn[d]
      /\ txn'[c].start = Now /\ txn'[c].pc \in {"started", "reading"}
      /\ \A d \in Drafting : missed[d] \subseteq missed'[d]
      /\ \A d \in Drafting : missed'[d] \subseteq missed[d] \cup InFlight
      /\ txn'[c].pc = "reading" => c \in Drafting /\ InFlight \subseteq missed'[c]
      /\ \A d \in Drafting : missed'[d] = missed[d] \/ InFlight \subseteq missed'[d]
  <2>1. CASE StartWrite(c)
    BY <2>1, SeenTypes DEF IInv, IdleTxn, StartWrite
  <2>2. CASE StartRead(c)
    <3>1. /\ txn[c].pc = "idle" /\ changes' = changes /\ seen' = seen /\ known' = known
          /\ \A d \in Chats : d # c => txn'[d] = txn[d]
          /\ txn'[c].start = Now /\ txn'[c].pc = "reading"
      BY <2>2, SeenTypes DEF IInv, IdleTxn, StartRead
    <3>2. c \in Drafting /\ missed' = [missed EXCEPT ![c] = missed[c] \cup InFlight]
      BY <2>2 DEF StartRead
    <3>3. \A d \in Drafting : missed'[d] = IF d = c THEN missed[c] \cup InFlight ELSE missed[d]
      BY <3>2, SeenTypes DEF IInv
    <3>4. QED
      BY <3>1, <3>2, <3>3
  <2>3. QED
    BY <2>1, <2>2
<1>2. Now' = Now /\ Now \in Nat /\ \A b : Pending(b)' = Pending(b)
  BY <1>1, SeenTypes DEF IInv, Now, Pending
<1>3. TimesPast'
  BY <1>1, <1>2, Names DEF SeenInv, TimesPast
<1>4. MissedPast'
  <2>1. \A d \in Drafting : missed'[d] \subseteq DOMAIN changes'
    BY <1>1, InFlightOpen DEF SeenInv, MissedPast
  <2>2. ASSUME NEW d \in Drafting, NEW j \in DOMAIN changes, changes[j].state = "open",
               j \in missed'[d]
        PROVE  txn'[changes[j].owner].adopts \subseteq missed'[d]
    <3>1. changes[j].owner \in Chats /\ txn[changes[j].owner].pc = "written"
      BY <2>2, Parts DEF IInv, OpenIsWritten
    <3>2. txn'[changes[j].owner] = txn[changes[j].owner]
      BY <1>1, <3>1
    <3>3. CASE missed'[d] = missed[d]
      BY <2>2, <3>2, <3>3 DEF SeenInv, MissedPast
    <3>4. CASE InFlight \subseteq missed'[d]
      BY <2>2, <3>2, <3>4, InFlightOpen
    <3>5. QED
      BY <1>1, <3>3, <3>4
  <2>3. QED
    BY <1>1, <2>1, <2>2 DEF MissedPast
<1>5. OpenUnseen'
  <2> SUFFICES ASSUME NEW d \in Drafting, NEW j \in DOMAIN changes, changes[j].state = "open",
                      changes[j].owner # d, j \notin missed'[d]
               PROVE  seen[d] < j /\ (txn'[d].pc = "reading" => txn'[d].start < j)
    BY <1>1 DEF OpenUnseen
  <2>1. j \notin missed[d] /\ j \in InFlight /\ d \in Chats
    BY <1>1, InFlightOpen, Names
  <2>2. txn'[d].pc = "reading" => txn'[d] = txn[d]
    BY <1>1, <2>1
  <2>3. QED
    BY <2>1, <2>2 DEF SeenInv, OpenUnseen
<1>6. WrittenOpen'
  BY <1>1 DEF SeenInv, WrittenOpen
<1>7. \A d \in Drafting : Excused(d) \subseteq Excused(d)'
  BY <1>1 DEF Excused
<1>8. WrittenKnown'
  BY <1>1, <1>2, <1>7, Names DEF SeenInv, WrittenKnown
<1>9. SeenShown'
  BY <1>1, <1>2, <1>7 DEF SeenInv, SeenShown
<1>10. QED
  BY <1>3, <1>4, <1>5, <1>6, <1>8, <1>9 DEF SeenInv

\* A chat that is shown what is pending, a finished read or a refused write, keeps
\* what was seen: nothing uncommitted that it did not miss is older than its
\* transaction (observeDraftReads).
LEMMA ShownSeen ==
  ASSUME IInv, SeenInv, NEW c \in Chats, changes' = changes, missed' = missed,
         txn[c].pc = "reading" \/ \A i \in DOMAIN changes : changes[i].state # "open",
         txn[c].pc # "written",
         known' = [known EXCEPT ![c] = @ \cup Pending(Draft)], seen' = Seen(c),
         txn' = [txn EXCEPT ![c] = IdleTxn]
  PROVE  SeenInv'
<1>1. /\ \A d \in Chats : d # c => txn'[d] = txn[d] /\ known'[d] = known[d]
      /\ txn'[c].pc = "idle" /\ txn'[c].start = 0
      /\ known'[c] = known[c] \cup Pending(Draft)
  BY SeenTypes DEF IInv, IdleTxn
<1>2. Now' = Now /\ Now \in Nat /\ \A b : Pending(b)' = Pending(b)
  BY SeenTypes DEF IInv, Now, Pending
<1>3. /\ \A d \in Drafting : d # c => seen'[d] = seen[d]
      /\ c \in Drafting => seen'[c] = seen[c] \/ seen'[c] = txn[c].start
  BY SeenTypes DEF IInv, Seen
<1>4. TimesPast'
  BY <1>1, <1>2, <1>3, Names DEF SeenInv, TimesPast
<1>5. OpenUnseen'
  BY <1>1, <1>3, Names DEF SeenInv, OpenUnseen
<1>5a. MissedPast'
  <2>1. \A j \in DOMAIN changes : changes[j].state = "open" =>
          txn'[changes[j].owner] = txn[changes[j].owner]
    BY <1>1, Parts DEF IInv, OpenIsWritten
  <2>2. QED
    BY <2>1 DEF SeenInv, MissedPast
<1>6. WrittenOpen' /\ WrittenKnown'
  BY <1>1, <1>2, Names DEF SeenInv, WrittenOpen, WrittenKnown, Excused
<1>7. SeenShown'
  <2> SUFFICES ASSUME NEW d \in Drafting, NEW i \in Pending(Draft),
                      changes[i].owner # d, i \notin Excused(d)', i <= seen'[d]
               PROVE  \E k \in Pending(Draft) :
                        /\ seen'[d] < k
                        /\ \A m \in Pending(Draft) :
                             i <= m /\ m <= k => changes[m].owner = changes[i].owner
    BY <1>2 DEF SeenShown
  <2>1. d # c /\ d \in Chats
    BY <1>1, Names DEF Excused
  <2>2. i \notin Excused(d)
    BY <1>1, <2>1 DEF Excused
  <2>3. QED
    BY <1>3, <2>1, <2>2 DEF SeenInv, SeenShown
<1>8. QED
  BY <1>4, <1>5, <1>5a, <1>6, <1>7 DEF SeenInv

\* Taking changes off the draft keeps what was seen, when an older change stays
\* only where another chat's change follows it (undoDraftChat,
\* finalizeDraftSelection).
LEMMA LessSeen ==
  ASSUME IInv, SeenInv, Writing = {}, NEW ids, NEW s \in {"staged", "undone"},
         changes' = Become(ids, s), txn' = txn, seen' = seen, known' = known, missed' = missed,
         \A i, k \in Pending(Draft) : i <= k /\ i \notin ids /\ k \in ids =>
           \E m \in Pending(Draft) : i <= m /\ m <= k /\ changes[m].owner # changes[i].owner
  PROVE  SeenInv'
<1>1. /\ DOMAIN changes' = DOMAIN changes /\ Now' = Now
      /\ \A i \in DOMAIN changes :
           /\ changes'[i].owner = changes[i].owner
           /\ changes'[i].state = IF i \in ids THEN s ELSE changes[i].state
  BY BecomeFields DEF IInv
<1>2. Pending(Draft)' = Pending(Draft) \ ids
  BY LessPending DEF IInv
<1>3. /\ \A c \in Chats : txn[c].pc \notin {"started", "written"}
      /\ \A i \in DOMAIN changes : changes[i].state # "open"
  BY NoWriter
<1>4. TimesPast'
  BY <1>1 DEF SeenInv, TimesPast
<1>5. MissedPast' /\ OpenUnseen' /\ WrittenOpen' /\ WrittenKnown'
  BY <1>1, <1>3, Names DEF SeenInv, MissedPast, OpenUnseen, WrittenOpen, WrittenKnown
<1>6. SeenShown'
  <2> SUFFICES ASSUME NEW d \in Drafting, NEW i \in Pending(Draft) \ ids,
                      changes[i].owner # d, i \notin Excused(d), i <= seen[d]
               PROVE  \E k \in Pending(Draft) \ ids :
                        /\ seen[d] < k
                        /\ \A m \in Pending(Draft) \ ids :
                             i <= m /\ m <= k => changes[m].owner = changes[i].owner
    <3>1. \A j \in Pending(Draft) : changes'[j].owner = changes[j].owner
      BY <1>1 DEF Pending
    <3>2. QED
      BY <1>2, <3>1 DEF SeenShown, Excused
  <2>1. PICK k \in Pending(Draft) :
          /\ seen[d] < k
          /\ \A m \in Pending(Draft) : i <= m /\ m <= k => changes[m].owner = changes[i].owner
    BY DEF SeenInv, SeenShown
  <2>2. i <= k
    <3>1. i \in Nat /\ k \in Nat /\ seen[d] \in Nat
      BY SeenTypes DEF IInv
    <3>2. QED
      BY <2>1, <3>1
  <2>3. k \notin ids
    BY <2>1, <2>2
  <2>4. QED
    BY <2>1, <2>3
<1>7. QED
  BY <1>4, <1>5, <1>6 DEF SeenInv

\* A write keeps what was seen: its change is later than anything seen, and its
\* chat was not refused (draftConflict, emitSnapshot).
LEMMA WriteSeen ==
  ASSUME IInv, SeenInv, NEW c \in Chats, Write(c)
  PROVE  SeenInv'
<1> DEFINE n == Len(changes) + 1
<1>1. /\ txn[c].pc = "started" /\ c \notin closed /\ seen' = seen /\ known' = known
      /\ missed' = missed /\ (~HeldByBranch(c) \/ ~DraftConflict(c))
      /\ \A d \in Chats : d # c => txn'[d] = txn[d]
      /\ txn'[c].pc = "written" /\ txn'[c].start = txn[c].start
  BY SeenTypes DEF Write, LocksRow, NoRow, IInv, WritersLock, Txn
<1>2. /\ \A i \in DOMAIN changes : i \in DOMAIN changes' /\ changes'[i] = changes[i]
      /\ \A i \in DOMAIN changes' : i \in DOMAIN changes \/ i = n
      /\ n \in DOMAIN changes' /\ n \notin DOMAIN changes /\ Now' = Now + 1 /\ n = Now + 1
      /\ changes'[n].owner = c /\ changes'[n].state = "open"
  <2>1. DOMAIN changes = 1..Len(changes) /\ Len(changes) \in Nat
    BY Parts DEF IInv
  <2>2. changes' \in Seq(Change) /\ Len(changes') = n
    BY WriteType DEF IInv
  <2>3. n \in DOMAIN changes' /\ n \notin DOMAIN changes
    BY <2>1, <2>2
  <2>4. QED
    BY <2>2, <2>3, WriteType DEF IInv, Now
<1>3. Pending(Draft)' = Pending(Draft)
  BY <1>2 DEF Pending
<1>4. /\ Now \in Nat /\ \A d \in Drafting : seen[d] \in Nat /\ txn[d].start \in Nat
      /\ \A b : Pending(b) \subseteq DOMAIN changes
  BY SeenTypes, Names DEF IInv
<1> HIDE DEF n
<1>5. \A d \in Drafting : seen[d] <= Now /\ txn[d].start <= Now
                           /\ txn'[d].start = txn[d].start
  BY <1>1, Names DEF SeenInv, TimesPast
<1>6. TimesPast'
  BY <1>1, <1>2, <1>4, <1>5 DEF TimesPast
<1>7. OpenUnseen'
  <2> SUFFICES ASSUME NEW d \in Drafting, NEW j \in DOMAIN changes',
                      changes'[j].state = "open", changes'[j].owner # d, j \notin missed[d]
               PROVE  seen[d] < j /\ (txn'[d].pc = "reading" => txn'[d].start < j)
    BY <1>1 DEF OpenUnseen
  <2>1. CASE j = n
    BY <1>2, <1>4, <1>5, <2>1
  <2>2. CASE j \in DOMAIN changes
    <3>1. txn'[d].pc = "reading" => txn'[d] = txn[d]
      BY <1>1, Names
    <3>2. QED
      BY <1>2, <2>2, <3>1 DEF SeenInv, OpenUnseen
  <2>3. QED
    BY <1>2, <2>1, <2>2
<1>7a. MissedPast'
  <2>1. \A d \in Drafting : missed[d] \subseteq DOMAIN changes /\ n \notin missed[d]
    BY <1>2 DEF SeenInv, MissedPast
  <2>2. \A j \in DOMAIN changes : changes[j].state = "open" =>
          txn'[changes[j].owner] = txn[changes[j].owner]
    BY <1>1, Parts DEF IInv, OpenIsWritten
  <2>3. QED
    BY <1>1, <1>2, <2>1, <2>2 DEF SeenInv, MissedPast
<1>8. WrittenOpen'
  <2> SUFFICES ASSUME NEW d \in Chats, txn'[d].pc = "written"
               PROVE  \E j \in DOMAIN changes' : changes'[j].state = "open" /\ changes'[j].owner = d
    BY DEF WrittenOpen
  <2>1. CASE d = c
    BY <1>2, <2>1
  <2>2. CASE d # c
    BY <1>1, <1>2, <2>2 DEF SeenInv, WrittenOpen
  <2>3. QED
    BY <2>1, <2>2
<1>9. \A i \in Pending(Draft) : changes'[i] = changes[i]
  BY <1>2, <1>4
<1>10. WrittenKnown'
  <2> SUFFICES ASSUME NEW d \in Drafting, txn'[d].pc = "written", NEW i \in Pending(Draft)
               PROVE  changes[i].owner = d \/ i \in Excused(d)
    BY <1>1, <1>3, <1>9 DEF WrittenKnown, Excused
  <2>1. CASE d = c
    BY <1>1, <2>1, NoConflictKnown DEF SeenInv
  <2>2. CASE d # c
    BY <1>1, <2>2, Names DEF SeenInv, WrittenKnown
  <2>3. QED
    BY <2>1, <2>2
<1>11. SeenShown'
  BY <1>1, <1>3, <1>9 DEF SeenInv, SeenShown, Excused
<1>12. QED
  BY <1>6, <1>7, <1>7a, <1>8, <1>10, <1>11 DEF SeenInv

\* A write that rolls back keeps what was seen.
LEMMA AbortSeen ==
  ASSUME IInv, SeenInv, NEW c \in Chats, AbortWrite(c)
  PROVE  SeenInv'
<1> DEFINE ids == OpenChange(c)
<1>1. /\ changes' = Become(ids, "undone") /\ seen' = seen /\ known' = known
      /\ missed' = missed
      /\ txn' = [txn EXCEPT ![c] = IdleTxn]
  BY DEF AbortWrite
<1>2. \A i \in DOMAIN changes : i \in ids <=> changes[i].owner = c /\ changes[i].state = "open"
  BY DEF OpenChange
<1> HIDE DEF ids
<1>3. /\ DOMAIN changes' = DOMAIN changes /\ Now' = Now
      /\ \A i \in DOMAIN changes :
           /\ changes'[i].owner = changes[i].owner
           /\ changes'[i].branch = changes[i].branch
           /\ changes'[i].state = IF i \in ids THEN "undone" ELSE changes[i].state
  BY <1>1, BecomeFields DEF IInv
<1>4. Pending(Draft)' = Pending(Draft) /\ Pending(Draft) \subseteq DOMAIN changes
  BY <1>2, <1>3 DEF Pending
<1>5. /\ \A d \in Chats : d # c => txn'[d] = txn[d]
      /\ txn'[c].pc = "idle" /\ txn'[c].start = 0 /\ Now \in Nat
  BY <1>1, SeenTypes DEF IInv, IdleTxn
<1>6. TimesPast'
  BY <1>1, <1>3, <1>5, Names DEF SeenInv, TimesPast
<1>7. OpenUnseen'
  BY <1>1, <1>3, <1>5, Names DEF SeenInv, OpenUnseen
<1>7a. MissedPast'
  <2>1. \A j \in DOMAIN changes : changes[j].owner \in Chats
    BY Parts DEF IInv
  <2>2. \A j \in DOMAIN changes : changes'[j].state = "open" =>
          changes[j].state = "open" /\ changes[j].owner # c
    BY <1>2, <1>3
  <2>3. QED
    BY <1>1, <1>3, <1>5, <2>1, <2>2 DEF SeenInv, MissedPast
<1>8. WrittenOpen'
  BY <1>2, <1>3, <1>5 DEF SeenInv, WrittenOpen
<1>9. WrittenKnown'
  BY <1>1, <1>3, <1>4, <1>5, Names DEF SeenInv, WrittenKnown, Excused
<1>10. SeenShown'
  BY <1>1, <1>3, <1>4 DEF SeenInv, SeenShown, Excused
<1>11. QED
  BY <1>6, <1>7, <1>7a, <1>8, <1>9, <1>10 DEF SeenInv

\* A commit keeps what was seen: the writer was shown the rest of the draft, or
\* missed it, and for the others its change follows whatever it adopted, or they
\* missed both (takeOverEntity).
LEMMA CommitSeen ==
  ASSUME IInv, StageInv, SeenInv, NEW c \in Chats, CommitWrite(c)
  PROVE  SeenInv'
<1> DEFINE B == BranchOf(c)
           A == Adopted(c)
           P == Pending(Draft)
<1>0. /\ txn[c].pc = "written" /\ DOMAIN changes' = DOMAIN changes /\ Now' = Now
      /\ \A i \in DOMAIN changes :
           /\ changes[i].state = "open" =>
                /\ changes[i].owner = c /\ changes[i].branch = B /\ i \notin A
                /\ changes'[i].state = "pending" /\ changes'[i].branch = B
                /\ changes'[i].owner = c
           /\ i \in A =>
                /\ changes[i].state = "pending" /\ changes[i].branch = lock.branch
                /\ lock.branch # B
                /\ changes'[i].state = "pending" /\ changes'[i].branch = B
                /\ changes'[i].owner = c
           /\ changes[i].state # "open" /\ i \notin A => changes'[i] = changes[i]
      /\ A = {} \/ (A = Pending(lock.branch) /\ Pending(B) = {})
  BY CommitFields
<1>1. /\ \A d \in Chats : d # c => txn'[d] = txn[d] /\ known'[d] = known[d]
      /\ txn'[c].pc = "idle" /\ txn'[c].start = 0
      /\ known[c] \subseteq known'[c]
      /\ \A d \in Drafting : d # c => seen'[d] = seen[d]
      /\ c \in Drafting => seen'[c] = seen[c] \/ seen'[c] = txn[c].start
      /\ missed' = missed /\ txn[c].adopts = A
  BY <1>0, SeenTypes DEF IInv, CommitWrite, Seen, IdleTxn, WritersLock
<1>2. /\ Now \in Nat /\ P \subseteq DOMAIN changes
      /\ \A i \in DOMAIN changes : i \in Nat /\ i <= Now
      /\ \A d \in Drafting : seen[d] \in Nat
  BY SeenTypes DEF IInv
<1>3. \A i \in DOMAIN changes : changes'[i].state # "open"
  BY <1>0
<1>4. \A i \in DOMAIN changes : changes[i].state = "open" => i = Now
  BY DEF StageInv, OpenIsNewest
<1>5. \A d \in Chats : d # c => txn[d].pc # "written"
  BY <1>0 DEF IInv, WritersLock
<1>6. TimesPast'
  BY <1>0, <1>1, <1>2, Names DEF SeenInv, TimesPast
<1>7. MissedPast' /\ OpenUnseen' /\ WrittenOpen' /\ WrittenKnown'
  BY <1>0, <1>1, <1>3, <1>5, Names
     DEF SeenInv, MissedPast, OpenUnseen, WrittenOpen, WrittenKnown
<1>8. \A i \in Pending(Draft)' :
        /\ i \in DOMAIN changes
        /\ \/ changes[i].state = "open" /\ B = Draft
           \/ i \in A /\ B = Draft
           \/ i \in P /\ changes'[i] = changes[i] /\ i \notin A
  <2> SUFFICES ASSUME NEW i \in DOMAIN changes, changes'[i].branch = Draft,
                      changes'[i].state = "pending"
               PROVE  \/ changes[i].state = "open" /\ B = Draft
                      \/ i \in A /\ B = Draft
                      \/ i \in P /\ changes'[i] = changes[i] /\ i \notin A
    BY <1>0 DEF Pending
  <2>1. QED
    BY <1>0 DEF Pending
<1>9. \A i \in P : i \notin A => i \in Pending(Draft)' /\ changes'[i] = changes[i]
  BY <1>0 DEF Pending
<1>10. A # {} /\ B = Draft => P = {}
  BY <1>0
<1>11. c \in Drafting => B = Draft
  BY Names
<1>12. B = Draft => c \in Drafting
  BY Names DEF Chats
<1>13. A # {} /\ B # Draft /\ P \cap A # {} => P \subseteq A
  BY <1>0 DEF Pending
<1> HIDE DEF A, B
<1>14. SeenShown'
  <2> SUFFICES ASSUME NEW d \in Drafting, NEW i \in Pending(Draft)',
                      changes'[i].owner # d, i \notin Excused(d)', i <= seen'[d]
               PROVE  \E k \in Pending(Draft)' :
                        /\ seen'[d] < k
                        /\ \A m \in Pending(Draft)' :
                             i <= m /\ m <= k => changes'[m].owner = changes'[i].owner
    BY DEF SeenShown
  <2>0. d \in Chats
    BY Names
  <2>1. d # c
    <3>1. CASE d = c
      <4>1. i \in P /\ changes'[i] = changes[i]
        BY <1>0, <1>8, <3>1
      <4>2. changes[i].owner = c \/ i \in Excused(c)
        BY <1>0, <3>1, <4>1 DEF SeenInv, WrittenKnown
      <4>3. QED
        BY <1>1, <3>1, <4>1, <4>2 DEF Excused
    <3>2. QED
      BY <3>1
  <2>2. seen'[d] = seen[d] /\ i \notin missed[d] /\ i \notin Excused(d)
    BY <1>1, <2>0, <2>1 DEF Excused
  <2>3. CASE changes[i].state = "open"
    <3>1. seen[d] < i
      BY <1>0, <1>8, <2>1, <2>2, <2>3 DEF SeenInv, OpenUnseen
    <3>2. QED
      BY <1>2, <1>8, <2>2, <3>1
  <2>4. CASE i \in A /\ B = Draft
    <3>1. PICK k \in DOMAIN changes : changes[k].state = "open" /\ changes[k].owner = c
      BY <1>0 DEF SeenInv, WrittenOpen
    <3>2. seen[d] < k
      <4>1. k \notin missed[d]
        BY <1>1, <2>2, <2>4, <3>1 DEF SeenInv, MissedPast
      <4>2. QED
        BY <2>1, <3>1, <4>1 DEF SeenInv, OpenUnseen
    <3>3. k \in Pending(Draft)'
      BY <1>0, <2>4, <3>1 DEF Pending
    <3>4. \A m \in Pending(Draft)' : changes'[m].owner = c
      BY <1>0, <1>8, <1>10, <2>4
    <3>5. QED
      BY <2>2, <3>2, <3>3, <3>4
  <2>5. CASE i \in P /\ changes'[i] = changes[i] /\ i \notin A
    <3>1. PICK k \in P :
            /\ seen[d] < k
            /\ \A m \in P : i <= m /\ m <= k => changes[m].owner = changes[i].owner
      BY <2>2, <2>5 DEF SeenInv, SeenShown
    <3>2. \A m \in P : m \notin A
      BY <1>10, <1>13, <2>5
    <3>3. k \in Pending(Draft)'
      BY <1>9, <3>1, <3>2
    <3>4. ASSUME NEW m \in Pending(Draft)', i <= m, m <= k
          PROVE  changes'[m].owner = changes'[i].owner
      <4>1. CASE changes[m].state = "open"
        <5>1. m = Now /\ k = Now
          BY <1>2, <1>4, <1>8, <3>4, <4>1
        <5>2. changes[k].state = "pending"
          BY DEF Pending
        <5>3. QED
          BY <4>1, <5>1, <5>2
      <4>2. CASE m \in A /\ B = Draft
        BY <1>10, <2>5, <4>2
      <4>3. CASE m \in P /\ changes'[m] = changes[m]
        BY <2>5, <3>1, <3>4, <4>3
      <4>4. QED
        BY <1>8, <4>1, <4>2, <4>3
    <3>5. QED
      BY <2>2, <3>1, <3>3, <3>4
  <2>6. QED
    BY <1>8, <2>3, <2>4, <2>5
<1>15. QED
  BY <1>6, <1>7, <1>14 DEF SeenInv

\* Every step keeps what was seen and what was missed.
LEMMA SeenStep ==
  ASSUME ~ReleaseRaces, IInv, StageInv, SeenInv, [Next]_vars
  PROVE  SeenInv'
<1>0. \A c \in Chats : c \in Isolated \/ c \in Drafting
  BY DEF Chats
<1>1. ASSUME NEW c \in Chats, StartRead(c) \/ StartWrite(c) PROVE SeenInv'
  BY <1>1, BeginSeen
<1>2. ASSUME NEW c \in Chats, FinishRead(c) PROVE SeenInv'
  BY <1>2, ShownSeen DEF FinishRead
<1>3. ASSUME NEW c \in Chats, WriteRefused(c) PROVE SeenInv'
  <2>1. \A d \in Chats : txn[d].pc # "written"
    BY <1>3, Names DEF WriteRefused, LocksRow, IInv, WritersLock
  <2>2. \A i \in DOMAIN changes : changes[i].state # "open"
    BY <2>1, Parts DEF IInv, OpenIsWritten
  <2>3. QED
    BY <1>3, <2>1, <2>2, ShownSeen DEF WriteRefused
<1>4. ASSUME changes' = changes, txn' = txn, seen' = seen, known' = known, missed' = missed
      PROVE  SeenInv'
  <2>1. Now' = Now /\ Pending(Draft)' = Pending(Draft)
    BY <1>4 DEF Now, Pending
  <2>2. QED
    BY <1>4, <2>1 DEF SeenInv, TimesPast, MissedPast, OpenUnseen, WrittenOpen, WrittenKnown,
       SeenShown, Excused
<1>5. ASSUME NEW b \in Branches, Merge(b) \/ BuildFails(b) PROVE SeenInv'
  BY <1>4, <1>5 DEF Merge, BuildFails
<1>6. ASSUME NEW c \in Chats, Discard(c) PROVE SeenInv'
  BY <1>4, <1>6 DEF Discard
<1>7. \A i \in DOMAIN changes : i \in Nat
  BY SeenTypes DEF IInv
<1>8. ASSUME NEW c \in Chats, FinalizeStage(c) PROVE SeenInv'
  <2> DEFINE ids == Finalized(c)
  <2>1. Writing = {} /\ c # Draft
    BY <1>8, Names DEF FinalizeStage, Release, MayRelease
  <2>2. \A k \in Pending(Draft) : k \notin ids
    BY <2>1 DEF Finalized, Pending
  <2>3. changes' = Become(ids, "staged") /\ txn' = txn /\ seen' = seen /\ known' = known
        /\ missed' = missed
    BY <1>8 DEF FinalizeStage
  <2> HIDE DEF ids
  <2>4. QED
    BY <2>1, <2>2, <2>3, LessSeen
<1>9. CASE FinalizeDraftStage
  <2> DEFINE ids == Finalized(Draft)
  <2>1. Writing = {} /\ stage[Draft] # NoStage
    BY <1>9 DEF FinalizeDraftStage, Release, MayRelease
  <2>2. \A i \in Pending(Draft) : i \in ids <=> InStage(i)
    BY <2>1 DEF Finalized, Pending, InStage
  <2>3. changes' = Become(ids, "staged") /\ txn' = txn /\ seen' = seen /\ known' = known
        /\ missed' = missed
    BY <1>9 DEF FinalizeDraftStage
  <2> HIDE DEF ids
  <2>4. ASSUME NEW i \in Pending(Draft), NEW k \in Pending(Draft), i <= k, i \notin ids, k \in ids
        PROVE  FALSE
    <3>1. k < i
      BY <2>2, <2>4 DEF StageInv, StageIsOlder, Pending
    <3>2. i \in Nat /\ k \in Nat
      BY <1>7 DEF Pending
    <3>3. QED
      BY <2>4, <3>1, <3>2
  <2>5. QED
    BY <2>1, <2>3, <2>4, LessSeen
<1>10. ASSUME NEW c \in Chats, UndoDraftChat(c) PROVE SeenInv'
  <2> DEFINE own == {i \in Pending(Draft) : changes[i].owner = c}
             ids == {i \in Pending(Draft) : \E j \in own : j <= i}
  <2>1. Writing = {}
    BY <1>10 DEF UndoDraftChat, Release, MayRelease
  <2>2. changes' = Become(ids, "undone") /\ txn' = txn /\ seen' = seen /\ known' = known
        /\ missed' = missed
    BY <1>10 DEF UndoDraftChat
  <2>3. ASSUME NEW i \in Pending(Draft), NEW k \in Pending(Draft), i <= k, i \notin ids, k \in ids
        PROVE  \E m \in Pending(Draft) :
                 i <= m /\ m <= k /\ changes[m].owner # changes[i].owner
    <3>1. PICK j \in own : j <= k
      BY <2>3
    <3>2. i \in Nat /\ j \in Nat
      BY <1>7 DEF Pending
    <3>3. i < j
      BY <2>3, <3>2
    <3>4. i \notin own
      BY <2>3, <3>2
    <3>5. QED
      BY <3>1, <3>2, <3>3, <3>4
  <2> HIDE DEF ids
  <2>4. QED
    BY <2>1, <2>2, <2>3, LessSeen
<1>11. CASE UNCHANGED vars
  BY <1>4, <1>11 DEF vars
<1>12. QED
  BY <1>1, <1>2, <1>3, <1>5, <1>6, <1>8, <1>9, <1>10, <1>11, WriteSeen, AbortSeen, CommitSeen
     DEF Next

\* The only pending changes of other chats that a chat overwrites on the shared draft
\* unseen are those whose write, or takeover, was uncommitted when one of its own reads
\* began (draftConflict with the observations of reads), for any number of chats.
THEOREM NothingOverwrittenUnseen ==
  ASSUME ~EditsDuringBuild, ~ReleaseRaces
  PROVE  Spec => BlindOnlyByOverlap
<1> DEFINE Shown(c) == \A i \in Pending(Draft) :
                         changes[i].owner = c \/ i \in known[c] \/ i \in missed[c]
           Inv == IInv /\ StageInv /\ SeenInv
<1>1. Init => Inv
  <2>1. Init => StageInv
    BY DEF Init, StageInv, MainKeeps, BuildsOn, OpenIsNewest, StageIsOlder, StageSaved
  <2>2. Init => SeenInv
    BY Names DEF Init, SeenInv, TimesPast, MissedPast, OpenUnseen, WrittenOpen, WrittenKnown, SeenShown,
           Pending, Now, IdleTxn
  <2>3. QED
    BY <2>1, <2>2, LockInit
<1>2. Inv /\ [Next]_vars => Inv'
  BY LockStep, StageStep, SeenStep
<1>3. Inv /\ [Next]_vars
        => [\A c \in Drafting :
              txn[c].pc = "started" /\ txn'[c].pc = "written"
                => \A i \in Pending(Draft) :
                     changes[i].owner = c \/ i \in known[c] \/ i \in missed[c]]_vars
  <2> SUFFICES ASSUME Inv, Next, NEW c \in Drafting,
                      txn[c].pc = "started", txn'[c].pc = "written"
               PROVE  Shown(c)
    BY DEF vars
  <2>0. txn \in [Chats -> Txn] /\ c \in Chats /\ TypeOK
    BY SeenTypes, Names DEF IInv
  <2>1. Write(c)
    <3>1. ASSUME NEW d \in Chats,
                 StartRead(d) \/ FinishRead(d) \/ StartWrite(d) \/ WriteRefused(d)
                   \/ CommitWrite(d) \/ AbortWrite(d)
          PROVE  FALSE
      <4>1. txn' = [txn EXCEPT ![d] = txn'[d]] /\ txn'[d].pc # "written"
        BY <2>0, <3>1, TxnType DEF StartRead, FinishRead, StartWrite, WriteRefused,
           CommitWrite, AbortWrite
      <4>2. QED
        BY <2>0, <4>1
    <3>2. ASSUME NEW d \in Chats, Write(d), d # c PROVE FALSE
      BY <2>0, <3>2 DEF Write
    <3>3. ASSUME txn' = txn PROVE FALSE
      BY <3>3
    <3>4. QED
      BY <3>1, <3>2, <3>3 DEF Next, FinalizeStage, UndoDraftChat, Discard, Merge, BuildFails,
         FinalizeDraftStage
  <2>2. c \notin closed /\ ~NoRow(c)
    BY <2>0 DEF IInv, WritersLock, NoRow
  <2>3. QED
    BY <2>1, <2>2, NoConflictKnown DEF Write, SeenInv, Excused
<1> HIDE DEF Inv
<1>4. QED
  BY <1>1, <1>2, <1>3, PTL DEF Spec, BlindOnlyByOverlap
===============================================================================
