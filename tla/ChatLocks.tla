------------------------------- MODULE ChatLocks -------------------------------
(***************************************************************************)
(* Write locks, lock takeover and optimistic versioning for one entity     *)
(* edited by several chats (admin-core locks.ts, lock-takeover.ts,         *)
(* draft.ts) and the Stage, undo and discard that consume their changes    *)
(* (ops/chat/publish.ts, draft-ops.ts, discard.ts).  A chat works on a     *)
(* branch of its own or on the shared draft.  A change is its number in    *)
(* the order of the clock; its content is the set of changes it builds on. *)
(***************************************************************************)
EXTENDS Naturals, Sequences, FiniteSets, FiniteSetsExt

CONSTANTS Isolated,          \* chats with a branch of their own
          Drafting,          \* chats on the shared draft
          Draft,             \* the shared draft's branch
          NoOne,             \* no lock row, no transaction that locks it
          NoStage,           \* no Stage under way
          MaxChanges,        \* bound: writes of the entity
          EditsDuringBuild,  \* an isolated chat may write while its Stage builds
          ReleaseRaces       \* a release may run while a write is under way

Chats == Isolated \cup Drafting
Branches == Isolated \cup {Draft}

ASSUME LockAssumption ==
  /\ Isolated \cap Drafting = {} /\ Draft \notin Chats
  /\ {NoOne, NoStage} \cap (Chats \cup {Draft}) = {}
  /\ MaxChanges \in Nat
  /\ {EditsDuringBuild, ReleaseRaces} \subseteq BOOLEAN

VARIABLES changes,   \* the snapshots of the entity, by the time of the write
          main,      \* the content of the main line
          lock,      \* the committed row of chat_entity_locks
          rowTx,     \* the chat whose transaction holds (or inserts) that row
          txn,       \* the write or read under way of each chat
          seen,      \* draft_entity_observations.seen_at
          known,     \* history: the changes each chat was shown
          missed,    \* history: the changes in flight when a read of the chat began
          stage,     \* per branch: the changes a Stage merged and builds
          closed     \* the discarded chats

vars == <<changes, main, lock, rowTx, txn, seen, known, missed, stage, closed>>

Ids == 1..MaxChanges
Times == 0..MaxChanges

Change == [owner : Chats, branch : Branches, content : SUBSET Ids,
           state : {"open", "pending", "staged", "undone"}]

\* No row for the entity in chat_entity_locks.
NoLock == [chat |-> NoOne, branch |-> NoOne]

IdleTxn == [pc |-> "idle", start |-> 0, adopts |-> {}]

TypeOK ==
  /\ changes \in Seq(Change) /\ Len(changes) <= MaxChanges
  /\ main \subseteq Ids
  /\ lock \in [chat : Chats, branch : Branches] \cup {NoLock}
  /\ rowTx \in Chats \cup {NoOne}
  /\ txn \in [Chats -> [pc : {"idle", "started", "written", "reading"}, start : Times,
                        adopts : SUBSET Ids]]
  /\ seen \in [Drafting -> Times]
  /\ known \in [Chats -> SUBSET Ids]
  /\ missed \in [Drafting -> SUBSET Ids]
  /\ stage \in [Branches -> (SUBSET Ids) \cup {NoStage}]
  /\ closed \subseteq Isolated

Init ==
  /\ changes = <<>>
  /\ main = {}
  /\ lock = NoLock
  /\ rowTx = NoOne
  /\ txn = [c \in Chats |-> IdleTxn]
  /\ seen = [c \in Drafting |-> 0]
  /\ known = [c \in Chats |-> {}]
  /\ missed = [c \in Drafting |-> {}]
  /\ stage = [b \in Branches |-> NoStage]
  /\ closed = {}

-------------------------------------------------------------------------------

BranchOf(c) == IF c \in Isolated THEN c ELSE Draft

\* The time: the number of writes so far.
Now == Len(changes)

\* pendingSnapshotSql, for the entity on one branch.
Pending(b) == {i \in DOMAIN changes : changes[i].branch = b /\ changes[i].state = "pending"}

\* The branch overlay: the latest pending state, else the main line.
Content(pending) == IF pending = {} THEN main ELSE changes[Max(pending)].content

Uncommitted == {c \in Chats : txn[c].pc = "written"}

Writing == {c \in Chats : txn[c].pc \in {"started", "written"}}

Become(ids, state) ==
  [i \in DOMAIN changes |-> IF i \in ids THEN [changes[i] EXCEPT !.state = state] ELSE changes[i]]

-------------------------------------------------------------------------------
(* Reads *)

OpenChange(c) == {i \in DOMAIN changes : changes[i].owner = c /\ changes[i].state = "open"}

\* Changes that are stamped, or taken over, and not committed.
InFlight == UNION {OpenChange(c) \cup txn[c].adopts : c \in Uncommitted}

\* The transaction of a read begins; its time is what it will have seen.
StartRead(c) ==
  /\ c \in Drafting /\ txn[c].pc = "idle"
  /\ txn' = [txn EXCEPT ![c] = [IdleTxn EXCEPT !.pc = "reading", !.start = Now]]
  /\ missed' = [missed EXCEPT ![c] = @ \cup InFlight]
  /\ UNCHANGED <<changes, main, lock, rowTx, seen, known, stage, closed>>

Seen(c) == [seen EXCEPT ![c] = IF txn[c].start > @ THEN txn[c].start ELSE @]

\* observeDraftReads.
FinishRead(c) ==
  /\ txn[c].pc = "reading"
  /\ known' = [known EXCEPT ![c] = @ \cup Pending(Draft)]
  /\ seen' = Seen(c)
  /\ txn' = [txn EXCEPT ![c] = IdleTxn]
  /\ UNCHANGED <<changes, main, lock, rowTx, missed, stage, closed>>

-------------------------------------------------------------------------------
(* checkAndAcquireEntityLock and the write it guards *)

\* The Stage of an isolated chat is under way.
Building(c) == c \in {b \in Isolated : stage[b] # NoStage}

\* INSERT ... ON CONFLICT DO NOTHING: it waits for another's uncommitted row.
StartWrite(c) ==
  /\ c \notin closed /\ txn[c].pc = "idle" /\ Now < MaxChanges
  /\ EditsDuringBuild \/ ~Building(c)
  /\ lock # NoLock \/ rowTx = NoOne
  /\ rowTx' = IF lock = NoLock THEN c ELSE rowTx
  /\ txn' = [txn EXCEPT ![c] = [IdleTxn EXCEPT !.pc = "started", !.start = Now]]
  /\ UNCHANGED <<changes, main, lock, seen, known, missed, stage, closed>>

\* The row was removed after the insert found it: SELECT ... FOR UPDATE gets none.
NoRow(c) == lock = NoLock /\ rowTx # c

\* SELECT ... FOR UPDATE waits for the transaction that holds the row.
LocksRow(c) == txn[c].pc = "started" /\ (NoRow(c) \/ rowTx \in {c, NoOne})

HeldByBranch(c) == lock.branch \in {NoOne, BranchOf(c)}

\* Mutant of DraftConflict: the chat's own changes only.
DraftConflictNever(c) == FALSE

\* draftConflict: another chat changed it after this chat last saw it.
DraftConflict(c) ==
  /\ c \in Drafting
  /\ \E i \in Pending(Draft) : changes[i].owner # c /\ i > seen[c]

\* The refused write is told what it would overwrite.
WriteRefused(c) ==
  /\ LocksRow(c) /\ ~NoRow(c) /\ HeldByBranch(c)
  /\ DraftConflict(c)
  /\ seen' = Seen(c)
  /\ known' = [known EXCEPT ![c] = @ \cup Pending(Draft)]
  /\ rowTx' = NoOne
  /\ lock' = IF rowTx = c THEN [chat |-> c, branch |-> Draft] ELSE lock
  /\ txn' = [txn EXCEPT ![c] = IdleTxn]
  /\ UNCHANGED <<changes, main, missed, stage, closed>>

\* Mutant of Adopted: only the lock moves.
AdoptedNothing(c) == {}

\* takeOverEntity: the pending changes of the branch that holds the lock.
Adopted(c) == IF HeldByBranch(c) THEN {} ELSE Pending(lock.branch)

\* emitSnapshot: the write is stamped with the clock, on the branch's state.  With
\* no row to lock it is permitted unchecked.
Write(c) ==
  /\ LocksRow(c) /\ Now < MaxChanges
  /\ NoRow(c) \/ ~HeldByBranch(c) \/ ~DraftConflict(c)
  /\ LET base == Content(Pending(BranchOf(c)) \cup Adopted(c))
     IN  changes' = Append(changes, [owner |-> c, branch |-> BranchOf(c), state |-> "open",
                                     content |-> base \cup {Now + 1}])
  /\ txn' = [txn EXCEPT ![c].pc = "written", ![c].adopts = Adopted(c)]
  /\ rowTx' = IF lock = NoLock THEN rowTx ELSE c
  /\ UNCHANGED <<main, lock, seen, known, missed, stage, closed>>

\* The adopted changes, under new headers no Stage selected, and the lock are
\* the writer's.
CommitWrite(c) ==
  /\ txn[c].pc = "written"
  /\ changes' = [i \in DOMAIN changes |->
                   IF i \in OpenChange(c) THEN [changes[i] EXCEPT !.state = "pending"]
                   ELSE IF i \in txn[c].adopts
                        THEN [changes[i] EXCEPT !.owner = c, !.branch = BranchOf(c)]
                   ELSE changes[i]]
  /\ lock' = IF rowTx = c /\ (lock = NoLock \/ ~HeldByBranch(c))
             THEN [chat |-> c, branch |-> BranchOf(c)] ELSE lock
  /\ rowTx' = IF rowTx = c THEN NoOne ELSE rowTx
  /\ seen' = IF c \in Drafting /\ rowTx = c THEN Seen(c) ELSE seen
  /\ stage' = [b \in Branches |-> IF stage[b] = NoStage THEN NoStage
                                  ELSE stage[b] \ txn[c].adopts]
  /\ known' = [known EXCEPT ![c] = @ \cup txn[c].adopts]
  /\ txn' = [txn EXCEPT ![c] = IdleTxn]
  /\ UNCHANGED <<main, missed, closed>>

AbortWrite(c) ==
  /\ c \in Writing
  /\ changes' = Become(OpenChange(c), "undone")
  /\ rowTx' = IF rowTx = c THEN NoOne ELSE rowTx
  /\ txn' = [txn EXCEPT ![c] = IdleTxn]
  /\ UNCHANGED <<main, lock, seen, known, missed, stage, closed>>

-------------------------------------------------------------------------------
(* Stage, undo, discard *)

\* chat.merge_to_main and chat.merge_draft_to_main, consumption deferred.
Merge(b) ==
  /\ stage[b] = NoStage /\ b \notin closed /\ Pending(b) # {}
  /\ EditsDuringBuild \/ b \notin Writing
  /\ main' = Content(Pending(b))
  /\ stage' = [stage EXCEPT ![b] = Pending(b)]
  /\ UNCHANGED <<changes, lock, rowTx, txn, seen, known, missed, closed>>

\* The staging build failed: nothing is consumed.
BuildFails(b) ==
  /\ stage[b] # NoStage
  /\ stage' = [stage EXCEPT ![b] = NoStage]
  /\ UNCHANGED <<changes, main, lock, rowTx, txn, seen, known, missed, closed>>

MayRelease == ReleaseRaces \/ Writing = {}

\* releaseIdleDraftLocks: the draft has nothing pending left on the entity.
IdleDraftLock(left) == lock.branch = Draft /\ left = {}

\* Mutant of Release: the row outlives its chat.
ReleaseKeepsRow(released) ==
  /\ MayRelease
  /\ released => rowTx = NoOne
  /\ lock' = IF released THEN [lock EXCEPT !.chat = NoOne] ELSE lock

\* Delete the lock row, once no transaction holds it.
Release(released) ==
  /\ MayRelease
  /\ released => rowTx = NoOne
  /\ lock' = IF released THEN NoLock ELSE lock

\* Mutant of Finalized: every change pending at the end of the build.
FinalizedAll(b) == Pending(b)

\* The merged changes that are still pending on the branch.
Finalized(b) == stage[b] \cap Pending(b)

\* finalizeDraftSelection: exactly the merged changes are staged.
FinalizeDraftStage ==
  /\ stage[Draft] # NoStage
  /\ changes' = Become(Finalized(Draft), "staged")
  /\ Release(IdleDraftLock(Pending(Draft) \ Finalized(Draft)))
  /\ stage' = [stage EXCEPT ![Draft] = NoStage]
  /\ UNCHANGED <<main, rowTx, txn, seen, known, missed, closed>>

\* chat.finalize_stage: releaseChatLocks drops every lock of the chat.
FinalizeStage(c) ==
  /\ c \in Isolated /\ stage[c] # NoStage
  /\ changes' = Become(Finalized(c), "staged")
  /\ Release(lock.chat = c)
  /\ stage' = [stage EXCEPT ![c] = NoStage]
  /\ UNCHANGED <<main, rowTx, txn, seen, known, missed, closed>>

\* undoDraftChat: the chat's changes and the later ones built on them.
UndoDraftChat(c) ==
  /\ c \in Drafting
  /\ LET own  == {i \in Pending(Draft) : changes[i].owner = c}
         undo == {i \in Pending(Draft) : \E j \in own : j <= i}
     IN  /\ own # {}
         /\ changes' = Become(undo, "undone")
         /\ Release(IdleDraftLock(Pending(Draft) \ undo))
  /\ UNCHANGED <<main, rowTx, txn, seen, known, missed, stage, closed>>

\* chat.discard_branch of an isolated chat: its changes stay where they are,
\* and no merge takes a discarded chat.
Discard(c) ==
  /\ c \in Isolated \ closed /\ txn[c].pc = "idle"
  /\ Release(lock.chat = c)
  /\ closed' = closed \cup {c}
  /\ UNCHANGED <<changes, main, rowTx, txn, seen, known, missed, stage>>

Next ==
  \/ \E c \in Chats :
       \/ StartRead(c) \/ FinishRead(c)
       \/ StartWrite(c) \/ WriteRefused(c) \/ Write(c) \/ CommitWrite(c) \/ AbortWrite(c)
       \/ FinalizeStage(c) \/ UndoDraftChat(c) \/ Discard(c)
  \/ \E b \in Branches : Merge(b) \/ BuildFails(b)
  \/ FinalizeDraftStage

Spec == Init /\ [][Next]_vars

-------------------------------------------------------------------------------

\* Two branches that can still stage never hold unstaged changes of the same
\* entity (locks.ts: the lock keeps them from diverging; a write adopts what the
\* other branch has).
OneBranch ==
  \A b1, b2 \in Branches \ closed : Pending(b1) # {} /\ Pending(b2) # {} => b1 = b2

\* What a finished Stage brought to the main line stays there: no later Stage
\* takes it back (locks.ts: "the second Stage would silently overwrite the
\* first").
StageKeepsChanges == \A i \in DOMAIN changes : changes[i].state = "staged" => i \in main

\* A chat writes on the shared draft only when it was shown every other chat's
\* pending change.  This is what locks.ts promises of the observations of reads: "a
\* change committed in between still counts as unseen".  Not so: a change is stamped
\* when it is written, and one that is uncommitted when a read begins is older than
\* the read.
NoBlindWrite ==
  [][\A c \in Drafting :
       txn[c].pc = "started" /\ txn'[c].pc = "written"
         => \A i \in Pending(Draft) : changes[i].owner = c \/ i \in known[c]]_vars

\* What draftConflict and the observations do guarantee: the only pending changes of
\* other chats a chat can overwrite unseen are those whose write, or takeover, was
\* uncommitted when one of its own reads began, however reads, refusals, takeovers,
\* Stages and undos interleave.
BlindOnlyByOverlap ==
  [][\A c \in Drafting :
       txn[c].pc = "started" /\ txn'[c].pc = "written"
         => \A i \in Pending(Draft) :
              changes[i].owner = c \/ i \in known[c] \/ i \in missed[c]]_vars

===============================================================================
