------------------------- MODULE ChangeJournalProofs -------------------------
(***************************************************************************)
(* Proofs about ChangeJournal.tla, for any number of instances,            *)
(* transactions and faults and any page size, while an instance keeps its  *)
(* claim around a rebuild that garbage collection forces (LateRebuilds).   *)
(*                                                                         *)
(* The heart is CursorCovers: what the cursor, or a page of its target,    *)
(* has passed is in the consumer's derived state.  A page that is being    *)
(* dispatched (PageCovers) and a rebuild that ran (RebuildCovers) promise  *)
(* the same of the position they are about to commit.  Snapshots show only *)
(* what has ended (PositionSound), so a transaction that commits late is   *)
(* never behind a position taken before.                                   *)
(***************************************************************************)
EXTENDS ChangeJournal, FiniteSetTheorems, WellFoundedInduction, TLAPS

DrainType == [pc : Steps, index : 0..MaxBatches, token : Token \cup {NoToken},
              todo : SUBSET Xids, lost : BOOLEAN, beat : BOOLEAN]

\* A drain that may still change the row or the derived state.
Active(d) == d.pc \notin {"idle", "dead", "fail", "leave"}

\* Ids are drawn in order.
TxOrdered == \A x, y \in Xids : y < x /\ tx[x] # "none" => tx[y] # "none"

\* What a snapshot shows has ended.
SnapSound(s) == \A x \in Xids : Visible(x, s) => x \in Ended(tx)

\* A later snapshot shows at least what an earlier one shows.
SnapLE(r, s) == \A x \in Xids : Visible(x, r) => Visible(x, s)

\* The cursor, or a page of its target, has passed the change.
Passed(cursor, target, after, x) ==
  Visible(x, cursor) \/ (target # NoSnapshot /\ Visible(x, target) /\ x <= after)

\* A position is made of snapshots that were taken, the target after the cursor.
PositionSound(cursor, target, after) ==
  /\ SnapSound(cursor)
  /\ target = NoSnapshot => after = 0
  /\ target # NoSnapshot => SnapSound(target) /\ SnapLE(cursor, target)

RowSound ==
  /\ Registered => PositionSound(row.cursor, row.target, row.after)
  /\ ~Registered => row.after = 0

\* Garbage collection deletes only rows that every later snapshot shows.
HorizonSound ==
  /\ \A x \in Xids : x <= horizon => x \in Ended(tx)
  /\ \A x \in Committed(tx) : x \in journal \/ x <= horizon

\* A rebuild is due from the cursor it was asked for at.
PendingSound == row.pending => Registered /\ row.target = NoSnapshot

\* What the cursor passed is reflected.
CursorCovers ==
  Registered /\ ~row.pending =>
    \A x \in Committed(tx) : Passed(row.cursor, row.target, row.after, x) => x \in applied

Base ==
  /\ TypeOK /\ TxOrdered /\ RowSound /\ HorizonSound /\ PendingSound /\ CursorCovers

\* drainOne counts its pages and leaves nothing behind.
Counted(d) ==
  /\ d.pc \in {"idle", "dead"} => d.index = 0
  /\ d.pc \in {"poll", "dispatch", "commit", "reclaim"} => d.index < MaxBatches
  /\ d.pc = "commit" => d.todo = {}

\* The page and its token were read from the journal.
TokenSound(d) ==
  /\ d.todo \subseteq Committed(tx)
  /\ d.pc \in {"dispatch", "commit"} =>
       /\ d.token \in Token
       /\ PositionSound(d.token.cursor, d.token.target, d.token.after)
       /\ SnapLE(d.token.from, d.token.cursor)

\* What a page passes is reflected or still to be dispatched.
PageCovers(d) ==
  d.pc \in {"dispatch", "commit"} =>
    \A x \in Committed(tx) :
      Passed(d.token.cursor, d.token.target, d.token.after, x) => x \in applied \cup d.todo

\* A rebuild that ran covers what its cursor passed.
RebuildCovers(d) ==
  d.pc = "finish" /\ row.pending =>
    \A x \in Committed(tx) : Visible(x, row.cursor) => x \in applied

\* While a rebuild is due nobody is about to move the cursor, and a consumer that
\* garbage collection passed has one drain at work, under the claim.
Fenced(i, d) ==
  Active(d) =>
    /\ Registered
    /\ row.pending => d.pc \in {"rebuild", "finish"}
    /\ PassedByGC(row.cursor) => ClaimHeld(i)
    /\ d.pc = "begin" => PassedByGC(row.cursor)

Local(i, d) == Counted(d) /\ TokenSound(d) /\ PageCovers(d) /\ RebuildCovers(d) /\ Fenced(i, d)

IInv == Base /\ \A i \in Instances : Local(i, drain[i])
-------------------------------------------------------------------------------

\* The greatest of some ids is one of them (max() of a query).
LEMMA MaxIsOne ==
  ASSUME NEW n \in Nat, NEW S \in SUBSET (0..n), S # {}
  PROVE  Max(S) \in S /\ \A y \in S : y <= Max(S)
<1> DEFINE T == {n - x : x \in S}
           R == OpToRel(<, Nat)
<1>1. T \subseteq Nat /\ T # {}
  <2>1. \A x \in S : n - x \in Nat
    OBVIOUS
  <2>2. PICK x \in S : TRUE
    OBVIOUS
  <2>3. n - x \in T
    BY <2>2
  <2>4. QED
    BY <2>1, <2>3
<1>2. \E x \in T : \A y \in T : ~(<<y, x>> \in R)
  <2> HIDE DEF T
  <2> QED BY <1>1, NatLessThanWellFounded, WFMin
<1>3. PICK x \in T : \A y \in T : ~(<<y, x>> \in R)
  BY <1>2
<1>4. \A y \in T : ~(y < x)
  BY <1>1, <1>3 DEF OpToRel
<1>5. PICK m \in S : x = n - m
  OBVIOUS
<1>6. \A y \in S : m >= y
  <2> TAKE y \in S
  <2>1. ~(n - y < n - m)
    BY <1>4, <1>5
  <2>2. QED
    BY <2>1
<1>7. Max(S) \in S /\ \A y \in S : Max(S) >= y
  BY <1>6 DEF Max
<1>8. QED
  BY <1>7

\* The least of some ids is one of them (min() of a query).
LEMMA MinIsOne ==
  ASSUME NEW S \in SUBSET Nat, S # {}
  PROVE  Min(S) \in S /\ \A y \in S : Min(S) <= y
<1> DEFINE R == OpToRel(<, Nat)
<1>1. \E x \in S : \A y \in S : ~(<<y, x>> \in R)
  BY NatLessThanWellFounded, WFMin
<1>2. PICK x \in S : \A y \in S : ~(<<y, x>> \in R)
  BY <1>1
<1>3. \A y \in S : ~(y < x)
  BY <1>2 DEF OpToRel
<1>4. \A y \in S : x <= y
  BY <1>3
<1>5. QED
  BY <1>4 DEF Min

\* Every id below pg_snapshot_xmin is shown, and xmin itself is not: an id up to
\* h is hidden exactly when xmin is at most h.
LEMMA XminHides ==
  ASSUME NEW s \in Snapshots, NEW h \in 0..MaxXid
  PROVE  /\ Xmin(s) \in Nat
         /\ h >= Xmin(s) <=> \E y \in Xids : y <= h /\ ~Visible(y, s)
<1> DEFINE S == s.xip \cup {s.xmax}
<1>1. S \subseteq Nat /\ S # {} /\ s.xmax \in S /\ s.xmax \in 1..(MaxXid + 1)
  BY XidAssumption DEF Snapshots, Xids
<1>2. Xmin(s) \in S /\ \A y \in S : Xmin(s) <= y
  <2> HIDE DEF S
  <2>1. Min(S) \in S /\ \A y \in S : Min(S) <= y
    BY <1>1, MinIsOne
  <2>2. QED
    BY <2>1 DEF Xmin, S
<1>3. Xmin(s) \in Nat
  BY <1>1, <1>2
<1>4. ASSUME h >= Xmin(s) PROVE \E y \in Xids : y <= h /\ ~Visible(y, s)
  <2>1. Xmin(s) \in 1..(MaxXid + 1)
    BY <1>2, XidAssumption DEF Snapshots, Xids
  <2>2. Xmin(s) \in Xids
    BY <1>4, <2>1, XidAssumption DEF Xids
  <2>3. ~Visible(Xmin(s), s)
    BY <1>1, <1>2, <2>1 DEF Visible
  <2>4. QED
    BY <1>4, <2>2, <2>3
<1>5. ASSUME NEW y \in Xids, y <= h, ~Visible(y, s) PROVE h >= Xmin(s)
  <2>1. y \in s.xip \/ y >= s.xmax
    BY <1>1, <1>5, XidAssumption DEF Visible, Xids
  <2>2. Xmin(s) <= y
    BY <1>1, <1>2, <1>3, <2>1, XidAssumption DEF Xids
  <2>3. QED
    BY <1>3, <1>5, <2>2, XidAssumption DEF Xids
<1>6. QED
  BY <1>3, <1>4, <1>5

\* pg_current_snapshot shows exactly the transactions that ended.
LEMMA CurrentShowsEnded ==
  ASSUME NEW t \in [Xids -> TxStates],
         \A x, y \in Xids : y < x /\ t[x] # "none" => t[y] # "none"
  PROVE  /\ CurrentSnapshot(t) \in Snapshots
         /\ \A x \in Xids : Visible(x, CurrentSnapshot(t)) <=> x \in Ended(t)
<1> DEFINE S == Ended(t) \cup {0}
           last == Max(S)
<1>1. S \in SUBSET (0..MaxXid) /\ S # {}
  BY XidAssumption DEF Ended, Xids
<1>2. last \in S /\ \A y \in S : y <= last
  <2> HIDE DEF S
  <2> QED BY <1>1, MaxIsOne, XidAssumption
<1>3. last \in 0..MaxXid
  BY <1>1, <1>2
<1>4. CurrentSnapshot(t) = [xmax |-> last + 1, xip |-> {x \in Xids : x < last /\ t[x] = "open"}]
  BY DEF CurrentSnapshot
<1> HIDE DEF S, last
<1>5. CurrentSnapshot(t) \in Snapshots
  BY <1>3, <1>4, XidAssumption DEF Snapshots
<1>6. ASSUME NEW x \in Xids PROVE Visible(x, CurrentSnapshot(t)) <=> x \in Ended(t)
  <2>1. x \in Nat /\ last \in Nat
    BY <1>3, XidAssumption DEF Xids
  <2>2. Visible(x, CurrentSnapshot(t)) <=> x <= last /\ ~(x < last /\ t[x] = "open")
    BY <1>4, <2>1 DEF Visible
  <2>3. ASSUME x \in Ended(t) PROVE x <= last /\ t[x] # "open"
    BY <1>2, <2>3 DEF Ended, S
  <2>4. ASSUME x <= last, ~(x < last /\ t[x] = "open") PROVE x \in Ended(t)
    <3>1. last \in Ended(t)
      BY <1>2, <2>1, <2>4, XidAssumption DEF S, Xids
    <3>2. CASE x = last
      BY <3>1, <3>2
    <3>3. CASE x < last
      <4>1. last \in Xids /\ t[last] # "none"
        BY <3>1 DEF Ended
      <4>2. t[x] \notin {"none", "open"}
        BY <2>4, <3>3, <4>1
      <4>3. QED
        BY <4>2 DEF Ended, TxStates
    <3>4. QED
      BY <2>1, <2>4, <3>2, <3>3
  <2>5. QED
    BY <2>2, <2>3, <2>4
<1>7. QED
  BY <1>5, <1>6

\* A page takes the first rows in order: it is not empty when rows remain, and
\* leaves no earlier row out (the ORDER BY and LIMIT of readChanges).
LEMMA PageInOrder ==
  ASSUME NEW rows \in SUBSET Xids, NEW n \in Nat, n > 0
  PROVE  /\ FirstRows(rows, n) \subseteq rows
         /\ rows # {} => FirstRows(rows, n) # {}
         /\ \A x \in rows, y \in FirstRows(rows, n) : x <= y => x \in FirstRows(rows, n)
<1> DEFINE Upto(x) == {y \in rows : y <= x}
<1>0. IsFiniteSet(rows) /\ rows \subseteq Nat
  <2>1. IsFiniteSet(Xids) /\ Xids \subseteq Nat
    BY FS_Interval, XidAssumption DEF Xids
  <2>2. QED
    BY <2>1, FS_Subset
<1>a. \A x \in rows : x \in Nat
  BY <1>0
<1>1. \A x \in rows : IsFiniteSet(Upto(x)) /\ Cardinality(Upto(x)) \in Nat
  BY <1>0, FS_Subset, FS_CardinalityType
<1>2. FirstRows(rows, n) = {x \in rows : Cardinality(Upto(x)) <= n}
  BY DEF FirstRows
<1>3. ASSUME rows # {} PROVE FirstRows(rows, n) # {}
  <2>1. Min(rows) \in rows /\ \A y \in rows : Min(rows) <= y
    BY <1>0, <1>3, MinIsOne
  <2>2. Upto(Min(rows)) = {Min(rows)}
    <3>1. Min(rows) \in Nat
      BY <1>a, <2>1
    <3>2. \A y \in rows : y <= Min(rows) => y = Min(rows)
      BY <1>a, <2>1, <3>1
    <3>3. Min(rows) <= Min(rows)
      BY <3>1
    <3>4. QED
      BY <2>1, <3>2, <3>3
  <2>3. Cardinality(Upto(Min(rows))) = 1
    BY <2>2, FS_Singleton
  <2>4. QED
    BY <1>2, <2>1, <2>3
<1>4. ASSUME NEW x \in rows, NEW y \in FirstRows(rows, n), x <= y
      PROVE  x \in FirstRows(rows, n)
  <2>1. y \in rows /\ Cardinality(Upto(y)) <= n
    BY <1>2
  <2>2. Upto(x) \subseteq Upto(y)
    <3>1. x \in Nat /\ y \in Nat
      BY <1>a, <2>1
    <3>2. \A z \in rows : z <= x => z <= y
      BY <1>a, <1>4, <3>1
    <3>3. QED
      BY <3>2
  <2>3. Cardinality(Upto(x)) <= Cardinality(Upto(y))
    BY <1>1, <2>1, <2>2, FS_Subset
  <2>4. Cardinality(Upto(x)) \in Nat /\ Cardinality(Upto(y)) \in Nat
    BY <1>1, <2>1
  <2>5. Cardinality(Upto(x)) <= n
    BY <2>1, <2>3, <2>4
  <2>6. QED
    BY <1>2, <2>5
<1>5. QED
  BY <1>2, <1>3, <1>4

-------------------------------------------------------------------------------
(* What stays true of a snapshot, a page and a rebuild. *)

\* Transactions end once, and the derived state only grows.
Evolves ==
  /\ Ended(tx) \subseteq Ended(tx)' /\ Committed(tx) \subseteq Committed(tx)'
  /\ Committed(tx)' \cap Ended(tx) \subseteq Committed(tx)
  /\ applied \subseteq applied'

\* A step that leaves the transactions and the derived state evolves.
LEMMA StillEvolves ==
  ASSUME tx' = tx, applied \subseteq applied'
  PROVE  Evolves
  BY DEF Evolves, Ended, Committed

\* A position stays sound.
LEMMA PositionStays ==
  ASSUME Evolves, NEW c, NEW t, NEW a, PositionSound(c, t, a)
  PROVE  PositionSound(c, t, a)'
  BY DEF Evolves, PositionSound, SnapSound, SnapLE

\* What a sound position passes was committed before, or never will be.
LEMMA PassedBefore ==
  ASSUME Evolves, NEW c, NEW t, NEW a, PositionSound(c, t, a),
         NEW x \in Committed(tx)', Passed(c, t, a, x)
  PROVE  x \in Committed(tx)
<1>1. x \in Xids
  BY DEF Committed
<1>2. x \in Ended(tx)
  BY <1>1 DEF Passed, PositionSound, SnapSound
<1>3. QED
  BY <1>2 DEF Evolves

\* A page stays what it is while its drain does not move.
LEMMA PageStays ==
  ASSUME Evolves, NEW d, TokenSound(d), PageCovers(d)
  PROVE  TokenSound(d)' /\ PageCovers(d)'
<1>1. CASE d.pc \notin {"dispatch", "commit"}
  BY <1>1 DEF TokenSound, PageCovers, Evolves
<1>2. CASE d.pc \in {"dispatch", "commit"}
  <2>1. PositionSound(d.token.cursor, d.token.target, d.token.after)
    BY <1>2 DEF TokenSound
  <2>2. PositionSound(d.token.cursor, d.token.target, d.token.after)'
    BY <2>1, PositionStays
  <2>3. TokenSound(d)'
    BY <1>2, <2>2 DEF TokenSound, Evolves, SnapLE
  <2>4. ASSUME NEW x \in Committed(tx)',
               Passed(d.token.cursor, d.token.target, d.token.after, x)
        PROVE  x \in applied' \cup d.todo
    <3>1. x \in Committed(tx)
      BY <2>1, <2>4, PassedBefore
    <3>2. QED
      BY <1>2, <2>4, <3>1 DEF PageCovers, Evolves
  <2>5. PageCovers(d)'
    BY <2>4 DEF PageCovers, Passed
  <2>6. QED
    BY <2>3, <2>5
<1>3. QED
  BY <1>1, <1>2

\* A rebuild that ran keeps covering while the cursor stands.
LEMMA RebuildStays ==
  ASSUME Evolves, RowSound, PendingSound, NEW d, RebuildCovers(d),
         row'.cursor = row.cursor, row'.pending => row.pending
  PROVE  RebuildCovers(d)'
<1> SUFFICES ASSUME d.pc = "finish", row'.pending,
                    NEW x \in Committed(tx)', Visible(x, row.cursor)
             PROVE  x \in applied'
  BY DEF RebuildCovers
<1>1. PositionSound(row.cursor, row.target, row.after)
  BY DEF RowSound, PendingSound
<1>2. x \in Committed(tx)
  BY <1>1, PassedBefore DEF Passed
<1>3. QED
  BY <1>2 DEF RebuildCovers, Evolves

\* The cursor keeps covering while the row's position stands.
LEMMA CursorStays ==
  ASSUME Evolves, RowSound, CursorCovers,
         row'.cursor = row.cursor, row'.target = row.target, row'.after = row.after,
         row'.pending = row.pending
  PROVE  RowSound' /\ CursorCovers'
<1>1. RowSound'
  BY PositionStays DEF RowSound, Registered
<1>2. CursorCovers'
  <2> SUFFICES ASSUME Registered, ~row.pending, NEW x \in Committed(tx)',
                      Passed(row.cursor, row.target, row.after, x)
               PROVE  x \in applied'
    BY DEF CursorCovers, Registered, Passed
  <2>1. x \in Committed(tx)
    BY PassedBefore DEF RowSound
  <2>2. QED
    BY <2>1 DEF CursorCovers, Evolves
<1>3. QED
  BY <1>1, <1>2

\* Records of a drain.
LEMMA RestingType ==
  /\ NoDrain \in DrainType /\ NoDrain.todo = {} /\ NoDrain.index = 0 /\ NoDrain.pc = "idle"
  /\ \A d \in DrainType, s \in Steps :
       LET e == [NoDrain EXCEPT !.pc = s, !.beat = d.beat]
       IN  e \in DrainType /\ e.todo = {} /\ e.index = 0 /\ e.pc = s
<1>1. NoDrain \in DrainType
  BY ConsumerAssumption DEF NoDrain, DrainType, Steps
<1>2. ASSUME NEW d \in DrainType, NEW s \in Steps
      PROVE  [NoDrain EXCEPT !.pc = s, !.beat = d.beat] \in DrainType
  <2>1. d.beat \in BOOLEAN
    BY DEF DrainType
  <2>2. QED
    BY <1>1, <2>1 DEF DrainType
<1>3. QED
  BY <1>2, <1>1 DEF NoDrain

\* A drain that rests promises nothing.
LEMMA RestLocal ==
  ASSUME NEW i, NEW d, ~Active(d), d.index = 0, d.todo = {}
  PROVE  Local(i, d)'
  BY DEF Local, Active, Counted, TokenSound, PageCovers, RebuildCovers, Fenced

\* The state of a rebuild and of the fence, for the drains a step leaves alone.
Undisturbed(j) == RebuildCovers(drain[j])' /\ Fenced(j, drain[j])'

\* A step of one drain keeps the invariant if it keeps the base, leaves the others
\* undisturbed and ends in a sound drain.
LEMMA OneDrainMoves ==
  ASSUME IInv, Evolves, Base', NEW i \in Instances, NEW d,
         drain' = [drain EXCEPT ![i] = d], Local(i, d)',
         \A j \in Instances \ {i} : Undisturbed(j)
  PROVE  IInv'
<1>1. drain \in [Instances -> DrainType]
  BY DEF IInv, Base, TypeOK, DrainType
<1>2. drain'[i] = d /\ \A j \in Instances \ {i} : drain'[j] = drain[j]
  BY <1>1
<1>3. ASSUME NEW j \in Instances \ {i} PROVE Local(j, drain[j])'
  <2>1. Local(j, drain[j])
    BY DEF IInv
  <2>2. TokenSound(drain[j])' /\ PageCovers(drain[j])' /\ Counted(drain[j])'
    <3> DEFINE e == drain[j]
    <3>1. e' = e
      BY <1>2
    <3>2. QED
      BY <2>1, <1>2, PageStays DEF Local, Counted
  <2>3. QED
    BY <2>2, <1>3 DEF Local, Undisturbed
<1>4. QED
  BY <1>2, <1>3 DEF IInv

-------------------------------------------------------------------------------
(* Writers and the garbage collection *)

\* A transaction that begins, commits or aborts.
LEMMA WriterStep ==
  ASSUME IInv, NEW x \in Xids, Begin(x) \/ Commit(x) \/ Abort(x)
  PROVE  IInv'
<1> USE DEF Base, IInv
<1>0. tx \in [Xids -> TxStates]
  BY DEF TypeOK
<1>1. /\ UNCHANGED <<horizon, row, applied, drain, faults>>
      /\ \A y \in Xids \ {x} : tx'[y] = tx[y]
      /\ tx' \in [Xids -> TxStates]
      /\ tx[x] \in {"none", "open"}
      /\ tx'[x] # "none"
      /\ tx[x] = "none" => tx'[x] = "open" /\ \A y \in Xids : y < x => tx[y] # "none"
      /\ journal' = IF tx'[x] = "committed" THEN journal \cup {x} ELSE journal
  BY <1>0 DEF Begin, Commit, Abort, Start, TxStates
<1>2. Evolves
  BY <1>0, <1>1 DEF Evolves, Ended, Committed
<1>3. Committed(tx)' \subseteq Committed(tx) \cup {x} /\ (x \in Committed(tx)' => x \in journal')
  BY <1>0, <1>1 DEF Committed
<1>4. TypeOK'
  <2>1. loop' \in [Instances -> [wake : BOOLEAN, retry : BOOLEAN, backoff : BOOLEAN,
                                 listening : BOOLEAN]]
    BY DEF TypeOK, Begin, Commit, Abort
  <2>2. journal' \subseteq Committed(tx)'
    <3>1. tx'[x] = "committed" => x \in Committed(tx)'
      BY DEF Committed
    <3>2. journal \subseteq Committed(tx)
      BY DEF TypeOK
    <3>3. QED
      BY <1>1, <1>2, <3>1, <3>2 DEF Evolves
  <2>3. applied' \subseteq Committed(tx)'
    BY <1>1, <1>2 DEF Evolves, TypeOK
  <2>4. QED
    BY <1>1, <2>1, <2>2, <2>3 DEF TypeOK
<1>5. TxOrdered'
  <2> SUFFICES ASSUME NEW a \in Xids, NEW b \in Xids, b < a, tx'[a] # "none"
               PROVE  tx'[b] # "none"
    BY DEF TxOrdered
  <2>1. CASE tx[a] # "none"
    BY <1>1, <2>1 DEF TxOrdered
  <2>2. CASE tx[a] = "none"
    BY <1>1, <2>2 DEF TxOrdered
  <2>3. QED
    BY <2>1, <2>2
<1>6. HorizonSound'
  <2>1. \A y \in Xids : y <= horizon' => y \in Ended(tx)'
    BY <1>1, <1>2 DEF HorizonSound, Evolves
  <2>2. ASSUME NEW y \in Committed(tx)' PROVE y \in journal' \/ y <= horizon'
    <3>1. CASE y = x
      BY <1>3, <3>1
    <3>2. CASE y # x
      <4>1. y \in journal \/ y <= horizon
        BY <1>3, <3>2 DEF HorizonSound
      <4>2. QED
        BY <1>1, <4>1
    <3>3. QED
      BY <3>1, <3>2
  <2>3. QED
    BY <2>1, <2>2 DEF HorizonSound
<1>7. RowSound' /\ CursorCovers' /\ PendingSound'
  BY <1>1, <1>2, CursorStays DEF PendingSound, Registered
<1>8. ASSUME NEW i \in Instances PROVE Local(i, drain[i])'
  <2>1. Local(i, drain[i])
    OBVIOUS
  <2>2. PICK d : d = drain[i]
    OBVIOUS
  <2>3. drain'[i] = d
    BY <1>1, <2>2
  <2>4. TokenSound(d)' /\ PageCovers(d)'
    BY <1>2, <2>1, <2>2, PageStays DEF Local
  <2>5. RebuildCovers(d)'
    BY <1>1, <1>2, <2>1, <2>2, RebuildStays DEF Local
  <2>6. Fenced(i, d)'
    BY <1>1, <2>1, <2>2 DEF Local, Fenced, Registered, PassedByGC, ClaimHeld
  <2>7. QED
    BY <2>1, <2>2, <2>3, <2>4, <2>5, <2>6 DEF Local, Counted
<1>9. QED
  BY <1>4, <1>5, <1>6, <1>7, <1>8

\* A cursor is passed by the garbage collection when a row up to the horizon is
\* hidden from it.
LEMMA PassedMeans ==
  ASSUME NEW s \in Snapshots, NEW h \in 0..MaxXid,
         \A x \in Xids : x <= h => Visible(x, s)
  PROVE  ~(h >= Xmin(s))
  BY XminHides

\* A snapshot taken now is not passed by the garbage collection.
LEMMA NowIsNotPassed ==
  ASSUME IInv
  PROVE  /\ CurrentSnapshot(tx) \in Snapshots
         /\ CurrentSnapshot(tx) # NoSnapshot
         /\ \A x \in Xids : Visible(x, CurrentSnapshot(tx)) <=> x \in Ended(tx)
         /\ ~PassedByGC(CurrentSnapshot(tx))
<1>1. tx \in [Xids -> TxStates] /\ horizon \in 0..MaxXid
  BY DEF IInv, Base, TypeOK
<1>2. /\ CurrentSnapshot(tx) \in Snapshots
      /\ \A x \in Xids : Visible(x, CurrentSnapshot(tx)) <=> x \in Ended(tx)
  BY <1>1, CurrentShowsEnded DEF IInv, Base, TxOrdered
<1>3. ~(horizon >= Xmin(CurrentSnapshot(tx)))
  BY <1>1, <1>2, PassedMeans DEF IInv, Base, HorizonSound
<1>4. QED
  BY <1>2, <1>3, NullAssumption DEF PassedByGC

\* Garbage collection keeps what is behind every later snapshot ended, and passes
\* a cursor only while no drain has lost its claim.
LEMMA CollectStep ==
  ASSUME IInv, ~LateRebuilds, CollectGarbage
  PROVE  IInv'
<1> USE DEF Base, IInv
<1>1. PICK old \in SUBSET journal, stalled \in BOOLEAN :
        /\ stalled => Registered /\ Stalled(old)
        /\ Victims(old, stalled) # {}
        /\ stalled => LateRebuilds \/ Stray = {}
        /\ journal' = journal \ Victims(old, stalled)
        /\ horizon' = Max({horizon} \cup Victims(old, stalled))
        /\ UNCHANGED <<tx, row, applied, drain, loop, faults>>
  BY DEF CollectGarbage
<1>2. PICK V : V = Victims(old, stalled)
  OBVIOUS
<1>3. journal \subseteq Committed(tx) /\ horizon \in 0..MaxXid /\ tx \in [Xids -> TxStates]
  BY DEF TypeOK
<1>4. V \subseteq journal /\ V \subseteq Xids
  BY <1>2, <1>3 DEF Victims, Committed
<1>5. /\ horizon' \in {horizon} \cup V /\ horizon' \in 0..MaxXid
      /\ \A v \in {horizon} \cup V : v <= horizon'
  <2> DEFINE S == {horizon} \cup V
  <2>1. S \in SUBSET (0..MaxXid) /\ S # {}
    BY <1>3, <1>4, XidAssumption DEF Xids
  <2>2. Max(S) \in S /\ \A v \in S : v <= Max(S)
    <3> HIDE DEF S
    <3> QED BY <2>1, MaxIsOne, XidAssumption
  <2>3. horizon' = Max(S)
    BY <1>1, <1>2
  <2>4. QED
    BY <2>1, <2>2, <2>3
<1>6. Evolves
  BY <1>1, StillEvolves
<1>7. TypeOK'
  BY <1>1, <1>5 DEF TypeOK
<1>8. HorizonSound'
  <2>1. ASSUME NEW v \in V, NEW y \in Xids, y <= v PROVE y \in Ended(tx)
    <3>1. v < Xmin(CurrentSnapshot(tx))
      BY <1>2 DEF Victims
    <3>2. v \in 0..MaxXid
      BY <1>4, XidAssumption DEF Xids
    <3>3. CurrentSnapshot(tx) \in Snapshots
      BY NowIsNotPassed
    <3>4. Xmin(CurrentSnapshot(tx)) \in Nat
      BY <3>2, <3>3, XminHides
    <3>5. ~(v >= Xmin(CurrentSnapshot(tx)))
      BY <3>1, <3>2, <3>4
    <3>6. Visible(y, CurrentSnapshot(tx))
      BY <2>1, <3>2, <3>3, <3>5, XminHides
    <3>7. QED
      BY <3>6, NowIsNotPassed
  <2>2. ASSUME NEW y \in Xids, y <= horizon' PROVE y \in Ended(tx)'
    <3>1. y \in Ended(tx)
      BY <1>5, <2>1, <2>2 DEF HorizonSound
    <3>2. QED
      BY <1>6, <3>1 DEF Evolves
  <2>3. ASSUME NEW y \in Committed(tx)' PROVE y \in journal' \/ y <= horizon'
    <3>1. y \in Committed(tx) /\ y \in Nat
      BY <1>1, XidAssumption DEF Committed, Xids
    <3>2. CASE y \in V
      BY <1>5, <3>2
    <3>3. CASE y \notin V /\ y \in journal
      BY <1>1, <1>2, <3>3
    <3>4. CASE y <= horizon
      BY <1>3, <1>5, <3>1, <3>4
    <3>5. QED
      BY <3>1, <3>2, <3>3, <3>4 DEF HorizonSound
  <2>4. QED
    BY <2>2, <2>3 DEF HorizonSound
<1>9. TxOrdered' /\ PendingSound' /\ RowSound' /\ CursorCovers'
  BY <1>1, <1>6, CursorStays DEF TxOrdered, PendingSound, Registered
<1>10. ASSUME NEW i \in Instances PROVE Local(i, drain[i])'
  <2>1. PICK d : d = drain[i]
    OBVIOUS
  <2>2. Local(i, d) /\ drain'[i] = d /\ d \in DrainType
    BY <1>1, <2>1 DEF TypeOK, DrainType
  <2>3. TokenSound(d)' /\ PageCovers(d)' /\ RebuildCovers(d)'
    BY <1>1, <1>6, <2>2, PageStays, RebuildStays DEF Local
  <2>4. Fenced(i, d)'
    <3> SUFFICES ASSUME Active(d)
                 PROVE  /\ PassedByGC(row.cursor)' => ClaimHeld(i)
                        /\ d.pc = "begin" => PassedByGC(row.cursor)'
      BY <1>1, <2>2 DEF Local, Fenced, Registered, ClaimHeld
    <3>1. Registered /\ row.cursor \in Snapshots /\ row'.cursor = row.cursor
      BY <1>1, <2>2 DEF Local, Fenced, TypeOK, Registered
    <3>2. Xmin(row.cursor) \in Nat /\ horizon \in Nat /\ horizon' \in Nat
      BY <1>3, <1>5, <3>1, XminHides, XidAssumption
    <3>3. PassedByGC(row.cursor) => PassedByGC(row.cursor)'
      BY <1>5, <3>1, <3>2 DEF PassedByGC
    <3>4. ASSUME PassedByGC(row.cursor)', ~PassedByGC(row.cursor) PROVE ClaimHeld(i)
      <4>1. horizon' \in V /\ horizon' >= Xmin(row.cursor)
        BY <1>5, <3>1, <3>4 DEF PassedByGC
      <4>2. stalled
        BY <1>2, <3>1, <4>1 DEF Victims
      <4>3. Stray = {}
        BY <1>1, <4>2
      <4>4. Working(i)
        BY <2>1 DEF Working, Active
      <4>5. QED
        BY <4>3, <4>4 DEF Stray
    <3>5. QED
      BY <2>2, <3>3, <3>4 DEF Local, Fenced
  <2>5. QED
    BY <2>2, <2>3, <2>4 DEF Local, Counted
<1>11. QED
  BY <1>7, <1>8, <1>9, <1>10

-------------------------------------------------------------------------------
(* Steps that neither move the cursor nor dispatch. *)

RowType == [cursor : Snapshots \cup {NoSnapshot}, target : Snapshots \cup {NoSnapshot},
            after : 0..MaxXid, pending : BOOLEAN,
            holder : Instances \cup {NoOne, Departed}, unexpired : BOOLEAN]

LoopType == [wake : BOOLEAN, retry : BOOLEAN, backoff : BOOLEAN, listening : BOOLEAN]

\* The row's position: all of it but the claim.
PositionStands ==
  /\ row'.cursor = row.cursor /\ row'.target = row.target /\ row'.after = row.after
  /\ row'.pending = row.pending

Alike(d, e) == e.pc = d.pc /\ e.index = d.index /\ e.token = d.token /\ e.todo = d.todo

Rests(d) == ~Active(d) /\ d.index = 0 /\ d.todo = {}

\* The parts of the type invariant.
LEMMA Types ==
  ASSUME IInv
  PROVE  /\ tx \in [Xids -> TxStates] /\ horizon \in 0..MaxXid /\ row \in RowType
         /\ drain \in [Instances -> DrainType] /\ loop \in [Instances -> LoopType]
         /\ faults \in 0..MaxFaults
         /\ journal \subseteq Committed(tx) /\ applied \subseteq Committed(tx)
         /\ row.target # NoSnapshot => row.cursor # NoSnapshot
  BY DEF IInv, Base, TypeOK, RowType, DrainType, LoopType

\* A step of the consumer keeps the types that its parts keep.
LEMMA TypesKept ==
  ASSUME IInv, UNCHANGED <<tx, journal, horizon>>, row' \in RowType,
         drain' \in [Instances -> DrainType], loop' \in [Instances -> LoopType],
         faults' \in 0..MaxFaults, applied' \subseteq Committed(tx),
         row'.target # NoSnapshot => row'.cursor # NoSnapshot
  PROVE  TypeOK'
<1>1. Committed(tx)' = Committed(tx)
  BY DEF Committed
<1>2. QED
  BY <1>1 DEF IInv, Base, TypeOK, RowType, DrainType, LoopType

\* A fault is counted.
LEMMA FaultType ==
  ASSUME IInv, FaultHappens \/ UNCHANGED faults
  PROVE  faults' \in 0..MaxFaults
<1>1. faults \in 0..MaxFaults /\ MaxFaults \in Nat
  BY Types, ConsumerAssumption
<1>2. QED
  BY <1>1 DEF FaultHappens

\* The base holds on while the position stands.
LEMMA BaseStands ==
  ASSUME IInv, TypeOK', UNCHANGED <<tx, journal, horizon>>, applied \subseteq applied',
         PositionStands
  PROVE  Evolves /\ Base'
<1>1. Evolves
  BY StillEvolves
<1>2. RowSound' /\ CursorCovers'
  BY <1>1, CursorStays DEF IInv, Base, PositionStands
<1>3. HorizonSound'
  BY DEF IInv, Base, HorizonSound, Ended, Committed
<1>4. TxOrdered' /\ PendingSound'
  BY DEF IInv, Base, TxOrdered, PendingSound, PositionStands, Registered
<1>5. QED
  BY <1>1, <1>2, <1>3, <1>4 DEF Base

\* The fence and the rebuild of a drain hold on while the position stands and the
\* claim is not lost under a forced rebuild.
LEMMA FenceStands ==
  ASSUME IInv, Evolves, UNCHANGED horizon, PositionStands,
         NEW j \in Instances, NEW d, NEW e, Local(j, d), Alike(d, e),
         Active(d) /\ PassedByGC(row.cursor) => ClaimHeld(j)'
  PROVE  Local(j, e)'
<1>1. TokenSound(d)' /\ PageCovers(d)'
  BY PageStays DEF Local
<1>2. RebuildCovers(d)'
  BY RebuildStays DEF Local, IInv, Base, PositionStands
<1>3. Fenced(j, d)'
  BY DEF Local, Fenced, Registered, PassedByGC, PositionStands
<1>4. Counted(d)
  BY DEF Local
<1>5. QED
  BY <1>1, <1>2, <1>3, <1>4
     DEF Alike, Local, TokenSound, PageCovers, RebuildCovers, Fenced, Counted, Active

\* A step that leaves the position and the derived state alone, and each drain
\* where it is or at rest.
LEMMA QuietStep ==
  ASSUME IInv, TypeOK', UNCHANGED <<tx, journal, horizon, applied>>, PositionStands,
         \A j \in Instances :
           \/ Rests(drain'[j])
           \/ /\ Alike(drain[j], drain'[j])
              /\ Active(drain[j]) /\ PassedByGC(row.cursor) => ClaimHeld(j)'
  PROVE  IInv'
<1>1. Evolves /\ Base'
  BY BaseStands
<1>2. ASSUME NEW j \in Instances PROVE Local(j, drain[j])'
  <2>1. PICK d, e : d = drain[j] /\ e = drain'[j]
    OBVIOUS
  <2>2. CASE Rests(e)
    <3>1. Local(j, e)'
      BY <2>2, RestLocal DEF Rests
    <3>2. QED
      BY <2>1, <3>1
  <2>3. CASE ~Rests(e)
    <3>1. Local(j, d)
      BY <2>1 DEF IInv
    <3>2. Local(j, e)'
      BY <1>1, <2>1, <2>3, <3>1, FenceStands
    <3>3. QED
      BY <2>1, <3>2
  <2>4. QED
    BY <2>2, <2>3
<1>3. QED
  BY <1>1, <1>2 DEF IInv

\* The wake-up loop only reads.
LEMMA LoopStep ==
  ASSUME IInv, NEW i \in Instances,
         \/ ClaimSkips(i) \/ ClaimFails(i) \/ DrainWaits(i) \/ LoseListen(i)
         \/ Relisten(i) \/ BackoffEnds(i) \/ RetryFires(i)
  PROVE  IInv'
<1>1. UNCHANGED <<tx, journal, horizon, row, applied, drain>>
  BY DEF ClaimSkips, ClaimFails, DrainWaits, LoseListen, Relisten, BackoffEnds, RetryFires,
         StartDrain
<1>2. loop' \in [Instances -> LoopType]
  <2>1. PICK l : loop' = [loop EXCEPT ![i] = l] /\ l \in LoopType
    <3>1. loop \in [Instances -> LoopType] /\ loop[i] \in LoopType
      BY Types
    <3>2. ASSUME ClaimSkips(i) \/ ClaimFails(i) \/ DrainWaits(i)
          PROVE  \E l \in LoopType : loop' = [loop EXCEPT ![i] = l]
      BY <3>1, <3>2 DEF ClaimSkips, ClaimFails, DrainWaits, LoopType, Failed
    <3>3. ASSUME LoseListen(i) \/ Relisten(i) \/ BackoffEnds(i) \/ RetryFires(i)
          PROVE  \E l \in LoopType : loop' = [loop EXCEPT ![i] = l]
      BY <3>1, <3>3 DEF LoseListen, Relisten, BackoffEnds, RetryFires, LoopType
    <3>4. QED
      BY <3>2, <3>3
  <2>2. QED
    BY <2>1, Types
<1>3. faults' \in 0..MaxFaults
  BY FaultType DEF ClaimSkips, ClaimFails, DrainWaits, LoseListen, Relisten, BackoffEnds,
                   RetryFires
<1>4. TypeOK'
  BY <1>1, <1>2, <1>3, Types, TypesKept
<1>5. \A j \in Instances :
        Alike(drain[j], drain'[j]) /\ (Active(drain[j]) /\ PassedByGC(row.cursor) => ClaimHeld(j)')
  <2> TAKE j \in Instances
  <2>1. Local(j, drain[j])
    BY DEF IInv
  <2>2. QED
    BY <1>1, <2>1 DEF Alike, Local, Fenced, ClaimHeld
<1>6. QED
  BY <1>1, <1>4, <1>5, QuietStep DEF PositionStands

\* What a claim, a renewal and a release do to the row: the position stands, the
\* claim of another that holds one is not touched.
LEMMA ClaimMoves ==
  ASSUME IInv, NEW i \in Instances, NEW r, r = Renewed(i) \/ r = ReleasedBy(row, i) \/ r = row
  PROVE  /\ r \in RowType
         /\ r.cursor = row.cursor /\ r.target = row.target /\ r.after = row.after
         /\ r.pending = row.pending
         /\ \A j \in Instances \ {i} : ClaimHeld(j) => r.holder = j /\ r.unexpired
         /\ r = Renewed(i) /\ ClaimHeld(i) => r.holder = i /\ r.unexpired
<1>1. row \in RowType
  BY Types
<1>2. QED
  BY <1>1, ConsumerAssumption
     DEF Renewed, ReleasedBy, Claimable, ClaimedBy, RowType, ClaimHeld

\* The drains a step leaves alone keep the fence if their claims are kept.
LEMMA OthersKeep ==
  ASSUME IInv, NEW j \in Instances, ClaimHeld(j) => ClaimHeld(j)'
  PROVE  Active(drain[j]) /\ PassedByGC(row.cursor) => ClaimHeld(j)'
<1>1. Local(j, drain[j])
  BY DEF IInv
<1>2. QED
  BY <1>1 DEF Local, Fenced

\* keepingClaim: a renewal, on time or late.
LEMMA RenewalStep ==
  ASSUME IInv, NEW i \in Instances, Renew(i) \/ RenewalIsSlow(i) \/ RenewalLands(i)
  PROVE  IInv'
<1>1. drain[i] \in DrainType /\ drain \in [Instances -> DrainType] /\ row \in RowType
  BY Types
<1>2. UNCHANGED <<tx, journal, horizon, applied, loop>> /\ (row' = Renewed(i) \/ row' = row)
  BY DEF Renew, RenewalIsSlow, RenewalLands
<1>3. PICK d \in DrainType : drain' = [drain EXCEPT ![i] = d] /\ Alike(drain[i], d)
  <2>1. PICK b \in BOOLEAN : b = (drain[i].lost \/ RenewalLost(i))
    BY Zenon
  <2>2. CASE Renew(i)
    <3>1. drain' = [drain EXCEPT ![i] = [drain[i] EXCEPT !.lost = b]]
      BY <2>1, <2>2 DEF Renew
    <3>2. [drain[i] EXCEPT !.lost = b] \in DrainType
      BY <1>1, <2>1 DEF DrainType
    <3>3. Alike(drain[i], [drain[i] EXCEPT !.lost = b])
      BY <1>1 DEF DrainType, Alike
    <3>4. QED
      BY <3>1, <3>2, <3>3
  <2>3. CASE RenewalIsSlow(i)
    <3>1. drain' = [drain EXCEPT ![i] = [drain[i] EXCEPT !.beat = TRUE]]
      BY <2>3 DEF RenewalIsSlow
    <3>2. [drain[i] EXCEPT !.beat = TRUE] \in DrainType
      BY <1>1 DEF DrainType
    <3>3. Alike(drain[i], [drain[i] EXCEPT !.beat = TRUE])
      BY <1>1 DEF DrainType, Alike
    <3>4. QED
      BY <3>1, <3>2, <3>3
  <2>4. CASE RenewalLands(i)
    <3>1. drain' = [drain EXCEPT ![i] = [drain[i] EXCEPT !.beat = FALSE, !.lost = b]]
      BY <2>1, <2>4 DEF RenewalLands
    <3>2. [drain[i] EXCEPT !.beat = FALSE, !.lost = b] \in DrainType
      BY <1>1, <2>1 DEF DrainType
    <3>3. Alike(drain[i], [drain[i] EXCEPT !.beat = FALSE, !.lost = b])
      BY <1>1 DEF DrainType, Alike
    <3>4. QED
      BY <3>1, <3>2, <3>3
  <2>5. QED
    BY <2>2, <2>3, <2>4
<1>4. faults' \in 0..MaxFaults
  BY FaultType DEF Renew, RenewalIsSlow, RenewalLands
<1>5. /\ row' \in RowType /\ PositionStands
      /\ \A j \in Instances : ClaimHeld(j) => ClaimHeld(j)'
  BY <1>2, ClaimMoves DEF PositionStands, ClaimHeld
<1>6. TypeOK'
  BY <1>1, <1>2, <1>3, <1>4, <1>5, Types, TypesKept DEF PositionStands
<1>7. \A j \in Instances :
        /\ Alike(drain[j], drain'[j])
        /\ Active(drain[j]) /\ PassedByGC(row.cursor) => ClaimHeld(j)'
  <2> TAKE j \in Instances
  <2>1. Alike(drain[j], drain'[j])
    BY <1>1, <1>3 DEF Alike
  <2>2. QED
    BY <1>5, <2>1, OthersKeep
<1>8. QED
  BY <1>2, <1>5, <1>6, <1>7, QuietStep

\* The lease of the claim runs out, but not under a forced rebuild at work.
LEMMA LapseStep ==
  ASSUME IInv, ~LateRebuilds, ClaimLapses
  PROVE  IInv'
<1>1. row \in RowType /\ horizon \in 0..MaxXid
  BY Types
<1>2. /\ UNCHANGED <<tx, journal, horizon, applied, drain, loop>>
      /\ row' \in RowType /\ PositionStands
  BY <1>1 DEF ClaimLapses, RowType, PositionStands
<1>3. faults' \in 0..MaxFaults
  BY FaultType DEF ClaimLapses
<1>4. TypeOK'
  BY <1>2, <1>3, Types, TypesKept DEF PositionStands
<1>5. ASSUME NEW j \in Instances, Active(drain[j]), PassedByGC(row.cursor) PROVE FALSE
  <2>1. Local(j, drain[j])
    BY DEF IInv
  <2>2. row.holder = j /\ Registered
    BY <1>5, <2>1 DEF Local, Fenced, ClaimHeld
  <2>3. Working(j)
    BY <1>5 DEF Working, Active
  <2>4. ~RebuildForced
    BY <2>2, <2>3 DEF ClaimLapses
  <2>5. row.cursor \in Snapshots
    BY <1>1, <2>2 DEF RowType, Registered
  <2>6. horizon > 0
    <3>1. Xmin(row.cursor) \in Nat /\ \E y \in Xids : y <= horizon
      BY <1>1, <1>5, <2>5, XminHides DEF PassedByGC
    <3>2. QED
      BY <1>1, <3>1, XidAssumption DEF Xids
  <2>7. QED
    BY <1>5, <2>2, <2>4, <2>6 DEF RebuildForced
<1>6. \A j \in Instances : Alike(drain[j], drain'[j])
  BY <1>2 DEF Alike
<1>7. QED
  BY <1>2, <1>4, <1>5, <1>6, QuietStep

\* A release reports to the loops (settle, FOR UPDATE SKIP LOCKED).
LEMMA ReleaseLoop ==
  ASSUME IInv, NEW i \in Instances, NEW own \in LoopType, AfterRelease(i, own)
  PROVE  loop' \in [Instances -> LoopType]
<1>1. PICK skipped : loop' = [j \in Instances |->
                               IF j = i THEN own
                               ELSE IF j \in skipped THEN [loop[j] EXCEPT !.wake = FALSE]
                               ELSE loop[j]]
  BY DEF AfterRelease
<1>2. \A j \in Instances : loop[j] \in LoopType /\ [loop[j] EXCEPT !.wake = FALSE] \in LoopType
  BY Types DEF LoopType
<1>3. QED
  BY <1>1, <1>2

\* The way out of a drain, and the process that dies or starts.
LEMMA LeaveStep ==
  ASSUME IInv, NEW i \in Instances,
         StepFails(i) \/ Release(i) \/ Die(i) \/ Restart(i)
  PROVE  IInv'
<1>1. drain[i] \in DrainType /\ drain \in [Instances -> DrainType] /\ row \in RowType
      /\ loop \in [Instances -> LoopType]
  BY Types
<1>2. UNCHANGED <<tx, journal, horizon, applied>>
  BY DEF StepFails, Release, Die, Restart
<1>3. PICK d \in DrainType : drain' = [drain EXCEPT ![i] = d] /\ Rests(d)
  <2>1. /\ At(i, "fail") \in DrainType /\ Rests(At(i, "fail"))
        /\ At(i, "idle") \in DrainType /\ Rests(At(i, "idle"))
    BY <1>1, RestingType DEF At, Rests, Active, Steps
  <2>2. /\ NoDrain \in DrainType /\ Rests(NoDrain)
        /\ [NoDrain EXCEPT !.pc = "dead"] \in DrainType
        /\ Rests([NoDrain EXCEPT !.pc = "dead"])
    <3>1. NoDrain \in DrainType /\ Rests(NoDrain)
      BY RestingType DEF Rests, Active
    <3>2. [NoDrain EXCEPT !.pc = "dead"] \in DrainType
      BY <3>1 DEF DrainType, Steps
    <3>3. Rests([NoDrain EXCEPT !.pc = "dead"])
      BY DEF NoDrain, Rests, Active
    <3>4. QED
      BY <3>1, <3>2, <3>3
  <2>3. QED
    BY <2>1, <2>2 DEF StepFails, Release, Die, Restart
<1>4. faults' \in 0..MaxFaults
  BY FaultType DEF StepFails, Release, Die, Restart
<1>5. /\ row' \in RowType /\ PositionStands
      /\ \A j \in Instances \ {i} : ClaimHeld(j) => ClaimHeld(j)'
  <2>1. CASE StepFails(i) \/ Release(i) \/ Restart(i)
    <3>1. row' = ReleasedBy(row, i) \/ row' = row
      BY <2>1 DEF StepFails, Release, Restart
    <3>2. QED
      BY <3>1, ClaimMoves DEF PositionStands, ClaimHeld
  <2>2. CASE Die(i)
    BY <1>1, <2>2 DEF Die, PositionStands, ClaimHeld, RowType
  <2>3. QED
    BY <2>1, <2>2
<1>6. loop' \in [Instances -> LoopType]
  <2>1. CASE StepFails(i)
    BY <1>1, <2>1 DEF StepFails
  <2>2. CASE Release(i)
    <3>1. PICK own \in LoopType : AfterRelease(i, own)
      BY <1>1, <2>2 DEF Release, Failed, LoopType
    <3>2. QED
      BY <1>1, <3>1, ReleaseLoop
  <2>3. CASE Die(i) \/ Restart(i)
    <3>1. Woken \in LoopType /\ [Woken EXCEPT !.wake = FALSE, !.listening = FALSE] \in LoopType
      BY DEF Woken, LoopType
    <3>2. QED
      BY <1>1, <2>3, <3>1 DEF Die, Restart
  <2>4. QED
    BY <2>1, <2>2, <2>3
<1>7. TypeOK'
  BY <1>1, <1>2, <1>3, <1>4, <1>5, <1>6, Types, TypesKept DEF PositionStands
<1>8. \A j \in Instances :
        \/ Rests(drain'[j])
        \/ /\ Alike(drain[j], drain'[j])
           /\ Active(drain[j]) /\ PassedByGC(row.cursor) => ClaimHeld(j)'
  <2> TAKE j \in Instances
  <2>1. CASE j = i
    BY <1>1, <1>3, <2>1
  <2>2. CASE j # i
    <3>1. Alike(drain[j], drain'[j])
      BY <1>1, <1>3, <2>2 DEF Alike
    <3>2. QED
      BY <1>5, <2>2, <3>1, OthersKeep
  <2>3. QED
    BY <2>1, <2>2
<1>9. QED
  BY <1>2, <1>5, <1>7, <1>8, QuietStep

-------------------------------------------------------------------------------
(* The steps of drainOne *)

\* A step answers, or its answer is lost.
LEMMA ProceedMeans ==
  ASSUME IInv, NEW i \in Instances, NEW next \in DrainType, Proceed(i, next)
  PROVE  /\ faults' \in 0..MaxFaults /\ drain' \in [Instances -> DrainType]
         /\ \E d \in DrainType : drain' = [drain EXCEPT ![i] = d] /\ (d = next \/ Rests(d))
<1>1. drain[i] \in DrainType /\ drain \in [Instances -> DrainType]
  BY Types
<1>2. At(i, "fail") \in DrainType /\ Rests(At(i, "fail"))
  BY <1>1, RestingType DEF At, Rests, Active, Steps
<1>3. \E d \in DrainType : drain' = [drain EXCEPT ![i] = d] /\ (d = next \/ Rests(d))
  BY <1>2 DEF Proceed
<1>4. faults' \in 0..MaxFaults
  BY FaultType DEF Proceed
<1>5. QED
  BY <1>1, <1>3, <1>4

\* The drains that a step leaves alone, while the position stands.
LEMMA OthersStand ==
  ASSUME IInv, Evolves, UNCHANGED horizon, PositionStands, NEW i \in Instances, NEW d,
         drain' = [drain EXCEPT ![i] = d],
         \A j \in Instances \ {i} : ClaimHeld(j) => ClaimHeld(j)'
  PROVE  \A j \in Instances \ {i} : Undisturbed(j)
<1> TAKE j \in Instances \ {i}
<1>1. drain'[j] = drain[j]
  BY Types
<1>2. PICK e : e = drain[j]
  OBVIOUS
<1>3. Local(j, e)
  BY <1>2 DEF IInv
<1>4. Active(e) /\ PassedByGC(row.cursor) => ClaimHeld(j)'
  BY <1>2, OthersKeep
<1>5. Local(j, e)'
  BY <1>3, <1>4, FenceStands DEF Alike
<1>6. QED
  BY <1>1, <1>2, <1>5 DEF Undisturbed, Local

\* A step of a drain that leaves the row alone.
LEMMA DrainOnly ==
  ASSUME IInv, UNCHANGED <<tx, journal, horizon, row, loop>>,
         applied \subseteq applied', applied' \subseteq Committed(tx),
         NEW i \in Instances, NEW next \in DrainType, Proceed(i, next), Local(i, next)'
  PROVE  IInv'
<1>1. PICK d \in DrainType : drain' = [drain EXCEPT ![i] = d] /\ (d = next \/ Rests(d))
  BY ProceedMeans
<1>2. TypeOK'
  BY ProceedMeans, Types, TypesKept
<1>3. Evolves /\ Base' /\ PositionStands
  BY <1>2, BaseStands DEF PositionStands
<1>4. \A j \in Instances \ {i} : Undisturbed(j)
  BY <1>1, <1>3, OthersStand DEF ClaimHeld
<1>5. Local(i, d)'
  BY <1>1, RestLocal DEF Rests
<1>6. QED
  BY <1>1, <1>3, <1>4, <1>5, OneDrainMoves

\* The rebuild reads everything that is committed.
LEMMA RebuildStep ==
  ASSUME IInv, NEW i \in Instances, Rebuild(i)
  PROVE  IInv'
<1>1. drain[i] \in DrainType /\ Local(i, drain[i])
  BY Types DEF IInv
<1>2. PICK next : next = IF drain[i].lost THEN At(i, "fail") ELSE To(i, "finish")
  OBVIOUS
<1>3. Proceed(i, next) /\ UNCHANGED <<tx, journal, horizon, row, loop>>
  BY <1>2 DEF Rebuild
<1>4. applied' = applied \cup Committed(tx) /\ drain[i].pc = "rebuild"
  BY DEF Rebuild
<1>5. next \in DrainType /\ Local(i, next)'
  <2>1. CASE drain[i].lost
    <3>1. next \in DrainType /\ Rests(next)
      BY <1>1, <1>2, <2>1, RestingType DEF At, Rests, Active, Steps
    <3>2. QED
      BY <3>1, RestLocal DEF Rests
  <2>2. CASE ~drain[i].lost
    <3>1. /\ next \in DrainType /\ next.pc = "finish" /\ next.todo = drain[i].todo
      BY <1>1, <1>2, <2>2 DEF To, DrainType, Steps
    <3>2. Counted(next)' /\ PageCovers(next)'
      BY <3>1 DEF Counted, PageCovers
    <3>3. TokenSound(next)'
      BY <1>1, <1>3, <3>1 DEF Local, TokenSound, Committed
    <3>4. RebuildCovers(next)'
      BY <1>3, <1>4 DEF RebuildCovers, Committed
    <3>5. Fenced(i, next)'
      BY <1>1, <1>3, <1>4, <3>1 DEF Local, Fenced, Active, Registered, PassedByGC, ClaimHeld
    <3>6. QED
      BY <3>1, <3>2, <3>3, <3>4, <3>5 DEF Local
  <2>3. QED
    BY <2>1, <2>2
<1>6. QED
  BY <1>3, <1>4, <1>5, Types, DrainOnly

\* A cursor that garbage collection passed asks for a rebuild.
LEMMA NeedsRebuildStep ==
  ASSUME IInv, NEW i \in Instances, PollNeedsRebuild(i)
  PROVE  IInv'
<1>1. drain[i] \in DrainType /\ Local(i, drain[i])
  BY Types DEF IInv
<1>2. PICK next : next = [drain[i] EXCEPT !.pc = "begin", !.index = @ + 1]
  OBVIOUS
<1>3. /\ Proceed(i, next) /\ UNCHANGED <<tx, journal, horizon, row, applied, loop>>
      /\ drain[i].pc = "poll" /\ PassedByGC(row.cursor)
  BY <1>2 DEF PollNeedsRebuild
<1>4. drain[i].index + 1 \in 0..MaxBatches
  <2>1. drain[i].index \in 0..MaxBatches /\ drain[i].index < MaxBatches
    BY <1>1, <1>3 DEF DrainType, Local, Counted
  <2>2. QED
    BY <2>1, ConsumerAssumption
<1>5. next \in DrainType /\ next.pc = "begin" /\ next.todo = drain[i].todo
  BY <1>1, <1>2, <1>4 DEF DrainType, Steps
<1>6. Local(i, next)'
  <2>1. Counted(next)' /\ PageCovers(next)' /\ RebuildCovers(next)'
    BY <1>5 DEF Counted, PageCovers, RebuildCovers
  <2>2. TokenSound(next)'
    BY <1>1, <1>3, <1>5 DEF Local, TokenSound, Committed
  <2>3. Fenced(i, next)'
    BY <1>1, <1>3, <1>5 DEF Local, Fenced, Active, Registered, PassedByGC, ClaimHeld
  <2>4. QED
    BY <2>1, <2>2, <2>3 DEF Local
<1>7. QED
  BY <1>3, <1>5, <1>6, Types, DrainOnly

\* A page is dispatched in parts.
LEMMA DispatchStep ==
  ASSUME IInv, NEW i \in Instances, Dispatch(i)
  PROVE  IInv'
<1>1. drain[i] \in DrainType /\ Local(i, drain[i])
  BY Types DEF IInv
<1>2. PICK group \in SUBSET drain[i].todo \ {{}} :
        /\ applied' = applied \cup group
        /\ Proceed(i, IF drain[i].lost THEN At(i, "fail")
                      ELSE [drain[i] EXCEPT !.todo = @ \ group,
                                            !.pc = IF group = drain[i].todo THEN "commit" ELSE @])
  BY DEF Dispatch
<1>3. PICK next : next = IF drain[i].lost THEN At(i, "fail")
                         ELSE [drain[i] EXCEPT !.todo = @ \ group,
                                  !.pc = IF group = drain[i].todo THEN "commit" ELSE @]
  OBVIOUS
<1>4. /\ Proceed(i, next) /\ UNCHANGED <<tx, journal, horizon, row, loop>>
      /\ drain[i].pc = "dispatch"
  BY <1>2, <1>3 DEF Dispatch
<1>5. group \subseteq Committed(tx)
  BY <1>1 DEF Local, TokenSound
<1>6. next \in DrainType /\ Local(i, next)'
  <2>1. CASE drain[i].lost
    <3>1. next \in DrainType /\ Rests(next)
      BY <1>1, <1>3, <2>1, RestingType DEF At, Rests, Active, Steps
    <3>2. QED
      BY <3>1, RestLocal DEF Rests
  <2>2. CASE ~drain[i].lost
    <3>1. next = [drain[i] EXCEPT !.todo = @ \ group,
                          !.pc = IF group = drain[i].todo THEN "commit" ELSE @]
      BY <1>3, <2>2
    <3>2. /\ next \in DrainType
          /\ next.todo = drain[i].todo \ group /\ next.token = drain[i].token
          /\ next.index = drain[i].index
          /\ next.pc \in {"dispatch", "commit"}
          /\ next.pc = "commit" => next.todo = {}
      BY <1>1, <1>4, <3>1 DEF DrainType, Steps
    <3>3. Counted(next)' /\ RebuildCovers(next)'
      BY <1>1, <1>4, <3>2 DEF Local, Counted, RebuildCovers
    <3>4. Evolves
      BY <1>2, <1>4, StillEvolves
    <3>5. TokenSound(drain[i]) /\ PageCovers(drain[i])
      BY <1>1 DEF Local
    <3>6. PICK d : d = drain[i]
      OBVIOUS
    <3>7. TokenSound(d)' /\ PageCovers(d)'
      BY <3>4, <3>5, <3>6, PageStays
    <3>8. TokenSound(next)'
      BY <1>4, <3>2, <3>6, <3>7 DEF TokenSound
    <3>9. PageCovers(next)'
      BY <1>2, <1>4, <3>2, <3>6, <3>7 DEF PageCovers
    <3>10. Fenced(i, next)'
      BY <1>1, <1>4, <3>2 DEF Local, Fenced, Active, Registered, PassedByGC, ClaimHeld
    <3>11. QED
      BY <3>2, <3>3, <3>8, <3>9, <3>10 DEF Local
  <2>3. QED
    BY <2>1, <2>2
<1>7. QED
  BY <1>2, <1>4, <1>5, <1>6, Types, DrainOnly

\* A page that is read is sound: nothing it passes is left out (readChanges).
LEMMA PolledSound ==
  ASSUME IInv, Registered, ~row.pending, ~PassedByGC(row.cursor)
  PROVE  /\ PolledToken \in Token
         /\ Page \subseteq journal
         /\ PolledToken.from = row.cursor
         /\ PositionSound(PolledToken.cursor, PolledToken.target, PolledToken.after)
         /\ SnapLE(row.cursor, PolledToken.cursor)
         /\ \A x \in Committed(tx) :
              Passed(PolledToken.cursor, PolledToken.target, PolledToken.after, x)
                => x \in applied \cup Page
<1>1. /\ row \in RowType /\ row.cursor \in Snapshots /\ horizon \in 0..MaxXid
      /\ row.target \in Snapshots \cup {NoSnapshot} /\ row.after \in 0..MaxXid
      /\ journal \subseteq Xids
  BY Types DEF RowType, Registered, Committed
<1>2. PositionSound(row.cursor, row.target, row.after)
  BY DEF IInv, Base, RowSound
<1>3. Target \in Snapshots /\ SnapSound(Target) /\ SnapLE(row.cursor, Target)
  <2>1. CASE row.target = NoSnapshot
    BY <1>2, <2>1, NowIsNotPassed DEF Target, SnapSound, SnapLE, PositionSound
  <2>2. CASE row.target # NoSnapshot
    BY <1>1, <1>2, <2>2 DEF Target, PositionSound
  <2>3. QED
    BY <2>1, <2>2
<1>4. PICK U : U = Unread(row.cursor, Target, row.after)
  OBVIOUS
<1>5. U \subseteq journal /\ U \in SUBSET Xids
  BY <1>1, <1>4 DEF Unread
<1>6. Page = FirstRows(U, Limit) /\ (MorePages <=> Page # U)
  BY <1>4 DEF Page, MorePages
<1>7. /\ Page \subseteq U
      /\ U # {} => Page # {}
      /\ \A x \in U, y \in Page : x <= y => x \in Page
  BY <1>5, <1>6, PageInOrder, ConsumerAssumption
<1>8. ASSUME NEW x \in Committed(tx), Visible(x, Target)
      PROVE  x \in applied \/ x \in U
  <2>1. CASE Passed(row.cursor, row.target, row.after, x)
    BY <2>1 DEF IInv, Base, CursorCovers
  <2>2. CASE ~Passed(row.cursor, row.target, row.after, x)
    <3>1. x \in Xids /\ ~Visible(x, row.cursor)
      BY <2>2 DEF Passed, Committed
    <3>2. ~(x <= horizon)
      BY <1>1, <3>1, XminHides DEF PassedByGC
    <3>3. x \in journal
      BY <3>2 DEF IInv, Base, HorizonSound
    <3>4. x > row.after
      <4>1. x \in Nat /\ x > 0 /\ row.after \in Nat
        BY <1>1, <3>1, XidAssumption DEF Xids
      <4>2. CASE row.target = NoSnapshot
        BY <1>2, <4>1, <4>2 DEF PositionSound
      <4>3. CASE row.target # NoSnapshot
        BY <1>8, <2>2, <4>1, <4>3 DEF Passed, Target
      <4>4. QED
        BY <4>2, <4>3
    <3>5. QED
      BY <1>4, <1>8, <3>1, <3>3, <3>4 DEF Unread
  <2>3. QED
    BY <2>1, <2>2
<1>9. CASE MorePages
  <2>1. Page # {} /\ Page \in SUBSET (0..MaxXid)
    <3>1. Page # {}
      BY <1>6, <1>7, <1>9
    <3>2. \A x \in Xids : x \in 0..MaxXid
      BY XidAssumption DEF Xids
    <3>3. QED
      BY <1>5, <1>7, <3>1, <3>2
  <2>2. Max(Page) \in Page
    BY <2>1, MaxIsOne, XidAssumption
  <2>3. PolledToken = [from |-> row.cursor, cursor |-> row.cursor, target |-> Target,
                       after |-> Max(Page)]
    BY <1>9 DEF PolledToken
  <2>4. Max(Page) \in 0..MaxXid
    BY <2>1, <2>2
  <2>5. PolledToken \in Token
    BY <1>1, <1>3, <2>3, <2>4 DEF Token
  <2>6. PositionSound(row.cursor, Target, Max(Page))
    BY <1>2, <1>3, NullAssumption DEF PositionSound
  <2>7. ASSUME NEW x \in Committed(tx), Passed(row.cursor, Target, Max(Page), x)
        PROVE  x \in applied \cup Page
    <3>1. CASE Visible(x, row.cursor)
      BY <3>1 DEF IInv, Base, CursorCovers, Passed
    <3>2. CASE Visible(x, Target) /\ x <= Max(Page)
      BY <1>7, <1>8, <2>2, <3>2
    <3>3. QED
      BY <2>7, <3>1, <3>2 DEF Passed
  <2>8. SnapLE(row.cursor, row.cursor)
    BY DEF SnapLE
  <2>9. QED
    BY <1>5, <1>7, <2>3, <2>5, <2>6, <2>7, <2>8
<1>10. CASE ~MorePages
  <2>1. PolledToken = [from |-> row.cursor, cursor |-> Target, target |-> NoSnapshot,
                       after |-> 0]
    BY <1>10 DEF PolledToken
  <2>2. PolledToken \in Token
    BY <1>1, <1>3, <2>1, XidAssumption DEF Token
  <2>3. PositionSound(Target, NoSnapshot, 0)
    BY <1>3 DEF PositionSound
  <2>4. ASSUME NEW x \in Committed(tx), Passed(Target, NoSnapshot, 0, x)
        PROVE  x \in applied \cup Page
    BY <1>6, <1>8, <1>10, <2>4 DEF Passed
  <2>5. QED
    BY <1>3, <1>5, <1>7, <2>1, <2>2, <2>3, <2>4
<1>11. QED
  BY <1>9, <1>10

\* A page is read.
LEMMA PollStep ==
  ASSUME IInv, NEW i \in Instances, Poll(i)
  PROVE  IInv'
<1>1. drain[i] \in DrainType /\ Local(i, drain[i])
  BY Types DEF IInv
<1>2. PICK next : next = [drain[i] EXCEPT !.pc = IF Page = {} THEN "commit" ELSE "dispatch",
                                          !.todo = Page, !.token = PolledToken]
  OBVIOUS
<1>3. /\ Proceed(i, next) /\ UNCHANGED <<tx, journal, horizon, row, applied, loop>>
      /\ drain[i].pc = "poll" /\ ~PassedByGC(row.cursor)
  BY <1>2 DEF Poll
<1>4. Registered /\ ~row.pending
  BY <1>1, <1>3 DEF Local, Fenced, Active
<1>5. PICK token, page : token = PolledToken /\ page = Page
  OBVIOUS
<1>6. /\ token \in Token /\ page \subseteq Committed(tx)
      /\ token.from = row.cursor
      /\ PositionSound(token.cursor, token.target, token.after)
      /\ SnapLE(token.from, token.cursor)
      /\ \A x \in Committed(tx) :
           Passed(token.cursor, token.target, token.after, x) => x \in applied \cup page
  BY <1>3, <1>4, <1>5, PolledSound, Types
<1>7. /\ next \in DrainType /\ next.token = token /\ next.todo = page
      /\ next.index = drain[i].index
      /\ next.pc \in {"dispatch", "commit"} /\ (next.pc = "commit" => page = {})
  <2>1. page \subseteq Xids
    BY <1>6 DEF Committed
  <2>2. QED
    BY <1>1, <1>2, <1>5, <1>6, <2>1 DEF DrainType, Steps
<1>8. Local(i, next)'
  <2>1. Counted(next)' /\ RebuildCovers(next)'
    BY <1>1, <1>3, <1>7 DEF Local, Counted, RebuildCovers
  <2>2. TokenSound(next) /\ PageCovers(next)
    BY <1>6, <1>7 DEF TokenSound, PageCovers
  <2>3. TokenSound(next)' /\ PageCovers(next)'
    BY <1>3, <2>2, StillEvolves, PageStays
  <2>4. Fenced(i, next)'
    BY <1>1, <1>3, <1>7 DEF Local, Fenced, Active, Registered, PassedByGC, ClaimHeld
  <2>5. QED
    BY <2>1, <2>3, <2>4 DEF Local
<1>9. QED
  BY <1>3, <1>7, <1>8, Types, DrainOnly

\* The claim between two pages.
LEMMA ReclaimStep ==
  ASSUME IInv, NEW i \in Instances, Reclaim(i)
  PROVE  IInv'
<1>1. drain[i] \in DrainType /\ Local(i, drain[i])
  BY Types DEF IInv
<1>2. PICK next : next = To(i, "poll")
  OBVIOUS
<1>3. /\ Proceed(i, next) /\ UNCHANGED <<tx, journal, horizon, applied, loop>>
      /\ drain[i].pc = "reclaim" /\ row' = Renewed(i)
  BY <1>2 DEF Reclaim
<1>4. /\ next \in DrainType /\ next.todo = drain[i].todo /\ next.index = drain[i].index
      /\ next.pc = "poll"
  BY <1>1, <1>2 DEF To, DrainType, Steps
<1>5. /\ row' \in RowType /\ PositionStands
      /\ \A j \in Instances : ClaimHeld(j) => ClaimHeld(j)'
  BY <1>3, ClaimMoves DEF PositionStands, ClaimHeld
<1>6. TypeOK'
  BY <1>3, <1>4, <1>5, ProceedMeans, Types, TypesKept DEF PositionStands
<1>7. Evolves /\ Base'
  BY <1>3, <1>5, <1>6, BaseStands
<1>8. PICK d \in DrainType : drain' = [drain EXCEPT ![i] = d] /\ (d = next \/ Rests(d))
  BY <1>3, <1>4, ProceedMeans
<1>9. \A j \in Instances \ {i} : Undisturbed(j)
  BY <1>3, <1>5, <1>7, <1>8, OthersStand
<1>10. Local(i, next)'
  <2>1. Counted(next)' /\ PageCovers(next)' /\ RebuildCovers(next)'
    BY <1>1, <1>3, <1>4 DEF Local, Counted, PageCovers, RebuildCovers
  <2>2. TokenSound(next)'
    BY <1>1, <1>3, <1>4 DEF Local, TokenSound, Committed
  <2>3. Fenced(i, next)'
    BY <1>1, <1>3, <1>4, <1>5 DEF Local, Fenced, Active, Registered, PassedByGC, PositionStands
  <2>4. QED
    BY <2>1, <2>2, <2>3 DEF Local
<1>11. Local(i, d)'
  BY <1>8, <1>10, RestLocal DEF Rests
<1>12. QED
  BY <1>7, <1>8, <1>9, <1>11, OneDrainMoves

\* While the cursor of a consumer moves, or a rebuild becomes due, no other drain
\* is concerned.
LEMMA OthersRest ==
  ASSUME NEW i \in Instances, NEW d, IInv, drain' = [drain EXCEPT ![i] = d],
         \A j \in Instances \ {i} : ~Active(drain[j])
  PROVE  \A j \in Instances \ {i} : Undisturbed(j)
<1> TAKE j \in Instances \ {i}
<1>1. drain'[j] = drain[j]
  BY Types
<1>2. QED
  BY <1>1 DEF Undisturbed, RebuildCovers, Fenced, Active

\* The base of a row at a new position.
LEMMA BaseMoves ==
  ASSUME IInv, TypeOK', UNCHANGED <<tx, journal, horizon, applied>>,
         PositionSound(row'.cursor, row'.target, row'.after),
         row'.pending => row'.cursor # NoSnapshot /\ row'.target = NoSnapshot,
         ~row'.pending => \A x \in Committed(tx) :
           Passed(row'.cursor, row'.target, row'.after, x) => x \in applied
  PROVE  Evolves /\ Base'
<1>1. Evolves
  BY StillEvolves
<1>2. RowSound'
  <2>1. PICK c, t, a : c = row'.cursor /\ t = row'.target /\ a = row'.after
    OBVIOUS
  <2>2. PositionSound(c, t, a)'
    BY <1>1, <2>1, PositionStays
  <2>3. QED
    BY <2>1, <2>2 DEF RowSound, PositionSound, TypeOK, Registered
<1>3. HorizonSound'
  BY DEF IInv, Base, HorizonSound, Ended, Committed
<1>4. TxOrdered' /\ PendingSound'
  BY DEF IInv, Base, TxOrdered, PendingSound, Registered
<1>5. CursorCovers'
  BY DEF CursorCovers, Passed, Committed
<1>6. QED
  BY <1>1, <1>2, <1>3, <1>4, <1>5 DEF Base

\* The forced rebuild moves the cursor to now, with no other drain at work.
LEMMA BeginStep ==
  ASSUME IInv, NEW i \in Instances, BeginRebuild(i)
  PROVE  IInv'
<1>1. drain[i] \in DrainType /\ Local(i, drain[i]) /\ row \in RowType
  BY Types DEF IInv
<1>2. PICK next : next = To(i, "rebuild")
  OBVIOUS
<1>3. /\ Proceed(i, next) /\ UNCHANGED <<tx, journal, horizon, applied, loop>>
      /\ drain[i].pc = "begin"
      /\ row' = [row EXCEPT !.cursor = CurrentSnapshot(tx), !.target = NoSnapshot, !.after = 0,
                            !.pending = TRUE]
  BY <1>2 DEF BeginRebuild
<1>4. /\ next \in DrainType /\ next.todo = drain[i].todo /\ next.pc = "rebuild"
  BY <1>1, <1>2 DEF To, DrainType, Steps
<1>5. /\ row' \in RowType /\ row'.cursor = CurrentSnapshot(tx) /\ row'.target = NoSnapshot
      /\ row'.after = 0 /\ row'.pending /\ row'.cursor # NoSnapshot
  <2>1. CurrentSnapshot(tx) \in Snapshots /\ CurrentSnapshot(tx) # NoSnapshot
        /\ 0 \in 0..MaxXid
    BY NowIsNotPassed, XidAssumption
  <2>2. row' \in RowType
    BY <1>1, <1>3, <2>1 DEF RowType
  <2>3. QED
    BY <1>1, <1>3, <2>1, <2>2 DEF RowType
<1>6. TypeOK'
  BY <1>3, <1>4, <1>5, ProceedMeans, Types, TypesKept
<1>7. PositionSound(row'.cursor, row'.target, row'.after)
  BY <1>5, NowIsNotPassed DEF PositionSound, SnapSound
<1>8. Evolves /\ Base'
  BY <1>3, <1>5, <1>6, <1>7, BaseMoves
<1>9. PICK d \in DrainType : drain' = [drain EXCEPT ![i] = d] /\ (d = next \/ Rests(d))
  BY <1>3, <1>4, ProceedMeans
<1>10. \A j \in Instances \ {i} : ~Active(drain[j])
  <2>1. PassedByGC(row.cursor) /\ ClaimHeld(i)
    BY <1>1, <1>3 DEF Local, Fenced, Active
  <2>2. ASSUME NEW j \in Instances \ {i}, Active(drain[j]) PROVE FALSE
    <3>1. Local(j, drain[j])
      BY DEF IInv
    <3>2. QED
      BY <2>1, <2>2, <3>1 DEF Local, Fenced, ClaimHeld
  <2>3. QED
    BY <2>2
<1>11. \A j \in Instances \ {i} : Undisturbed(j)
  BY <1>9, <1>10, OthersRest
<1>12. Local(i, next)'
  <2>1. Counted(next)' /\ PageCovers(next)' /\ RebuildCovers(next)'
    BY <1>4 DEF Counted, PageCovers, RebuildCovers
  <2>2. TokenSound(next)'
    BY <1>1, <1>3, <1>4 DEF Local, TokenSound, Committed
  <2>3. ~PassedByGC(row.cursor)'
    BY <1>3, <1>5, NowIsNotPassed DEF PassedByGC
  <2>4. Fenced(i, next)'
    BY <1>4, <1>5, <2>3 DEF Fenced, Registered
  <2>5. QED
    BY <2>1, <2>2, <2>4 DEF Local
<1>13. Local(i, d)'
  BY <1>9, <1>12, RestLocal DEF Rests
<1>14. QED
  BY <1>8, <1>9, <1>11, <1>13, OneDrainMoves

\* A rebuild that is finished settles what its cursor passed.
LEMMA FinishStep ==
  ASSUME IInv, NEW i \in Instances, FinishRebuild(i)
  PROVE  IInv'
<1>1. drain[i] \in DrainType /\ Local(i, drain[i]) /\ row \in RowType
  BY Types DEF IInv
<1>2. PICK next : next = To(i, IF drain[i].index = MaxBatches THEN "leave" ELSE "poll")
  OBVIOUS
<1>3. /\ Proceed(i, next) /\ UNCHANGED <<tx, journal, horizon, applied, loop>>
      /\ drain[i].pc = "finish"
      /\ row' = [row EXCEPT !.pending = FALSE]
  BY <1>2 DEF FinishRebuild
<1>4. /\ next \in DrainType /\ next.todo = drain[i].todo
      /\ next.pc \in {"leave", "poll"} /\ (next.pc = "poll" => next.index < MaxBatches)
  <2>1. drain[i].index # MaxBatches => drain[i].index < MaxBatches
    BY <1>1, ConsumerAssumption DEF DrainType
  <2>2. CASE drain[i].index = MaxBatches
    BY <1>1, <1>2, <2>2 DEF To, DrainType, Steps
  <2>3. CASE drain[i].index # MaxBatches
    BY <1>1, <1>2, <2>1, <2>3 DEF To, DrainType, Steps
  <2>4. QED
    BY <2>2, <2>3
<1>5. /\ row' \in RowType /\ row'.cursor = row.cursor /\ row'.target = row.target
      /\ row'.after = row.after /\ ~row'.pending
      /\ \A j \in Instances : ClaimHeld(j) => ClaimHeld(j)'
  BY <1>1, <1>3 DEF RowType, ClaimHeld
<1>6. TypeOK'
  BY <1>3, <1>4, <1>5, ProceedMeans, Types, TypesKept
<1>7. Registered
  BY <1>1, <1>3 DEF Local, Fenced, Active
<1>8. PositionSound(row'.cursor, row'.target, row'.after)
  BY <1>5, <1>7 DEF IInv, Base, RowSound
<1>9. \A x \in Committed(tx) : Passed(row'.cursor, row'.target, row'.after, x) => x \in applied
  <2>1. CASE row.pending
    BY <1>1, <1>3, <1>5, <2>1 DEF Local, RebuildCovers, IInv, Base, PendingSound, Passed
  <2>2. CASE ~row.pending
    BY <1>5, <1>7, <2>2 DEF IInv, Base, CursorCovers
  <2>3. QED
    BY <2>1, <2>2
<1>10. Evolves /\ Base'
  BY <1>3, <1>5, <1>6, <1>8, <1>9, BaseMoves
<1>11. PICK d \in DrainType : drain' = [drain EXCEPT ![i] = d] /\ (d = next \/ Rests(d))
  BY <1>3, <1>4, ProceedMeans
<1>12. \A j \in Instances \ {i} : Undisturbed(j)
  <2> TAKE j \in Instances \ {i}
  <2>1. drain'[j] = drain[j] /\ Local(j, drain[j])
    BY <1>11, Types DEF IInv
  <2>2. RebuildCovers(drain[j])'
    BY <1>5 DEF RebuildCovers
  <2>3. Fenced(j, drain[j])'
    BY <1>3, <1>5, <2>1 DEF Local, Fenced, Registered, PassedByGC
  <2>4. QED
    BY <2>2, <2>3 DEF Undisturbed
<1>13. Local(i, next)'
  <2>1. Counted(next)' /\ PageCovers(next)' /\ RebuildCovers(next)'
    BY <1>4 DEF Counted, PageCovers, RebuildCovers
  <2>2. TokenSound(next)'
    BY <1>1, <1>3, <1>4 DEF Local, TokenSound, Committed
  <2>3. Fenced(i, next)'
    BY <1>1, <1>3, <1>4, <1>5 DEF Local, Fenced, Active, Registered, PassedByGC
  <2>4. QED
    BY <2>1, <2>2, <2>3 DEF Local
<1>14. Local(i, d)'
  BY <1>11, <1>13, RestLocal DEF Rests
<1>15. QED
  BY <1>10, <1>11, <1>12, <1>14, OneDrainMoves

\* A committed page moves the cursor over what is reflected, under the claim.
LEMMA CommitKeeps ==
  ASSUME IInv, NEW i \in Instances, drain[i].pc = "commit", Committable(i),
         UNCHANGED <<tx, journal, horizon, applied>>, TypeOK',
         row'.cursor = drain[i].token.cursor, row'.target = drain[i].token.target,
         row'.after = drain[i].token.after, row'.pending = row.pending,
         NEW d, drain' = [drain EXCEPT ![i] = d],
         \/ Rests(d)
         \/ d.pc = "reclaim" /\ d.todo = {} /\ d.index < MaxBatches /\ ClaimHeld(i)'
  PROVE  IInv'
<1>1. drain[i] \in DrainType /\ Local(i, drain[i]) /\ row \in RowType /\ horizon \in 0..MaxXid
  BY Types DEF IInv
<1>2. /\ Registered /\ ~row.pending /\ ClaimHeld(i) /\ row.cursor = drain[i].token.from
  BY <1>1 DEF Local, Fenced, Active, Committable
<1>3. /\ drain[i].token \in Token /\ drain[i].todo = {}
      /\ PositionSound(row'.cursor, row'.target, row'.after)
      /\ SnapLE(row.cursor, row'.cursor)
  BY <1>1, <1>2 DEF Local, TokenSound, Counted
<1>4. /\ row.cursor \in Snapshots /\ row'.cursor \in Snapshots
      /\ row'.cursor # NoSnapshot
  BY <1>1, <1>2, <1>3, NullAssumption DEF Token, RowType, Registered
<1>5. \A x \in Committed(tx) : Passed(row'.cursor, row'.target, row'.after, x) => x \in applied
  BY <1>1, <1>3 DEF Local, PageCovers
<1>6. Evolves /\ Base'
  BY <1>2, <1>3, <1>5, BaseMoves
<1>7. PassedByGC(row.cursor)' => PassedByGC(row.cursor)
  <2>1. horizon >= Xmin(row'.cursor) => horizon >= Xmin(row.cursor)
    BY <1>1, <1>3, <1>4, XminHides DEF SnapLE
  <2>2. QED
    BY <2>1 DEF PassedByGC
<1>8. \A j \in Instances \ {i} : Undisturbed(j)
  <2> TAKE j \in Instances \ {i}
  <2>1. drain'[j] = drain[j] /\ Local(j, drain[j])
    BY Types DEF IInv
  <2>2. RebuildCovers(drain[j])'
    BY <1>2 DEF RebuildCovers
  <2>3. Active(drain[j]) => ~PassedByGC(row.cursor)
    BY <1>2, <2>1 DEF Local, Fenced, ClaimHeld
  <2>4. Fenced(j, drain[j])'
    BY <1>2, <1>4, <1>7, <2>1, <2>3 DEF Local, Fenced, Registered
  <2>5. QED
    BY <2>2, <2>4 DEF Undisturbed
<1>9. Local(i, d)'
  <2>1. CASE Rests(d)
    BY <2>1, RestLocal DEF Rests
  <2>2. CASE d.pc = "reclaim" /\ d.todo = {} /\ d.index < MaxBatches /\ ClaimHeld(i)'
    BY <1>2, <1>4, <2>2
       DEF Local, Counted, TokenSound, PageCovers, RebuildCovers, Fenced, Registered
  <2>3. QED
    BY <2>1, <2>2
<1>10. QED
  BY <1>6, <1>8, <1>9, OneDrainMoves

\* The row that a token is stored in (commitChanges).
LEMMA StoredType ==
  ASSUME IInv, NEW i \in Instances, drain[i].pc = "commit"
  PROVE  /\ StoredToken(i) \in RowType
         /\ StoredToken(i).cursor = drain[i].token.cursor
         /\ StoredToken(i).target = drain[i].token.target
         /\ StoredToken(i).after = drain[i].token.after
         /\ StoredToken(i).pending = row.pending /\ StoredToken(i).holder = row.holder
         /\ StoredToken(i).unexpired = row.unexpired
         /\ drain[i].token.cursor # NoSnapshot
<1>1. row \in RowType /\ Local(i, drain[i])
  BY Types DEF IInv
<1>2. drain[i].token \in Token
  BY <1>1 DEF Local, TokenSound
<1>3. QED
  BY <1>1, <1>2, NullAssumption DEF Token, RowType, StoredToken

\* A page with more to come, and the last page with the release.
LEMMA CommitStep ==
  ASSUME IInv, NEW i \in Instances, CommitBatch(i) \/ CommitLastBatch(i)
  PROVE  IInv'
<1>1. /\ drain[i] \in DrainType /\ Local(i, drain[i]) /\ row \in RowType
      /\ drain \in [Instances -> DrainType] /\ loop \in [Instances -> LoopType]
  BY Types DEF IInv
<1>2. /\ drain[i].pc = "commit" /\ Committable(i)
      /\ UNCHANGED <<tx, journal, horizon, applied>>
  BY DEF CommitBatch, CommitLastBatch
<1>3. CASE CommitBatch(i)
  <2>1. PICK next : next = [drain[i] EXCEPT !.pc = "reclaim", !.index = @ + 1, !.token = NoToken]
    OBVIOUS
  <2>2. Proceed(i, next) /\ row' = StoredToken(i) /\ UNCHANGED loop
    BY <1>3, <2>1 DEF CommitBatch
  <2>3. drain[i].index + 1 \in 0..MaxBatches /\ drain[i].index + 1 < MaxBatches
    <3>1. drain[i].index \in 0..MaxBatches /\ drain[i].index < MaxBatches
      BY <1>1, <1>2 DEF DrainType, Local, Counted
    <3>2. drain[i].index # MaxBatches - 1
      BY <1>3 DEF CommitBatch, LastBatch
    <3>3. QED
      BY <3>1, <3>2, ConsumerAssumption
  <2>4. /\ next \in DrainType /\ next.pc = "reclaim" /\ next.todo = {}
        /\ next.index < MaxBatches
    BY <1>1, <1>2, <2>1, <2>3 DEF DrainType, Steps, Local, Counted
  <2>5. PICK d \in DrainType : drain' = [drain EXCEPT ![i] = d] /\ (d = next \/ Rests(d))
    BY <2>2, <2>4, ProceedMeans
  <2>6. TypeOK'
    BY <1>1, <1>2, <2>2, <2>4, ProceedMeans, StoredType, Types, TypesKept
  <2>7. ClaimHeld(i)'
    BY <1>2, <2>2, StoredType DEF ClaimHeld, Committable
  <2>8. QED
    BY <1>2, <2>2, <2>4, <2>5, <2>6, <2>7, StoredType, CommitKeeps
<1>4. CASE CommitLastBatch(i)
  <2>1. row' = ReleasedBy(StoredToken(i), i)
    BY <1>4 DEF CommitLastBatch
  <2>2. /\ row' \in RowType /\ row'.cursor = drain[i].token.cursor
        /\ row'.target = drain[i].token.target /\ row'.after = drain[i].token.after
        /\ row'.pending = row.pending
    BY <1>2, <2>1, StoredType DEF ReleasedBy, RowType
  <2>3. PICK d \in DrainType : drain' = [drain EXCEPT ![i] = d] /\ Rests(d)
    <3>1. /\ At(i, "fail") \in DrainType /\ Rests(At(i, "fail"))
          /\ At(i, "idle") \in DrainType /\ Rests(At(i, "idle"))
      BY <1>1, RestingType DEF At, Rests, Active, Steps
    <3>2. QED
      BY <1>4, <3>1 DEF CommitLastBatch
  <2>4. loop' \in [Instances -> LoopType]
    <3>1. PICK b \in BOOLEAN : b = (loop[i].wake \/ drain[i].token.target # NoSnapshot)
      BY Zenon
    <3>2. [loop[i] EXCEPT !.wake = b, !.backoff = FALSE] \in LoopType
      BY <1>1, <3>1 DEF LoopType
    <3>3. \/ AfterRelease(i, [loop[i] EXCEPT !.wake = b, !.backoff = FALSE])
          \/ UNCHANGED loop
      BY <1>4, <3>1 DEF CommitLastBatch
    <3>4. QED
      BY <1>1, <3>2, <3>3, ReleaseLoop
  <2>5. faults' \in 0..MaxFaults
    BY <1>4, FaultType DEF CommitLastBatch
  <2>6. TypeOK'
    BY <1>1, <1>2, <2>2, <2>3, <2>4, <2>5, StoredType, Types, TypesKept
  <2>7. QED
    BY <1>2, <2>2, <2>3, <2>6, CommitKeeps
<1>5. QED
  BY <1>3, <1>4

\* The claim that starts a drain, and registers a consumer that is new.
LEMMA ClaimStep ==
  ASSUME IInv, NEW i \in Instances, Claim(i)
  PROVE  IInv'
<1>1. /\ drain[i] \in DrainType /\ Local(i, drain[i]) /\ row \in RowType
      /\ drain \in [Instances -> DrainType] /\ loop \in [Instances -> LoopType]
      /\ faults \in 0..MaxFaults
      /\ row.target # NoSnapshot => row.cursor # NoSnapshot
  BY Types DEF IInv
<1>2. /\ UNCHANGED <<tx, journal, horizon, applied, faults>> /\ drain[i].pc = "idle"
      /\ Claimable(i) /\ row' = ClaimedBy(RegisteredRow, i)
  BY DEF Claim, StartDrain
<1>3. PICK d : d = [drain[i] EXCEPT !.pc = IF row'.pending THEN "rebuild" ELSE "poll"]
  OBVIOUS
<1>4. drain' = [drain EXCEPT ![i] = d]
  BY <1>3 DEF Claim
<1>5. /\ d \in DrainType /\ d.todo = drain[i].todo /\ d.index = 0
      /\ d.pc = IF row'.pending THEN "rebuild" ELSE "poll"
  BY <1>1, <1>2, <1>3 DEF DrainType, Steps, Local, Counted
<1>6. /\ row' \in RowType /\ ClaimHeld(i)' /\ Registered'
      /\ Registered => PositionStands
      /\ ~Registered => /\ row'.cursor = CurrentSnapshot(tx) /\ row'.target = NoSnapshot
                        /\ row'.after = 0 /\ row'.pending
  <2>1. CurrentSnapshot(tx) \in Snapshots /\ CurrentSnapshot(tx) # NoSnapshot
    BY NowIsNotPassed
  <2>2. CASE Registered
    BY <1>1, <1>2, <2>2
       DEF RegisteredRow, ClaimedBy, RowType, ClaimHeld, Registered, PositionStands
  <2>3. CASE ~Registered
    <3>1. row.target = NoSnapshot /\ row.after = 0
      BY <1>1, <2>3 DEF IInv, Base, RowSound, Registered
    <3>2. RegisteredRow = [row EXCEPT !.cursor = CurrentSnapshot(tx), !.pending = TRUE]
      BY <2>3 DEF RegisteredRow
    <3>3. QED
      BY <1>1, <1>2, <2>1, <2>3, <3>1, <3>2 DEF ClaimedBy, RowType, ClaimHeld, Registered
  <2>4. QED
    BY <2>2, <2>3
<1>7. loop' \in [Instances -> LoopType]
  BY <1>1 DEF Claim, LoopType
<1>8. TypeOK'
  BY <1>1, <1>2, <1>4, <1>5, <1>6, <1>7, Types, TypesKept DEF Registered
<1>9. Local(i, d)'
  <2>1. Counted(d)' /\ PageCovers(d)' /\ RebuildCovers(d)'
    BY <1>5, ConsumerAssumption DEF Counted, PageCovers, RebuildCovers
  <2>2. TokenSound(d)'
    BY <1>1, <1>2, <1>5 DEF Local, TokenSound, Committed
  <2>3. Fenced(i, d)'
    BY <1>5, <1>6 DEF Fenced
  <2>4. QED
    BY <2>1, <2>2, <2>3 DEF Local
<1>10. CASE Registered
  <2>1. Evolves /\ Base'
    BY <1>2, <1>6, <1>8, <1>10, BaseStands
  <2>2. \A j \in Instances \ {i} : ~ClaimHeld(j)
    BY <1>2, ConsumerAssumption DEF Claimable, ClaimHeld
  <2>3. \A j \in Instances \ {i} : Undisturbed(j)
    BY <1>2, <1>4, <1>6, <1>10, <2>1, <2>2, OthersStand
  <2>4. QED
    BY <1>4, <1>9, <2>1, <2>3, OneDrainMoves
<1>11. CASE ~Registered
  <2>1. PositionSound(row'.cursor, row'.target, row'.after)
    BY <1>6, <1>11, NowIsNotPassed DEF PositionSound, SnapSound
  <2>2. Evolves /\ Base'
    BY <1>2, <1>6, <1>8, <1>11, <2>1, BaseMoves DEF Registered
  <2>3. \A j \in Instances \ {i} : ~Active(drain[j])
    BY <1>11 DEF IInv, Local, Fenced
  <2>4. \A j \in Instances \ {i} : Undisturbed(j)
    BY <1>4, <2>3, OthersRest
  <2>5. QED
    BY <1>4, <1>9, <2>2, <2>4, OneDrainMoves
<1>12. QED
  BY <1>10, <1>11

-------------------------------------------------------------------------------
(* Theorems *)

\* A new journal and consumer.
LEMMA InitSound == Init => IInv
<1> SUFFICES ASSUME Init PROVE IInv
  OBVIOUS
<1>0. 0 \in 0..MaxXid /\ 0 \in 0..MaxFaults /\ Committed(tx) = {}
  BY XidAssumption, ConsumerAssumption DEF Init, Committed
<1>1. TypeOK
  <2>1. NoDrain \in DrainType /\ Woken \in LoopType
    BY RestingType DEF Woken, LoopType
  <2>2. row \in RowType /\ row.target = NoSnapshot
    BY <1>0 DEF Init, RowType
  <2>3. tx \in [Xids -> TxStates]
    BY DEF Init, TxStates
  <2>4. QED
    BY <1>0, <2>1, <2>2, <2>3 DEF Init, TypeOK, RowType, DrainType, LoopType
<1>2. TxOrdered /\ RowSound /\ PendingSound /\ CursorCovers
  BY DEF Init, TxOrdered, RowSound, PendingSound, CursorCovers, Registered
<1>3. HorizonSound
  <2>1. \A x \in Xids : ~(x <= 0)
    BY XidAssumption DEF Xids
  <2>2. QED
    BY <1>0, <2>1 DEF Init, HorizonSound
<1>4. \A i \in Instances : Local(i, drain[i])
  BY DEF Init, NoDrain, Local, Counted, TokenSound, PageCovers, RebuildCovers, Fenced, Active
<1>5. QED
  BY <1>1, <1>2, <1>3, <1>4 DEF IInv, Base

\* Every step keeps the invariant.
LEMMA StepSound ==
  ASSUME ~LateRebuilds, IInv, [Next]_vars
  PROVE  IInv'
<1>1. ASSUME NEW x \in Xids, Begin(x) \/ Commit(x) \/ Abort(x) PROVE IInv'
  BY <1>1, WriterStep
<1>2. ASSUME NEW i \in Instances, Drain(i) PROVE IInv'
  BY <1>2, ClaimStep, LoopStep, RebuildStep, FinishStep, PollStep, NeedsRebuildStep, BeginStep,
     DispatchStep, CommitStep, ReclaimStep, LeaveStep DEF Drain
<1>3. ASSUME NEW i \in Instances, Loop(i) \/ Faults(i) PROVE IInv'
  BY <1>3, LoopStep, LeaveStep, RenewalStep DEF Loop, Faults
<1>4. CASE ClaimLapses
  BY <1>4, LapseStep
<1>5. CASE CollectGarbage
  BY <1>5, CollectStep
<1>6. CASE UNCHANGED vars
  <2>1. UNCHANGED <<tx, journal, horizon, row, applied, drain, loop, faults>>
    BY <1>6 DEF vars
  <2>2. TypeOK'
    BY <2>1, Types, TypesKept
  <2>3. \A j \in Instances :
          /\ Alike(drain[j], drain'[j])
          /\ Active(drain[j]) /\ PassedByGC(row.cursor) => ClaimHeld(j)'
    <3> TAKE j \in Instances
    <3>1. Active(drain[j]) /\ PassedByGC(row.cursor) => ClaimHeld(j)'
      BY <2>1, OthersKeep DEF ClaimHeld
    <3>2. QED
      BY <2>1, <3>1 DEF Alike
  <2>4. QED
    BY <2>1, <2>2, <2>3, QuietStep DEF PositionStands
<1>7. QED
  BY <1>1, <1>2, <1>3, <1>4, <1>5, <1>6 DEF Next

\* The state of the journal, the consumer's row and every drain keeps its shape;
\* only committed changes are in the journal and in the derived state
\* (change-journal.ts, change-consumers.ts).
THEOREM JournalTypeCorrect ==
  ASSUME ~LateRebuilds
  PROVE  Spec => []TypeOK
<1>1. IInv => TypeOK
  BY DEF IInv, Base
<1>2. Init => IInv
  BY InitSound
<1>3. IInv /\ [Next]_vars => IInv'
  BY StepSound
<1>4. QED
  BY <1>1, <1>2, <1>3, PTL DEF Spec

\* What is owed covers what is missing.
AccountSound == Committed(tx) \ applied \subseteq Owed /\ Owed \subseteq Committed(tx)

\* Every committed change that is not in the derived state is still owed.
LEMMA NothingLostNow == IInv => AccountSound /\ ContinuousIsComplete
<1> SUFFICES ASSUME IInv PROVE AccountSound /\ ContinuousIsComplete
  OBVIOUS
<1>1. ASSUME Registered, ~row.pending, ~PassedByGC(row.cursor),
             NEW x \in Committed(tx) \ applied
      PROVE  x \in journal /\ ~Passed(row.cursor, row.target, row.after, x)
  <2>1. x \in Xids /\ row.cursor \in Snapshots /\ horizon \in 0..MaxXid
    BY <1>1, Types DEF RowType, Registered, Committed
  <2>2. ~Passed(row.cursor, row.target, row.after, x)
    BY <1>1 DEF IInv, Base, CursorCovers
  <2>3. ~(x <= horizon)
    BY <1>1, <2>1, <2>2, XminHides DEF PassedByGC, Passed
  <2>4. QED
    BY <2>2, <2>3 DEF IInv, Base, HorizonSound
<1>2. ContinuousIsComplete
  BY <1>1 DEF ContinuousIsComplete, Passed
<1>3. Owed \subseteq Committed(tx)
  BY Types DEF Owed
<1>4. ASSUME NEW x \in Committed(tx) \ applied PROVE x \in Owed
  <2>1. CASE ~Registered \/ row.pending \/ PassedByGC(row.cursor)
    BY <2>1 DEF Owed
  <2>2. CASE Registered /\ ~row.pending /\ ~PassedByGC(row.cursor)
    <3>1. x \in journal /\ ~Passed(row.cursor, row.target, row.after, x)
      BY <1>1, <2>2
    <3>2. x \in Nat /\ (row.target # NoSnapshot => row.after \in Nat)
      BY Types, XidAssumption DEF Committed, Xids, RowType
    <3>3. row.target # NoSnapshot => ~Visible(x, row.target) \/ x > row.after
      BY <3>1, <3>2 DEF Passed
    <3>4. QED
      BY <2>2, <3>1, <3>3 DEF Owed, Passed
  <2>3. QED
    BY <2>1, <2>2
<1>5. QED
  BY <1>2, <1>3, <1>4 DEF AccountSound

\* Under a continuous cursor every committed change is reflected or waits in the
\* journal, for any interleaving of commits, drains, lost claims and collections
\* (consumerCursorContinuous).
THEOREM ContinuousCursorComplete ==
  ASSUME ~LateRebuilds
  PROVE  Spec => []ContinuousIsComplete
<1>1. IInv => ContinuousIsComplete
  BY NothingLostNow
<1>2. Init => IInv
  BY InitSound
<1>3. IInv /\ [Next]_vars => IInv'
  BY StepSound
<1>4. QED
  BY <1>1, <1>2, <1>3, PTL DEF Spec

-------------------------------------------------------------------------------
(* The refinement *)

\* A transaction's commit is a change that happens, and becomes owed.
LEMMA CommitHappens ==
  ASSUME IInv, NEW x \in Xids, Commit(x)
  PROVE  Delivery!Happen(x)
<1>1. /\ tx[x] = "open" /\ tx' = [tx EXCEPT ![x] = "committed"] /\ journal' = journal \cup {x}
      /\ UNCHANGED <<horizon, row, applied>>
  BY DEF Commit
<1>2. /\ x \notin Committed(tx) /\ x \notin Ended(tx)
      /\ Committed(tx)' = Committed(tx) \cup {x}
  BY <1>1, Types DEF Committed, Ended
<1>3. Owed' = Owed \cup {x}
  <2>1. CASE ~Registered \/ row.pending \/ PassedByGC(row.cursor)
    BY <1>1, <1>2, <2>1 DEF Owed, Registered, PassedByGC
  <2>2. CASE Registered /\ ~row.pending /\ ~PassedByGC(row.cursor)
    <3>1. PositionSound(row.cursor, row.target, row.after)
      BY <2>2 DEF IInv, Base, RowSound
    <3>2. ~Visible(x, row.cursor) /\ (row.target # NoSnapshot => ~Visible(x, row.target))
      BY <1>2, <3>1 DEF PositionSound, SnapSound
    <3>3. Owed = {y \in journal : /\ ~Visible(y, row.cursor)
                                  /\ row.target # NoSnapshot =>
                                       ~Visible(y, row.target) \/ y > row.after}
      BY <2>2 DEF Owed
    <3>4. Owed' = {y \in journal' : /\ ~Visible(y, row.cursor)
                                    /\ row.target # NoSnapshot =>
                                         ~Visible(y, row.target) \/ y > row.after}
      BY <1>1, <2>2 DEF Owed, Registered, PassedByGC
    <3>5. QED
      BY <1>1, <3>2, <3>3, <3>4
  <2>3. QED
    BY <2>1, <2>2
<1>4. QED
  BY <1>1, <1>2, <1>3 DEF Delivery!Happen

\* A rebuild and a dispatch deliver committed changes, and owe what they owed.
LEMMA DrainDelivers ==
  ASSUME IInv, NEW i \in Instances, Rebuild(i) \/ Dispatch(i)
  PROVE  \E some \in SUBSET Committed(tx) : Delivery!Deliver(some)
<1>1. UNCHANGED <<tx, journal, horizon, row>>
  BY DEF Rebuild, Dispatch
<1>2. Owed' = Owed /\ Committed(tx)' = Committed(tx)
  BY <1>1 DEF Owed, Registered, PassedByGC, Committed
<1>3. PICK some \in SUBSET Committed(tx) : applied' = applied \cup some
  <2>1. CASE Rebuild(i)
    BY <2>1 DEF Rebuild
  <2>2. CASE Dispatch(i)
    <3>1. Local(i, drain[i])
      BY DEF IInv
    <3>2. QED
      BY <2>2, <3>1 DEF Dispatch, Local, TokenSound
  <2>3. QED
    BY <2>1, <2>2
<1>4. QED
  BY <1>2, <1>3 DEF Delivery!Deliver

\* Every other step is a new account of what is owed, or nothing.
LEMMA StepAccounts ==
  ASSUME IInv, IInv', Committed(tx)' = Committed(tx), applied' = applied
  PROVE  \E some \in SUBSET Committed(tx) : Delivery!Account(some)
<1>1. AccountSound'
  BY NothingLostNow, PTL
<1>2. AccountSound
  BY NothingLostNow
<1>3. Owed \ Owed' \subseteq applied /\ Owed' \in SUBSET Committed(tx)
  BY <1>1, <1>2 DEF AccountSound
<1>4. QED
  BY <1>3 DEF Delivery!Account

\* Every step of the journal and its consumer is a step of the contract, or none.
LEMMA StepRefines ==
  ASSUME ~LateRebuilds, IInv, IInv', [Next]_vars
  PROVE  [Delivery!Next]_(Delivery!vars)
<1>1. ASSUME NEW x \in Xids, Commit(x) PROVE Delivery!Next
  BY <1>1, CommitHappens DEF Delivery!Next
<1>2. ASSUME NEW i \in Instances, Rebuild(i) \/ Dispatch(i) PROVE Delivery!Next
  BY <1>2, DrainDelivers DEF Delivery!Next
<1>3. ASSUME applied' = applied, Committed(tx)' = Committed(tx) PROVE Delivery!Next
  BY <1>3, StepAccounts DEF Delivery!Next
<1>4. ASSUME NEW x \in Xids, Begin(x) \/ Abort(x)
      PROVE  applied' = applied /\ Committed(tx)' = Committed(tx)
  BY <1>4, Types DEF Begin, Abort, Start, Committed
<1>5. ASSUME NEW i \in Instances, Drain(i) \/ Loop(i) \/ Faults(i)
      PROVE  \/ Rebuild(i) \/ Dispatch(i)
             \/ applied' = applied /\ tx' = tx
  BY <1>5 DEF Drain, Loop, Faults, Claim, ClaimSkips, ClaimFails, DrainWaits, StartDrain,
     FinishRebuild, Poll, PollNeedsRebuild, BeginRebuild, CommitBatch, CommitLastBatch, Reclaim,
     StepFails, Release, Relisten, BackoffEnds, RetryFires, Restart, Renew, RenewalLands,
     LoseListen, Die, RenewalIsSlow
<1>6. CASE ClaimLapses \/ CollectGarbage \/ UNCHANGED vars
  <2>1. applied' = applied /\ tx' = tx
    BY <1>6 DEF ClaimLapses, CollectGarbage, vars
  <2>2. QED
    BY <1>3, <2>1 DEF Committed
<1>7. QED
  BY <1>1, <1>2, <1>3, <1>4, <1>5, <1>6 DEF Next, Committed

\* The change journal with its cursors, claims, pages, rebuilds, faults and garbage
\* collection implements the contract of ChangeDelivery.tla: whatever the cursor
\* passes, a collection removes or a finished rebuild settles is in the consumer's
\* derived state already (change-journal.ts, "Cursor semantics", "Retention").
THEOREM JournalDelivers ==
  ASSUME ~LateRebuilds
  PROVE  Spec => DeliversAtLeastOnce
<1>1. Init => Delivery!Init
  BY DEF Init, Delivery!Init, Committed, Owed, Registered
<1>2. IInv /\ IInv' /\ [Next]_vars => [Delivery!Next]_(Delivery!vars)
  BY StepRefines
<1>3. Init => IInv
  BY InitSound
<1>4. IInv /\ [Next]_vars => IInv'
  BY StepSound
<1>5. QED
  BY <1>1, <1>2, <1>3, <1>4, PTL DEF Spec, DeliversAtLeastOnce, Delivery!Spec

\* What the contract gives a consumer: a change that happened and is not in its
\* derived state is still owed to it, after any deliveries, accounts and rebuilds.
LEMMA ContractLosesNothing == Delivery!Spec => []Delivery!NothingLost
<1>1. Delivery!Init => Delivery!NothingLost
  BY DEF Delivery!Init, Delivery!NothingLost
<1>2. Delivery!NothingLost /\ [Delivery!Next]_(Delivery!vars) => Delivery!NothingLost'
  <2> SUFFICES ASSUME Delivery!NothingLost, [Delivery!Next]_(Delivery!vars)
               PROVE  Delivery!NothingLost'
    OBVIOUS
  <2>1. ASSUME NEW x \in Xids, Delivery!Happen(x) PROVE Delivery!NothingLost'
    BY <2>1 DEF Delivery!NothingLost, Delivery!Happen
  <2>2. ASSUME NEW some \in SUBSET Committed(tx), Delivery!Deliver(some) \/ Delivery!Account(some)
        PROVE  Delivery!NothingLost'
    BY <2>2 DEF Delivery!NothingLost, Delivery!Deliver, Delivery!Account
  <2>3. CASE UNCHANGED Delivery!vars
    BY <2>3 DEF Delivery!NothingLost, Delivery!vars
  <2>4. QED
    BY <2>1, <2>2, <2>3 DEF Delivery!Next
<1>3. QED
  BY <1>1, <1>2, PTL DEF Delivery!Spec

\* The journal loses nothing: a committed change that the plugin's derived state
\* lacks will still be given to it, through the journal or a rebuild.
THEOREM JournalLosesNothing ==
  ASSUME ~LateRebuilds
  PROVE  Spec => []Delivery!NothingLost
BY JournalDelivers, ContractLosesNothing, PTL DEF DeliversAtLeastOnce
====
