--------------------------- MODULE JournalSnapshots ---------------------------
(***************************************************************************)
(* Transaction ids and snapshots of the database, as the change journal    *)
(* (packages/query-api/src/change-journal.ts) reads them.  A transaction   *)
(* of the model writes one journal row, identified by the transaction's    *)
(* id; the consumer's and the collector's own transactions are left out of *)
(* the numbering.                                                          *)
(***************************************************************************)
EXTENDS Naturals, FiniteSets, FiniteSetsExt

CONSTANTS MaxXid,     \* bound: transactions that write the journal
          NoSnapshot  \* SQL null

ASSUME XidAssumption == MaxXid \in Nat /\ MaxXid > 0

Xids == 1..MaxXid

TxStates == {"none", "open", "committed", "aborted"}

\* pg_snapshot: every id below xmax has ended, but the ones in xip.
Snapshots == [xmax : 1..(MaxXid + 1), xip : SUBSET Xids]

\* SQL null is not a snapshot.
ASSUME NullAssumption == NoSnapshot \notin Snapshots

Ended(tx) == {x \in Xids : tx[x] \in {"committed", "aborted"}}

Committed(tx) == {x \in Xids : tx[x] = "committed"}

\* pg_current_snapshot()
CurrentSnapshot(tx) ==
  LET last == Max(Ended(tx) \cup {0})
  IN  [xmax |-> last + 1, xip |-> {x \in Xids : x < last /\ tx[x] = "open"}]

\* pg_snapshot_xmin
Xmin(s) == Min(s.xip \cup {s.xmax})

\* pg_visible_in_snapshot
Visible(x, s) == x < s.xmax /\ x \notin s.xip

\* Ids are assigned in order, at a transaction's first write.
Start(tx, x) == tx[x] = "none" /\ \A y \in Xids : y < x => tx[y] # "none"

\* The first n of a set of rows, by id.
FirstRows(rows, n) == {x \in rows : Cardinality({y \in rows : y <= x}) <= n}
===============================================================================
