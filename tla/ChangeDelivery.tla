---------------------------- MODULE ChangeDelivery ----------------------------
(***************************************************************************)
(* What the change journal promises to one consumer: a committed change    *)
(* stays owed to the consumer until its derived state reflects it.  A      *)
(* change may be delivered more than once (at least once), and everything  *)
(* may become owed again (a rebuild from the source).                      *)
(***************************************************************************)
CONSTANT Changes

VARIABLES committed,    \* the changes that happened
          applied,      \* the changes the consumer's derived state reflects
          owed          \* the changes the consumer will still be given

vars == <<committed, applied, owed>>

TypeOK ==
  /\ committed \subseteq Changes
  /\ applied \subseteq committed
  /\ owed \subseteq committed

Init == committed = {} /\ applied = {} /\ owed = {}

Happen(x) ==
  /\ x \notin committed
  /\ committed' = committed \cup {x}
  /\ owed' = owed \cup {x}
  /\ UNCHANGED applied

Deliver(some) ==
  /\ some \subseteq committed
  /\ applied' = applied \cup some
  /\ UNCHANGED <<committed, owed>>

\* A new account of what is owed: only what is applied stops being owed, and
\* delivered changes may be owed again, in a rebuild all of them.
Account(next) ==
  /\ owed \ next \subseteq applied
  /\ owed' = next
  /\ UNCHANGED <<committed, applied>>

Next ==
  \/ \E x \in Changes : Happen(x)
  \/ \E some \in SUBSET committed : Deliver(some) \/ Account(some)

Spec == Init /\ [][Next]_vars

\* Every change that happened and is not reflected is still owed.
NothingLost == committed \ applied \subseteq owed
===============================================================================
