---------------------------- MODULE PublishedCache ----------------------------
(***************************************************************************)
(* What a live gateway keeps in memory of the published projection         *)
(* (apps/api-gateway/src/published-changes.ts and the caches it guards,    *)
(* loadSettings of server.ts the one shown).  The publisher NOTIFYs with   *)
(* the transaction that publishes; the gateway caches what it read only    *)
(* while its LISTEN is acknowledged.                                       *)
(***************************************************************************)
EXTENDS Naturals

CONSTANTS Readers,       \* requests that load the settings at the same time
          NoValue,       \* nothing read, nothing cached
          MaxPublishes,  \* bound: publishes of new settings
          MaxDrops       \* bound: dropped LISTEN connections

ASSUME CacheAssumption == MaxPublishes \in Nat /\ MaxDrops \in Nat /\ NoValue \notin Nat

VARIABLES served,    \* the version of the settings in the public database
          listen,    \* the LISTEN connection: does it stand, is a notification under way
          gateway,   \* the gateway's `subscribed` flag and its cache
          read,      \* the reads under way
          drops

vars == <<served, listen, gateway, read, drops>>

Versions == 0..MaxPublishes

NoRead == [pc |-> "idle", current |-> FALSE, value |-> NoValue]

TypeOK ==
  /\ served \in Versions
  /\ listen \in [up : BOOLEAN, notice : BOOLEAN]
  /\ gateway \in [subscribed : BOOLEAN, cache : Versions \cup {NoValue}]
  /\ read \in [Readers -> [pc : {"idle", "begun", "answered"}, current : BOOLEAN,
                           value : Versions \cup {NoValue}]]
  /\ \A r \in Readers : read[r].pc = "answered" <=> read[r].value # NoValue
  /\ listen.notice => listen.up
  /\ drops \in 0..MaxDrops

\* The gateway boots: its LISTEN is under way.
Init ==
  /\ served = 0
  /\ listen = [up |-> FALSE, notice |-> FALSE]
  /\ gateway = [subscribed |-> FALSE, cache |-> NoValue]
  /\ read = [r \in Readers |-> NoRead]
  /\ drops = 0

\* writeSnapshot and markPublished: the notification is sent with the
\* publishing transaction's commit, to whoever listens then.
Publish ==
  /\ served < MaxPublishes
  /\ served' = served + 1
  /\ listen' = [listen EXCEPT !.notice = @ \/ listen.up]
  /\ UNCHANGED <<gateway, read, drops>>

\* invalidateAll: the generation moves, so no read under way is cached.
InvalidateAll(subscribed) ==
  /\ gateway' = [subscribed |-> subscribed, cache |-> NoValue]
  /\ read' = [r \in Readers |-> [read[r] EXCEPT !.current = FALSE]]

-------------------------------------------------------------------------------
(* loadSettings *)

StartRead(r) ==
  /\ read[r].pc = "idle"
  /\ ~(gateway.subscribed /\ gateway.cache # NoValue)
  /\ read' = [read EXCEPT ![r] = [pc |-> "begun", current |-> TRUE, value |-> NoValue]]
  /\ UNCHANGED <<served, listen, gateway, drops>>

ReadAnswers(r) ==
  /\ read[r].pc = "begun"
  /\ read' = [read EXCEPT ![r].pc = "answered", ![r].value = served]
  /\ UNCHANGED <<served, listen, gateway, drops>>

\* Mutant of MayCacheRead: the generation is not compared.
MayCacheReadAlways(r) == gateway.subscribed

MayCacheRead(r) == gateway.subscribed /\ read[r].current

FinishRead(r) ==
  /\ read[r].pc = "answered"
  /\ gateway' = IF MayCacheRead(r) THEN [gateway EXCEPT !.cache = read[r].value] ELSE gateway
  /\ read' = [read EXCEPT ![r] = NoRead]
  /\ UNCHANGED <<served, listen, drops>>

-------------------------------------------------------------------------------
(* listenForPublishedChanges *)

\* onNotify.
NoticeArrives ==
  /\ listen.up /\ listen.notice /\ gateway.subscribed
  /\ listen' = [listen EXCEPT !.notice = FALSE]
  /\ InvalidateAll(TRUE)
  /\ UNCHANGED <<served, drops>>

\* Mutant of ListenDrops: the notification under way survives the connection.
ListenDropsKeeps ==
  /\ listen.up
  /\ drops < MaxDrops
  /\ drops' = drops + 1
  /\ listen' = [listen EXCEPT !.up = FALSE]
  /\ UNCHANGED <<served, gateway, read>>

\* The connection drops; what was under way to it is lost.
ListenDrops ==
  /\ listen.up
  /\ drops < MaxDrops
  /\ drops' = drops + 1
  /\ listen' = [up |-> FALSE, notice |-> FALSE]
  /\ UNCHANGED <<served, gateway, read>>

\* Mutant of LossNoticed: the loss is not reported.
LossUnnoticed ==
  /\ FALSE
  /\ UNCHANGED vars

\* onLost.
LossNoticed ==
  /\ ~listen.up /\ gateway.subscribed
  /\ InvalidateAll(FALSE)
  /\ UNCHANGED <<served, listen, drops>>

\* The database has the LISTEN again; its acknowledgement is under way.
Relisten ==
  /\ ~listen.up /\ ~gateway.subscribed
  /\ listen' = [up |-> TRUE, notice |-> FALSE]
  /\ UNCHANGED <<served, gateway, read, drops>>

\* onListen.
Acknowledged ==
  /\ listen.up /\ ~gateway.subscribed
  /\ InvalidateAll(TRUE)
  /\ UNCHANGED <<served, listen, drops>>

-------------------------------------------------------------------------------

Next ==
  \/ Publish
  \/ \E r \in Readers : StartRead(r) \/ ReadAnswers(r) \/ FinishRead(r)
  \/ NoticeArrives \/ ListenDrops \/ LossNoticed \/ Relisten \/ Acknowledged

Spec == Init /\ [][Next]_vars

\* The connection delivers or its loss is noticed, and it is opened again.
Fairness == WF_vars(NoticeArrives) /\ WF_vars(LossNoticed) /\ WF_vars(Relisten)
              /\ WF_vars(Acknowledged)

FairSpec == Spec /\ Fairness

-------------------------------------------------------------------------------

\* While the subscription stands and no notification is under way, what the
\* gateway serves from memory is what the public database holds
\* (published-changes.ts: a read that began before a notification, a lost
\* connection or a new acknowledgement is never cached after it).
CacheFresh ==
  gateway.subscribed /\ listen.up /\ ~listen.notice /\ gateway.cache # NoValue
    => gateway.cache = served

\* A settings version the gateway serves from memory after a newer one was
\* published is dropped in the end, also when the notification was lost with
\* its connection (server.ts: a rotation takes effect with no TTL to wait out).
StaleIsDropped ==
  \A v \in Versions : (gateway.cache = v /\ served # v) ~> (gateway.cache # v)

===============================================================================
