------------------------- MODULE PublishedCacheProofs -------------------------
(***************************************************************************)
(* Proofs about PublishedCache.tla, for any number of concurrent reads,    *)
(* publishes and dropped connections.                                      *)
(***************************************************************************)
EXTENDS PublishedCache, TLAPS

\* What makes CacheFresh inductive: a read that may still be cached was
\* answered from the version that is served, unless a notification that will
\* invalidate it is under way (publishedCacheGeneration).
ReadsFresh ==
  gateway.subscribed /\ listen.up /\ ~listen.notice
    => \A r \in Readers : read[r].current /\ read[r].pc = "answered" => read[r].value = served

\* A finished read is idle and of a read's type (loadSettings).
LEMMA NoReadType ==
  /\ NoRead.pc = "idle" /\ NoRead.current = FALSE /\ NoRead.value = NoValue
  /\ NoRead \in [pc : {"idle", "begun", "answered"}, current : BOOLEAN,
                 value : Versions \cup {NoValue}]
  BY DEF NoRead

\* No version of the settings is the empty cache (loadSettings).
LEMMA VersionsNat == Versions \subseteq Nat /\ NoValue \notin Versions
  BY CacheAssumption DEF Versions

\* The variables keep their types (published-changes.ts, loadSettings): a
\* notification is under way only on a connection that stands.
THEOREM CacheTypeCorrect == Spec => []TypeOK
<1>1. Init => TypeOK
  BY CacheAssumption, NoReadType DEF Init, TypeOK, Versions
<1>2. TypeOK /\ [Next]_vars => TypeOK'
  <2> SUFFICES ASSUME TypeOK, [Next]_vars PROVE TypeOK'
    OBVIOUS
  <2> USE DEF TypeOK
  <2>1. CASE Publish
    BY <2>1, CacheAssumption DEF Publish, Versions
  <2>2. ASSUME NEW r \in Readers, StartRead(r) PROVE TypeOK'
    BY <2>2, VersionsNat DEF StartRead
  <2>3. ASSUME NEW r \in Readers, ReadAnswers(r) PROVE TypeOK'
    BY <2>3, VersionsNat DEF ReadAnswers
  <2>4. ASSUME NEW r \in Readers, FinishRead(r) PROVE TypeOK'
    <3>1. gateway' \in [subscribed : BOOLEAN, cache : Versions \cup {NoValue}]
      BY <2>4 DEF FinishRead
    <3>2. QED
      BY <2>4, <3>1, NoReadType DEF FinishRead
  <2>5. CASE NoticeArrives
    BY <2>5 DEF NoticeArrives, InvalidateAll
  <2>6. CASE ListenDrops
    BY <2>6, CacheAssumption DEF ListenDrops
  <2>7. CASE LossNoticed
    BY <2>7 DEF LossNoticed, InvalidateAll
  <2>8. CASE Relisten
    BY <2>8 DEF Relisten
  <2>9. CASE Acknowledged
    BY <2>9 DEF Acknowledged, InvalidateAll
  <2>10. CASE UNCHANGED vars
    BY <2>10 DEF vars
  <2>11. QED
    BY <2>1, <2>2, <2>3, <2>4, <2>5, <2>6, <2>7, <2>8, <2>9, <2>10 DEF Next
<1>3. QED
  BY <1>1, <1>2, PTL DEF Spec

\* What the gateway serves from memory is what the public database holds,
\* while its subscription stands and no notification is under way: neither a
\* read that began before a publish nor one that spans a reconnect is cached
\* after it (mayCacheRead, invalidateAll).
THEOREM CacheIsFresh == Spec => []CacheFresh
<1>1. Init => CacheFresh /\ ReadsFresh
  BY DEF Init, CacheFresh, ReadsFresh
<1>2. TypeOK /\ CacheFresh /\ ReadsFresh /\ [Next]_vars => CacheFresh' /\ ReadsFresh'
  <2> SUFFICES ASSUME TypeOK, CacheFresh, ReadsFresh, [Next]_vars
               PROVE  CacheFresh' /\ ReadsFresh'
    OBVIOUS
  <2> USE DEF TypeOK, CacheFresh, ReadsFresh
  <2>1. CASE Publish
    BY <2>1 DEF Publish
  <2>2. ASSUME NEW r \in Readers, StartRead(r) PROVE CacheFresh' /\ ReadsFresh'
    BY <2>2 DEF StartRead
  <2>3. ASSUME NEW r \in Readers, ReadAnswers(r) PROVE CacheFresh' /\ ReadsFresh'
    BY <2>3 DEF ReadAnswers
  <2>4. ASSUME NEW r \in Readers, FinishRead(r) PROVE CacheFresh' /\ ReadsFresh'
    <3>1. gateway'.subscribed = gateway.subscribed
      BY <2>4 DEF FinishRead
    <3>2. gateway'.cache = gateway.cache \/ (read[r].current /\ gateway'.cache = read[r].value)
      BY <2>4 DEF FinishRead, MayCacheRead
    <3>3. QED
      BY <2>4, <3>1, <3>2, NoReadType DEF FinishRead
  <2>5. CASE NoticeArrives
    BY <2>5 DEF NoticeArrives, InvalidateAll
  <2>6. CASE ListenDrops
    BY <2>6 DEF ListenDrops
  <2>7. CASE LossNoticed
    BY <2>7 DEF LossNoticed, InvalidateAll
  <2>8. CASE Relisten
    BY <2>8 DEF Relisten
  <2>9. CASE Acknowledged
    BY <2>9 DEF Acknowledged, InvalidateAll
  <2>10. CASE UNCHANGED vars
    BY <2>10 DEF vars
  <2>11. QED
    BY <2>1, <2>2, <2>3, <2>4, <2>5, <2>6, <2>7, <2>8, <2>9, <2>10 DEF Next
<1>3. QED
  BY <1>1, <1>2, CacheTypeCorrect, PTL DEF Spec
===============================================================================
