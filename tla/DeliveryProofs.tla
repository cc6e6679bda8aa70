--------------------------- MODULE DeliveryProofs ---------------------------
(***************************************************************************)
(* Proofs about what a marked block leaves behind, in the stream and in    *)
(* the cache: for every chain, any number of workers with blocks in any    *)
(* order, and whatever fails, restarts or is replaced.                     *)
(***************************************************************************)
EXTENDS CacheProofs

(***************************************************************************)
(* Workers, whatever the record of each is to satisfy.                     *)
(***************************************************************************)
\* Worker w goes on to its next item.
LEMMA NextItemRecord ==
  ASSUME WorkInv, NEW w \in Worker, NextItem(w)
  PROVE  /\ \A u \in Worker \ {w} : task'[u] = task[u]
         /\ task'[w].pc = "filter" /\ task'[w].n = task[w].n + 1 /\ task[w].n \in Nat
         /\ task'[w].block = task[w].block /\ task'[w].ver = task[w].ver
         /\ task'[w].seen = task[w].seen
  BY DEF NextItem, WorkInv, TaskRecord

\* Worker w goes on with the same item.
LEMMA SameItemRecord ==
  ASSUME WorkInv, NEW w \in Worker, NEW pc, task' = [task EXCEPT ![w].pc = pc]
  PROVE  /\ \A u \in Worker \ {w} : task'[u] = task[u]
         /\ task'[w].pc = pc /\ task'[w].n = task[w].n /\ task[w].n \in Nat
         /\ task'[w].block = task[w].block /\ task'[w].ver = task[w].ver
         /\ task'[w].seen = task[w].seen
  BY DEF WorkInv, TaskRecord

LEMMA GiveUpRecord ==
  ASSUME WorkInv, NEW w \in Worker, GiveUp(w)
  PROVE  (\A u \in Worker \ {w} : task'[u] = task[u]) /\ task'[w].pc = "idle"
  BY DEF GiveUp, NoTask, WorkInv

LEMMA BeginRecord ==
  ASSUME WorkInv, NEW w \in Worker, Begin(w)
  PROVE  /\ \A u \in Worker \ {w} : task'[u] = task[u]
         /\ task'[w].pc = "filter" /\ task'[w].n = 1 /\ task'[w].seen = done
         /\ AtWork(task'[w])
<1>1. PICK b \in floor..head : task' = [task EXCEPT ![w] = TaskOf(b)]
  BY DEF Begin
<1>2. b \in Block /\ canon[b] \in 1..Len(Chain[b])
  BY <1>1, PipelineAssumption DEF Begin, WorkInv, Block
<1>3. (\A u \in Worker \ {w} : task'[u] = task[u]) /\ task'[w] = TaskOf(b)
  BY <1>1 DEF WorkInv
<1> QED
  BY <1>2, <1>3 DEF TaskOf, AtWork

\* The places of the items of a version are numbers from 1 on.
LEMMA PlacesOfItems ==
  ASSUME NEW b \in Block, NEW v \in 1..Len(Chain[b])
  PROVE  \A i \in DOMAIN Items[b][v] : i \in Nat /\ i >= 1 /\ \A j \in 1..i : j \in DOMAIN Items[b][v]
<1>1. Items[b][v] \in Seq(ItemType)
  BY ItemsTyped
<1> QED
  BY <1>1

(***************************************************************************)
(* Events.                                                                 *)
(***************************************************************************)
\* What is sure to be cached when a worker comes to an item is cached.
LEMMA SureIsCached ==
  ASSUME WorkInv, TypeOK, CacheInv, NEW w \in Worker, task[w].pc # "idle",
         task[w].n \in DOMAIN TaskItems(w)
  PROVE  Sure(task[w].seen, TaskItems(w), task[w].n) \subseteq cache
<1> DEFINE marked == task[w].seen
           items  == TaskItems(w)
           n      == task[w].n
           Earlier == {p \in LastingAdditions : \E j \in 1..(n - 1) : Adds(items[j], p)}
<1>1. boot.stage = "up" /\ IndexedAddressesCached
  BY CacheInvHolds DEF CacheInv, PassedNoted, Passed
<1>2. marked \subseteq done
  BY DEF TypeOK
<1>3. AddedAnyway(marked) \subseteq AddedAnyway(done)
  BY <1>2 DEF AddedAnyway
<1>4. ASSUME NEW p \in Earlier
      PROVE  p[2] \in cache
  <2>1. PICK j \in 1..(n - 1) : Adds(items[j], p)
    OBVIOUS
  <2>2. n \in Nat /\ j \in DOMAIN items /\ j < n
    BY PlacesOfItems DEF WorkInv, AtWork, TaskRecord, TaskItems
  <2>3. Noted(items[j])
    BY <2>2 DEF CacheInv, PassedNoted, Passed, TaskItems
  <2>4. p \in (ToSet(IndexOrder) \cap Kept) \X Kept
    BY DEF LastingAdditions
  <2> QED
    BY <2>1, <2>3, <2>4 DEF Noted
<1>5. Sure(marked, items, n)
        = Kept \cap (Bootstrapped(LastingMembers) \union {m[2] : m \in AddedAnyway(marked)}
                       \union {m[2] : m \in Earlier})
  BY DEF Sure
<1> HIDE DEF marked, items, n, Earlier
<1>6. ASSUME NEW a \in Kept,
             a \in Bootstrapped(LastingMembers) \/ \E m \in AddedAnyway(marked) : a = m[2]
      PROVE  a \in cache
  <2>1. a \in Bootstrapped(LastingMembers) \/ a \in {m[2] : m \in AddedAnyway(done)}
    BY <1>3, <1>6
  <2> QED
    BY <1>1, <2>1 DEF IndexedAddressesCached
<1>7. ASSUME NEW a, a \in {m[2] : m \in Earlier}
      PROVE  a \in cache
  BY <1>4, <1>7
<1>8. Sure(marked, items, n) \subseteq cache
  <2>1. SUFFICES ASSUME NEW a \in Sure(marked, items, n) PROVE a \in cache
    OBVIOUS
  <2>2. a \in Kept
    BY <1>5, <2>1
  <2>3. \/ a \in Bootstrapped(LastingMembers)
        \/ a \in {m[2] : m \in AddedAnyway(marked)}
        \/ a \in {m[2] : m \in Earlier}
    BY <1>5, <2>1
  <2> QED
    BY <1>6, <1>7, <2>2, <2>3
<1> QED
  BY <1>8 DEF marked, items, n

\* A message stays in the stream.
LEMMA StreamGrows ==
  ASSUME WorkInv, StreamInv, [Next]_vars
  PROVE  BagToSet(stored) \subseteq BagToSet(stored')
<1>1. CASE UNCHANGED <<stored, recent, acked>>
  BY <1>1
<1>2. CASE WindowPasses
  BY <1>2 DEF WindowPasses, Expire
<1>3. ASSUME NEW w \in Worker, Publish(w) \/ PublishUnacked(w)
      PROVE  BagToSet(stored) \subseteq BagToSet(stored')
  <2>1. Receive(EventOf(Item(w))) /\ EventOf(Item(w)) \in Event
    BY <1>3, ItemIsEvent DEF Publish, PublishUnacked
  <2> QED
    BY <2>1, ReceiveKeeps
<1> QED
  BY <1>1, <1>2, <1>3, StreamSteps

\* A worker's step: its record is replaced by one whose passed items are
\* delivered.
LEMMA DeliveredStep ==
  ASSUME PassedDelivered, BagToSet(stored) \subseteq BagToSet(stored'),
         NEW w \in Worker, \A u \in Worker \ {w} : task'[u] = task[u], DeliveredSoFar(task[w])'
  PROVE  PassedDelivered'
<1>1. \A marked, items, n : Delivered(marked, items, n) => Delivered(marked, items, n)'
  BY DEF Delivered
<1>2. ASSUME NEW u \in Worker, u # w PROVE DeliveredSoFar(task[u])'
  BY <1>1, <1>2 DEF PassedDelivered, DeliveredSoFar
<1> QED
  BY <1>2 DEF PassedDelivered

LEMMA NextItemDelivers ==
  ASSUME WorkInv, PassedDelivered, BagToSet(stored) \subseteq BagToSet(stored'),
         NEW w \in Worker, task[w].pc # "idle", NextItem(w),
         NEW marked, NEW items, NEW n, marked = task[w].seen, items = TaskItems(w), n = task[w].n,
         Delivered(marked, items, n)'
  PROVE  PassedDelivered'
<1>1. /\ \A u \in Worker \ {w} : task'[u] = task[u]
      /\ task'[w].n = n + 1 /\ task'[w].seen = marked
      /\ Items[task'[w].block][task'[w].ver] = items
  BY NextItemRecord DEF TaskItems
<1>2. \A i : Delivered(marked, items, i) => Delivered(marked, items, i)'
  BY DEF Delivered
<1>3. ASSUME NEW i \in DOMAIN items, i < n + 1
      PROVE  Delivered(marked, items, i)'
  <2>1. i \in Nat /\ n \in Nat
    BY PlacesOfItems DEF WorkInv, TaskRecord, AtWork, TaskItems
  <2>2. CASE i < n
    BY <1>2, <2>2 DEF PassedDelivered, DeliveredSoFar, TaskItems
  <2> QED
    BY <1>3, <2>1, <2>2
<1>4. DeliveredSoFar(task[w])'
  BY <1>1, <1>3 DEF DeliveredSoFar
<1> QED
  BY <1>1, <1>4, DeliveredStep

\* An item that must bring forth its event is neither filtered nor ignored.
LEMMA PassedOver ==
  ASSUME WorkInv, TypeOK, CacheInv, PassedDelivered, UNCHANGED stored, NEW w \in Worker,
         NextItem(w), (Filter(w) /\ ~Exists(Item(w).who)) \/ Ignore(w)
  PROVE  PassedDelivered'
<1> DEFINE marked == task[w].seen
           items  == TaskItems(w)
           n      == task[w].n
           sure   == Sure(marked, items, n)
<1>1. task[w].pc # "idle" /\ n \in DOMAIN items
  BY DEF Filter, Ignore, AtItem
<1>2. sure \subseteq cache
  BY <1>1, SureIsCached
<1>3. ~Accepted(sure, items[n])
  BY <1>2 DEF Filter, Ignore, Exists, ExistsNetwork, Accepted, Item
<1> HIDE DEF marked, items, n
<1>4. ASSUME NEW m, NEW s, NEW k, m = marked, s = items, k = n
      PROVE  Delivered(m, s, k)'
  BY <1>3, <1>4 DEF Delivered
<1> QED
  BY <1>1, <1>4, NextItemDelivers DEF marked, items, n

LEMMA PublishDelivers ==
  ASSUME WorkInv, StreamInv, PassedDelivered, NEW w \in Worker, Publish(w)
  PROVE  PassedDelivered'
<1> DEFINE items == TaskItems(w)
           n     == task[w].n
           e     == EventOf(items[n])
<1>1. task[w].pc # "idle" /\ NextItem(w)
  BY DEF Publish, AtItem
<1>2. e \in Event /\ Receive(e)
  BY ItemIsEvent DEF Publish, Item
<1>3. BagToSet(stored) \subseteq BagToSet(stored')
  BY <1>2, ReceiveKeeps
<1>4. Alone(e) => e \in BagToSet(stored')
  BY <1>2, ReceivedIsStored
<1> HIDE DEF items, n
<1>5. ASSUME NEW m, NEW s, NEW k, s = items, k = n
      PROVE  Delivered(m, s, k)'
  BY <1>4, <1>5 DEF Delivered
<1> QED
  BY <1>1, <1>3, <1>5, NextItemDelivers DEF items, n

LEMMA DeliveredNext ==
  ASSUME WorkInv, StreamInv, TypeOK, CacheInv, PassedDelivered, [Next]_vars
  PROVE  PassedDelivered'
<1>1. BagToSet(stored) \subseteq BagToSet(stored')
  BY StreamGrows
<1>2. CASE UNCHANGED task
  <2>1. \A marked, items, n : Delivered(marked, items, n) => Delivered(marked, items, n)'
    BY <1>1 DEF Delivered
  <2> QED
    BY <1>2, <2>1 DEF PassedDelivered, DeliveredSoFar
<1>3. CASE Restart
  BY <1>3 DEF Restart, NoTask, PassedDelivered, DeliveredSoFar
<1>4. ASSUME NEW w \in Worker, Begin(w)
      PROVE  PassedDelivered'
  <2>1. \A i \in DOMAIN Items[task'[w].block][task'[w].ver] : ~(i < task'[w].n)
    BY <1>4, BeginRecord, PlacesOfItems DEF AtWork
  <2>2. DeliveredSoFar(task[w])'
    BY <2>1 DEF DeliveredSoFar
  <2> QED
    BY <1>1, <1>4, <2>2, BeginRecord, DeliveredStep
<1>5. ASSUME NEW w \in Worker, GiveUp(w)
      PROVE  PassedDelivered'
  <2>1. DeliveredSoFar(task[w])'
    BY <1>5, GiveUpRecord DEF DeliveredSoFar
  <2> QED
    BY <1>1, <1>5, <2>1, GiveUpRecord, DeliveredStep
<1>6. ASSUME NEW w \in Worker, NEW pc, task[w].pc # "idle", task' = [task EXCEPT ![w].pc = pc]
      PROVE  PassedDelivered'
  <2>1. \A marked, items, n : Delivered(marked, items, n) => Delivered(marked, items, n)'
    BY <1>1 DEF Delivered
  <2>2. DeliveredSoFar(task[w])'
    BY <1>6, <2>1, SameItemRecord DEF PassedDelivered, DeliveredSoFar
  <2> QED
    BY <1>1, <1>6, <2>2, SameItemRecord, DeliveredStep
<1>7. ASSUME NEW w \in Worker, Filter(w) \/ Ignore(w) \/ Accept(w) \/ Publish(w)
      PROVE  PassedDelivered'
  <2>1. CASE Filter(w) /\ Exists(Item(w).who)
    BY <1>6, <2>1 DEF Filter, AtItem
  <2>2. CASE (Filter(w) /\ ~Exists(Item(w).who)) \/ Ignore(w)
    BY <2>2, PassedOver DEF Filter, Ignore, natsVars
  <2>3. CASE Accept(w)
    BY <1>6, <2>3 DEF Accept, AtItem
  <2>4. CASE Publish(w)
    BY <2>4, PublishDelivers
  <2> QED
    BY <1>7, <2>1, <2>2, <2>3, <2>4
<1>8. \/ UNCHANGED task
      \/ Restart
      \/ \E w \in Worker : \/ Begin(w) \/ GiveUp(w)
                           \/ Filter(w) \/ Ignore(w) \/ Accept(w) \/ Publish(w)
  BY DEF Next, vars, Mine, Reorg, BootRegistry, BootIndex, BootLists, BootBounds, WindowPasses,
         DecodeError, PublishUnacked, Fail, Finish
<1> QED
  BY <1>2, <1>3, <1>4, <1>5, <1>7, <1>8

\* A block is marked by a worker that has passed all its items.
LEMMA MarkedIsPassed ==
  ASSUME WorkInv, [Next]_vars, NEW b \in done' \ done
  PROVE  \E w \in Worker : /\ Finish(w) /\ task[w].pc # "idle" /\ task[w].block = b
                           /\ \A n \in DOMAIN TaskItems(w) : n < task[w].n
<1>1. PICK w \in Worker : Finish(w)
  BY DEF Next, vars, Mine, Reorg, BootRegistry, BootIndex, BootLists, BootBounds, Restart,
         WindowPasses, Begin, Filter, Ignore, DecodeError, Accept, Publish, PublishUnacked, Fail
<1>2. task[w].pc # "idle" /\ task[w].block = b /\ task[w].n \notin DOMAIN TaskItems(w)
  BY <1>1 DEF Finish
<1>3. TaskItems(w) \in Seq(ItemType) /\ task[w].n \in Nat \ {0}
  BY <1>2, ItemsTyped DEF WorkInv, AtWork, TaskRecord, TaskItems
<1> QED
  BY <1>1, <1>2, <1>3

\* When a block is marked, the stream has every event that its version must
\* bring forth.
THEOREM MarkedIsDelivered == Spec => SureEventsDelivered
<1> DEFINE Step == \A b \in done' \ done : \E w \in Worker :
                     /\ task[w].block = b
                     /\ \A n \in DOMAIN TaskItems(w) : Delivered(task[w].seen, TaskItems(w), n)
<1>1. Init => CacheInv /\ ReachInv /\ PassedDelivered
  BY CacheInit, ReachInit DEF Init, NoTask, PassedDelivered, DeliveredSoFar
<1>2. WorkInv /\ TypeOK /\ ReachInv /\ CacheInv /\ [Next]_vars => CacheInv' /\ ReachInv'
  BY CacheNext, ReachNext
<1>3. WorkInv /\ StreamInv /\ TypeOK /\ CacheInv /\ PassedDelivered /\ [Next]_vars => PassedDelivered'
  BY DeliveredNext
<1>4. WorkInv /\ PassedDelivered /\ [Next]_vars => [Step]_vars
  BY MarkedIsPassed DEF PassedDelivered, DeliveredSoFar, TaskItems
<1>5. Init => WorkInv /\ StreamInv
  BY WorkInit, StreamInit
<1>6. WorkInv /\ StreamInv /\ [Next]_vars => WorkInv' /\ StreamInv'
  BY WorkNext, StreamNext
<1>7. Spec => []TypeOK
  BY PipelineTypes
<1> QED
  BY <1>1, <1>2, <1>3, <1>4, <1>5, <1>6, <1>7, PTL DEF Spec, SureEventsDelivered

(***************************************************************************)
(* Removals.                                                               *)
(***************************************************************************)
\* Nothing that can come into the cache adds what an index removes for good.
LEMMA FinalIsNotAdded ==
  ASSUME NEW m \in FinalMembers, NEW item \in ItemsIn(Block), item.who \in Reach,
         item.handler.effect = "add"
  PROVE  item.arg # m[2]
  BY DEF FinalMembers

LEMMA GoneStays ==
  ASSUME WorkInv, ReachInv, NEW m \in FinalMembers, m[2] \notin cache,
         UNCHANGED cache \/ \E w \in Worker : Accept(w)
  PROVE  m[2] \notin cache'
<1>1. ASSUME NEW w \in Worker, Accept(w)
      PROVE  m[2] \notin cache'
  <2>1. Item(w) \in ItemsIn(Block) /\ Item(w).who \in Reach
    BY <1>1, ItemIsEvent DEF Accept, AtItem, ReachInv
  <2>2. Item(w).handler.effect = "add" => Item(w).arg # m[2]
    BY <2>1, FinalIsNotAdded
  <2> QED
    BY <1>1, <2>2 DEF Accept, AddAddress, RemoveAddress
<1> QED
  BY <1>1

\* An index that has removed it for good does not hold it when it is read, nor
\* does another one.
LEMMA FinalNotFound ==
  ASSUME WorkInv, done \subseteq 1..head, NEW m \in RemovedAnyway(done), NEW x \in ToSet(IndexOrder)
  PROVE  <<x, m[2]>> \notin MembersAt(head)
<1> DEFINE l == <<x, m[2]>>
<1>1. m \in FinalMembers /\ m \in ToSet(IndexOrder) \X Address
  BY DEF RemovedAnyway, FinalMembers
<1>2. PICK b \in done : \A v \in 1..Len(Chain[b]) : \E i \in ToSet(Items[b][v]) : Removes(i, m)
  BY DEF RemovedAnyway
<1>3. b \in 1..head /\ canon[b] \in 1..Len(Chain[b])
  BY PipelineAssumption DEF WorkInv, Block
<1>4. PICK n \in DOMAIN Items[b][canon[b]] : Removes(Items[b][canon[b]][n], m)
  BY <1>2, <1>3 DEF ToSet
<1>5. CASE l \in GenesisMembers
  <2>1. l = m
    BY <1>1, <1>5 DEF FinalMembers
  <2> DEFINE q == <<b, n>>
  <2>2. q \in Places(1, head) /\ Removes(ItemAt(q), l)
    BY <1>3, <1>4, <2>1 DEF Places, ItemAt
  <2>3. ASSUME NEW p \in Places(1, head), Adds(ItemAt(p), l) PROVE FALSE
    <3>1. ItemAt(p) \in ItemsIn(Block)
      BY PlacesAreItems
    <3> HIDE DEF ItemAt
    <3> QED
      BY <1>1, <2>1, <2>3, <3>1, IndexesReached, IndexHandlers, FinalIsNotAdded DEF Adds
  <2> HIDE DEF q, l
  <2> QED
    BY <2>2, <2>3 DEF MembersAt, l
<1>6. CASE l \notin GenesisMembers
  <2>1. ASSUME NEW p \in Places(1, head), Adds(ItemAt(p), l) PROVE FALSE
    <3>1. ItemAt(p) \in ItemsIn(Block)
      BY PlacesAreItems
    <3> HIDE DEF ItemAt
    <3> QED
      BY <1>1, <2>1, <3>1, IndexesReached, IndexHandlers, FinalIsNotAdded DEF Adds
  <2> QED
    BY <1>6, <2>1 DEF MembersAt
<1> QED
  BY <1>5, <1>6

\* A worker's step: its record is replaced by one whose passed removals have
\* left nothing in the cache.
LEMMA ErasedStep ==
  ASSUME WorkInv, ReachInv, PassedErased, UNCHANGED cache \/ \E u \in Worker : Accept(u),
         NEW w \in Worker, \A u \in Worker \ {w} : task'[u] = task[u], ErasedSoFar(task[w])'
  PROVE  PassedErased'
<1>1. \A item : Erased(item) => Erased(item)'
  BY GoneStays DEF Erased
<1>2. ASSUME NEW u \in Worker, u # w PROVE ErasedSoFar(task[u])'
  BY <1>1, <1>2 DEF PassedErased, ErasedSoFar
<1> QED
  BY <1>2 DEF PassedErased

LEMMA NextItemErased ==
  ASSUME WorkInv, ReachInv, PassedErased, UNCHANGED cache,
         NEW w \in Worker, task[w].pc # "idle", NextItem(w),
         NEW item, item = Item(w), Erased(item)
  PROVE  PassedErased'
<1> DEFINE items == TaskItems(w)
           n     == task[w].n
<1>1. /\ \A u \in Worker \ {w} : task'[u] = task[u]
      /\ task'[w].n = n + 1 /\ task'[w].pc = "filter"
      /\ Items[task'[w].block][task'[w].ver] = items
  BY NextItemRecord DEF TaskItems
<1>2. \A i : Erased(i) => Erased(i)'
  BY DEF Erased
<1>3. \A i \in DOMAIN items : i < n => Erased(items[i])
  BY DEF PassedErased, ErasedSoFar, TaskItems
<1>4. \A i \in DOMAIN items : i \in Nat /\ n \in Nat
  BY PlacesOfItems DEF WorkInv, TaskRecord, AtWork, TaskItems
<1>5. items[n] = item
  BY DEF Item
<1> HIDE DEF items, n
<1>6. ASSUME NEW s, s = items, NEW i \in DOMAIN s, i < n + 1
      PROVE  Erased(s[i])'
  <2>1. CASE i < n
    BY <1>2, <1>3, <1>6, <2>1
  <2>2. CASE i = n
    BY <1>2, <1>5, <1>6, <2>2
  <2> QED
    BY <1>4, <1>6, <2>1, <2>2
<1>7. ErasedSoFar(task[w])'
  BY <1>1, <1>6 DEF ErasedSoFar
<1> QED
  BY <1>1, <1>7, ErasedStep

\* A removal is looked at as long as its index is cached.
LEMMA RemovalsAccepted ==
  ASSUME NEW item, NEW m \in FinalMembers, Removes(item, m), ReadSoFar, boot.stage = "up"
  PROVE  /\ item.who \in cache
         /\ item.handler # Unrouted /\ item.handler.network = FALSE
         /\ item.handler.effect = "remove" /\ item.arg = m[2]
<1>1. m[1] \in Kept \cap Entries
  BY PipelineAssumption DEF FinalMembers, ToSet
<1>2. m[1] \in cache
  BY <1>1 DEF ReadSoFar
<1> QED
  BY <1>2, IndexHandlers DEF Removes

LEMMA ErasedNext ==
  ASSUME WorkInv, ReachInv, CacheInv, PassedErased, [Next]_vars
  PROVE  PassedErased'
<1>1. \A u \in Worker : task[u].pc # "idle" => boot.stage = "up"
  BY DEF CacheInv, PassedNoted, Passed
<1>2. CASE UNCHANGED <<cache, task>>
  BY <1>2 DEF PassedErased, ErasedSoFar, Erased
<1>3. CASE BootRegistry \/ BootIndex \/ BootLists
  <2>1. boot.stage # "up" /\ UNCHANGED task
    BY <1>3 DEF BootRegistry, BootIndex, BootLists
  <2> QED
    BY <1>1, <2>1 DEF PassedErased, ErasedSoFar
<1>4. CASE Restart
  BY <1>4 DEF Restart, NoTask, PassedErased, ErasedSoFar
<1>5. ASSUME NEW w \in Worker, Begin(w)
      PROVE  PassedErased'
  <2>1. \A i \in DOMAIN Items[task'[w].block][task'[w].ver] : ~(i < task'[w].n)
    BY <1>5, BeginRecord, PlacesOfItems DEF AtWork
  <2>2. ErasedSoFar(task[w])'
    BY <1>5, <2>1, BeginRecord DEF ErasedSoFar
  <2>3. UNCHANGED cache
    BY <1>5 DEF Begin
  <2> QED
    BY <1>5, <2>2, <2>3, BeginRecord, ErasedStep
<1>6. ASSUME NEW w \in Worker, GiveUp(w), UNCHANGED cache
      PROVE  PassedErased'
  <2>1. ErasedSoFar(task[w])'
    BY <1>6, GiveUpRecord DEF ErasedSoFar
  <2> QED
    BY <1>6, <2>1, GiveUpRecord, ErasedStep
<1>7. ASSUME NEW w \in Worker, Filter(w)
      PROVE  PassedErased'
  <2>1. UNCHANGED cache /\ task[w].pc = "filter" /\ boot.stage = "up"
    BY <1>1, <1>7 DEF Filter, AtItem
  <2>2. CASE Exists(Item(w).who)
    <3>1. task' = [task EXCEPT ![w].pc = "handle"]
      BY <1>7, <2>2 DEF Filter
    <3>2. \A item : Erased(item) => Erased(item)'
      BY <2>1 DEF Erased
    <3>3. ErasedSoFar(task[w])'
      BY <2>1, <3>1, <3>2, SameItemRecord DEF PassedErased, ErasedSoFar
    <3> QED
      BY <2>1, <3>1, <3>3, SameItemRecord, ErasedStep
  <2>3. CASE ~Exists(Item(w).who)
    <3> DEFINE item == Item(w)
    <3>1. NextItem(w) /\ item.who \notin cache
      BY <1>7, <2>3 DEF Filter, Exists
    <3> HIDE DEF item
    <3>2. Erased(item)
      BY <2>1, <3>1, RemovalsAccepted DEF Erased, CacheInv
    <3> QED
      BY <2>1, <3>1, <3>2, NextItemErased DEF item
  <2> QED
    BY <2>2, <2>3
<1>8. ASSUME NEW w \in Worker, Ignore(w)
      PROVE  PassedErased'
  <2> DEFINE item == Item(w)
  <2>1. /\ UNCHANGED cache /\ task[w].pc # "idle" /\ boot.stage = "up" /\ NextItem(w)
        /\ item.handler = Unrouted \/ item.handler.network
    BY <1>1, <1>8 DEF Ignore, AtItem
  <2> HIDE DEF item
  <2>2. Erased(item)
    BY <2>1, RemovalsAccepted DEF Erased, CacheInv
  <2> QED
    BY <2>1, <2>2, NextItemErased DEF item
<1>9. ASSUME NEW w \in Worker, Accept(w)
      PROVE  PassedErased'
  <2> DEFINE item == Item(w)
             items == TaskItems(w)
             n == task[w].n
  <2>1. /\ task[w].pc = "handle" /\ boot.stage = "up"
        /\ task' = [task EXCEPT ![w].pc = "publish"]
        /\ item.handler.effect = "remove" => item.arg \notin cache'
        /\ items[n] = item
    BY <1>1, <1>9 DEF Accept, AtItem, RemoveAddress, Item
  <2>2. \A i : Erased(i) => Erased(i)'
    BY <1>9, GoneStays DEF Erased
  <2>3. \A i \in DOMAIN items : i < n => Erased(items[i])
    BY <2>1 DEF PassedErased, ErasedSoFar, TaskItems
  <2>4. \A i \in DOMAIN items : i \in Nat /\ n \in Nat
    BY <2>1, PlacesOfItems DEF WorkInv, TaskRecord, AtWork, TaskItems
  <2>5. /\ \A u \in Worker \ {w} : task'[u] = task[u]
        /\ task'[w].n = n /\ Items[task'[w].block][task'[w].ver] = items
    BY <2>1, SameItemRecord DEF TaskItems
  <2> HIDE DEF item, items, n
  <2>6. ASSUME NEW i, i = item PROVE Erased(i)'
    BY <2>1, <2>6, RemovalsAccepted DEF Erased, CacheInv
  <2>7. ASSUME NEW s, s = items, NEW i \in DOMAIN s, i < n \/ i = n
        PROVE  Erased(s[i])'
    <3>1. CASE i < n
      BY <2>2, <2>3, <2>7, <3>1
    <3>2. CASE i = n
      BY <2>1, <2>6, <2>7, <3>2
    <3> QED
      BY <2>7, <3>1, <3>2
  <2>8. ErasedSoFar(task[w])'
    BY <2>5, <2>7 DEF ErasedSoFar
  <2> QED
    BY <1>9, <2>5, <2>8, ErasedStep
<1>10. ASSUME NEW w \in Worker, Publish(w)
       PROVE  PassedErased'
  <2>1. /\ UNCHANGED cache /\ task[w].pc = "publish" /\ NextItem(w)
        /\ task[w].n \in DOMAIN TaskItems(w)
    BY <1>10 DEF Publish, AtItem
  <2>2. Erased(Item(w))
    BY <2>1 DEF PassedErased, ErasedSoFar, TaskItems, Item
  <2> QED
    BY <2>1, <2>2, NextItemErased
<1>11. \/ UNCHANGED <<cache, task>>
       \/ BootRegistry \/ BootIndex \/ BootLists \/ Restart
       \/ \E w \in Worker : \/ Begin(w) \/ (GiveUp(w) /\ UNCHANGED cache)
                            \/ Filter(w) \/ Ignore(w) \/ Accept(w) \/ Publish(w)
  BY DEF Next, vars, Mine, Reorg, BootBounds, WindowPasses, DecodeError, PublishUnacked, Fail,
         Finish
<1> QED
  BY <1>2, <1>3, <1>4, <1>5, <1>6, <1>7, <1>8, <1>9, <1>10, <1>11

LEMMA GoneNext ==
  ASSUME WorkInv, TypeOK, ReachInv, PassedErased, RemovedAddressesGone, [Next]_vars
  PROVE  RemovedAddressesGone'
<1> USE CacheAssumption
<1>1. ASSUME \A m \in RemovedAnyway(done') : m[2] \notin cache'
      PROVE  RemovedAddressesGone'
  <2>1. RemovedAddressesGone' <=> cache' \cap {m[2] : m \in RemovedAnyway(done')} = {}
    BY DEF RemovedAddressesGone, RemovedAnyway
  <2> QED
    BY <1>1, <2>1
<1>2. \A m \in RemovedAnyway(done) : m[2] \notin cache /\ m \in FinalMembers
  BY DEF RemovedAddressesGone, RemovedAnyway
<1>3. \A m \in FinalMembers : /\ m[2] \notin Entries \union Watchlist
                              /\ \A p \in Address : m[2] \notin Parts[p]
  BY DEF FinalMembers
<1>4. CASE UNCHANGED done /\ (UNCHANGED cache \/ \E w \in Worker : Accept(w))
  BY <1>1, <1>2, <1>4, GoneStays
<1>5. CASE BootRegistry
  BY <1>1, <1>2, <1>3, <1>5 DEF BootRegistry, ReadRegistry
<1>6. CASE BootIndex
  <2> DEFINE index   == Head(boot.unread)
             members == MembersOf(index)
  <2>1. boot.unread # <<>> /\ ReadIndex(index, members) /\ UNCHANGED done
    BY <1>6 DEF BootIndex
  <2>2. index \in Entries /\ members \subseteq Address
    BY <2>1, MembersTyped DEF WorkInv
  <2>3. ASSUME NEW m \in RemovedAnyway(done) PROVE m[2] \notin members
    <3>1. ASSUME NEW l \in MembersAt(head), l[1] = index, l[2] = m[2] PROVE FALSE
      <4>1. l = <<index, m[2]>> /\ index \in ToSet(IndexOrder)
        BY <3>1 DEF MembersAt
      <4> QED
        BY <3>1, <4>1, FinalNotFound DEF TypeOK
    <3> QED
      BY <3>1 DEF MembersOf
  <2> HIDE DEF index, members
  <2>4. ASSUME NEW m \in RemovedAnyway(done) PROVE m[2] \notin cache'
    <3>1. m[2] \notin UNION {Parts[a] : a \in members \ {ZeroAddress}}
      BY <1>2, <1>3, <2>2
    <3>2. m[2] # index /\ m[2] \notin cache /\ m[2] \notin members
      BY <1>2, <1>3, <2>2, <2>3
    <3> QED
      BY <2>1, <3>1, <3>2 DEF ReadIndex
  <2> QED
    BY <1>1, <2>1, <2>4
<1>7. CASE BootLists
  BY <1>1, <1>2, <1>3, <1>7 DEF BootLists, ApplyLists
<1>8. CASE Restart
  BY <1>1, <1>8 DEF Restart
<1>9. ASSUME NEW w \in Worker, Finish(w)
      PROVE  RemovedAddressesGone'
  <2>1. UNCHANGED cache /\ task[w].pc # "idle" /\ done' = done \union {task[w].block}
    BY <1>9 DEF Finish
  <2>2. ASSUME NEW m \in RemovedAnyway(done'), m \notin RemovedAnyway(done)
        PROVE  m[2] \notin cache
    <3>1. m \in FinalMembers
      BY DEF RemovedAnyway
    <3>2. task[w].block \in done' \ done
      BY <2>1, <2>2 DEF RemovedAnyway
    <3>3. \A v \in 1..Len(Chain[task[w].block]) :
             \E i \in ToSet(Items[task[w].block][v]) : Removes(i, m)
      BY <2>1, <2>2, <3>2 DEF RemovedAnyway
    <3>4. task[w].ver \in 1..Len(Chain[task[w].block])
      BY <2>1 DEF WorkInv, AtWork
    <3>5. PICK i \in DOMAIN TaskItems(w) : Removes(TaskItems(w)[i], m)
      BY <3>3, <3>4 DEF TaskItems, ToSet
    <3>6. i < task[w].n
      <4>1. TaskItems(w) \in Seq(ItemType) /\ task[w].n \in Nat \ {0}
        BY <2>1, ItemsTyped DEF WorkInv, AtWork, TaskRecord, TaskItems
      <4>2. task[w].n \notin DOMAIN TaskItems(w)
        BY <1>9 DEF Finish
      <4> QED
        BY <4>1, <4>2
    <3>7. Erased(TaskItems(w)[i])
      BY <2>1, <3>6 DEF PassedErased, ErasedSoFar, TaskItems
    <3> QED
      BY <3>1, <3>5, <3>7 DEF Erased
  <2> QED
    BY <1>1, <1>2, <2>1, <2>2
<1>10. \/ UNCHANGED done /\ (UNCHANGED cache \/ \E w \in Worker : Accept(w))
       \/ BootRegistry \/ BootIndex \/ BootLists \/ Restart
       \/ \E w \in Worker : Finish(w)
  BY DEF Next, vars, Mine, Reorg, BootBounds, WindowPasses, Begin, Filter, Ignore, DecodeError,
         Accept, Publish, PublishUnacked, Fail
<1> QED
  BY <1>4, <1>5, <1>6, <1>7, <1>8, <1>9, <1>10

\* An address that a processed block has taken out of its index for good is
\* not cached again, neither by other workers nor by a start up.
THEOREM RemovalsStay == Spec => []RemovedAddressesGone
<1>1. Init => CacheInv /\ ReachInv /\ PassedErased /\ RemovedAddressesGone
  BY CacheInit, ReachInit DEF Init, NoTask, PassedErased, ErasedSoFar, RemovedAddressesGone
<1>2. WorkInv /\ TypeOK /\ ReachInv /\ CacheInv /\ [Next]_vars => CacheInv' /\ ReachInv'
  BY CacheNext, ReachNext
<1>3. WorkInv /\ ReachInv /\ CacheInv /\ PassedErased /\ [Next]_vars => PassedErased'
  BY ErasedNext
<1>4. WorkInv /\ TypeOK /\ ReachInv /\ PassedErased /\ RemovedAddressesGone /\ [Next]_vars
        => RemovedAddressesGone'
  BY GoneNext
<1>5. Init => WorkInv
  BY WorkInit
<1>6. WorkInv /\ [Next]_vars => WorkInv'
  BY WorkNext
<1>7. Spec => []TypeOK
  BY PipelineTypes
<1> QED
  BY <1>1, <1>2, <1>3, <1>4, <1>5, <1>6, <1>7, PTL DEF Spec
=============================================================================
