---------------------------- MODULE CacheProofs ----------------------------
(***************************************************************************)
(* Proofs about the items of the blocks, the types of the event pipeline,  *)
(* and the address cache: that it never lacks an address which it has been *)
(* told of at start up or by a processed block, for every chain, any       *)
(* number of workers, and whatever fails, restarts or is replaced.         *)
(***************************************************************************)
EXTENDS PipelineProofs, DataInduction

(***************************************************************************)
(* Items: those that change the cache carry an address.                    *)
(***************************************************************************)
ItemType ==
  {LogItem(r, l) : r \in ReceiptRecord, l \in LogRecord}
    \union {CreationItem(r) : r \in {q \in ReceiptRecord : q.created # NoAddress}}
    \union {InputItem(r) : r \in ReceiptRecord}

LEMMA PlainHandlers ==
  ASSUME NEW t
  PROVE  /\ Publishes(t).effect = "none"
         /\ PublishesUndecoded(t).effect = "none"
         /\ PublishesInNetwork(t).effect = "none"
  BY DEF Publishes, PublishesUndecoded, PublishesInNetwork

\* The handlers of calls leave the cache as it is.
LEMMA InputHandlers == \A f \in DOMAIN InputRoutes : InputRoutes[f].effect = "none"
<1>1. \A h \in {HandleFaucetGiveInputData.giveTo, HandleFaucetGiveInputData.gimme,
                HandleIndexAddInputData, HandleIndexRemoveInputData, HandleOwnershipInputData,
                HandlePoolDepositInputData, HandlePoolSwapInputData,
                HandleQuoterPriceUpdateInputdata, HandleSealStateChangeInputData,
                HandleTokenBurnInputData, HandleTokenMintInputData,
                HandleCustodialRegistrationInputData, HandleTokenTransferInputData,
                HandleTokenApproveInputData, HandleQuoterUpdatedInputData} : h.effect = "none"
  BY PlainHandlers
     DEF HandleFaucetGiveInputData,
         HandleIndexAddInputData, HandleIndexRemoveInputData, HandleOwnershipInputData,
         HandlePoolDepositInputData, HandlePoolSwapInputData,
         HandleQuoterPriceUpdateInputdata, HandleSealStateChangeInputData,
         HandleTokenBurnInputData, HandleTokenMintInputData,
         HandleCustodialRegistrationInputData, HandleTokenTransferInputData,
         HandleTokenApproveInputData, HandleQuoterUpdatedInputData
<1>2. \A f \in DOMAIN FirstInputRoutes : FirstInputRoutes[f].effect = "none"
  BY <1>1 DEF FirstInputRoutes
<1>3. \A f \in DOMAIN LaterInputRoutes : LaterInputRoutes[f].effect = "none"
  BY <1>1 DEF LaterInputRoutes
<1> QED
  BY <1>2, <1>3 DEF InputRoutes

LEMMA ItemArgument ==
  ASSUME NEW item \in ItemType, item.handler.effect # "none"
  PROVE  item.arg \in Address
<1>1. ASSUME NEW r \in ReceiptRecord, NEW l \in LogRecord, item = LogItem(r, l)
      PROVE  item.arg \in Address
  BY <1>1 DEF LogItem, LogRecord
<1>2. ASSUME NEW r \in ReceiptRecord, r.created # NoAddress, item = CreationItem(r)
      PROVE  item.arg \in Address
  BY <1>2 DEF CreationItem, ReceiptRecord
<1>3. ASSUME NEW r \in ReceiptRecord, item = InputItem(r)
      PROVE  FALSE
  <2>1. item.handler = IF r.call \in DOMAIN InputRoutes THEN InputRoutes[r.call] ELSE Unrouted
    BY <1>3 DEF InputItem
  <2> QED
    BY <2>1, InputHandlers DEF Unrouted
<1> QED
  BY <1>1, <1>2, <1>3 DEF ItemType

LEMMA ItemsOfType ==
  ASSUME NEW r \in ReceiptRecord, r.to = NoAddress => r.created # NoAddress
  PROVE  ItemsOf(r) \in Seq(ItemType)
<1>1. CASE r.status = "success"
  <2> DEFINE logs == [i \in 1..Len(r.logs) |-> LogItem(r, r.logs[i])]
             creation == IF r.created = NoAddress THEN <<>> ELSE <<CreationItem(r)>>
  <2>1. logs \in Seq(ItemType)
    <3>1. r.logs \in Seq(LogRecord)
      BY DEF ReceiptRecord
    <3>2. \A i \in 1..Len(r.logs) : LogItem(r, r.logs[i]) \in ItemType
      BY <3>1 DEF ItemType
    <3> QED
      BY <3>1, <3>2
  <2>2. creation \in Seq(ItemType)
    <3>1. r.created # NoAddress => CreationItem(r) \in ItemType
      BY DEF ItemType
    <3> QED
      BY <3>1
  <2>3. ItemsOf(r) = logs \o creation
    BY <1>1 DEF ItemsOf
  <2> HIDE DEF logs, creation
  <2> QED
    BY <2>1, <2>2, <2>3, ConcatProperties
<1>2. CASE r.status = "failed" /\ r.to = NoAddress
  <2>1. CreationItem(r) \in ItemType
    BY <1>2 DEF ItemType
  <2> QED
    BY <1>2, <2>1 DEF ItemsOf
<1>3. CASE r.status = "failed" /\ r.to # NoAddress
  <2>1. InputItem(r) \in ItemType
    BY DEF ItemType
  <2> QED
    BY <1>3, <2>1 DEF ItemsOf
<1>4. CASE r.status \notin {"success", "failed"}
  BY <1>4 DEF ItemsOf
<1> QED
  BY <1>1, <1>2, <1>3, <1>4

LEMMA ItemsTyped ==
  ASSUME NEW b \in Block, NEW v \in 1..Len(Chain[b])
  PROVE  Items[b][v] \in Seq(ItemType)
<1> DEFINE receipts == Chain[b][v]
           itemsOf == [i \in 1..Len(receipts) |-> ItemsOf(receipts[i])]
<1>1. /\ receipts \in Seq(ReceiptRecord)
      /\ \A i \in 1..Len(receipts) : receipts[i].to = NoAddress => receipts[i].created # NoAddress
  BY ChainAssumption DEF Block
<1>2. Items[b][v] = FlattenSeq(itemsOf)
  BY DEF Items
<1> HIDE DEF receipts
<1>3. \A i \in 1..Len(receipts) : ItemsOf(receipts[i]) \in Seq(ItemType)
  BY <1>1, ItemsOfType
<1>4. itemsOf \in Seq(Seq(ItemType))
  BY <1>1, <1>3
<1> HIDE DEF itemsOf
<1> QED
  BY <1>2, <1>4, FlattenType

LEMMA ItemTyped ==
  ASSUME WorkInv, NEW w \in Worker, task[w].pc # "idle", task[w].n \in DOMAIN TaskItems(w)
  PROVE  Item(w) \in ItemType
<1>1. TaskItems(w) \in Seq(ItemType)
  BY ItemsTyped DEF WorkInv, AtWork, TaskItems
<1> QED
  BY <1>1 DEF Item

(***************************************************************************)
(* Types.                                                                  *)
(***************************************************************************)
LEMMA MembersTyped == \A index : MembersOf(index) \subseteq Address
  BY DEF MembersOf, MembersAt

LEMMA CacheTyped ==
  ASSUME WorkInv, cache \subseteq Address, [Next]_vars
  PROVE  cache' \subseteq Address
<1> USE CacheAssumption
<1>1. CASE UNCHANGED cache
  BY <1>1
<1>2. CASE BootRegistry
  BY <1>2 DEF BootRegistry, ReadRegistry
<1>3. CASE BootIndex
  <2> DEFINE index == Head(boot.unread)
             members == MembersOf(index)
  <2>1. boot.unread # <<>> /\ ReadIndex(index, members)
    BY <1>3 DEF BootIndex
  <2>2. index \in Address /\ members \subseteq Address
    BY <2>1, MembersTyped DEF WorkInv
  <2>3. \A a \in members : Parts[a] \subseteq Address
    BY <2>2
  <2> HIDE DEF index, members
  <2> QED
    BY <2>1, <2>2, <2>3 DEF ReadIndex
<1>4. CASE BootLists
  BY <1>4 DEF BootLists, ApplyLists
<1>5. CASE Restart
  BY <1>5 DEF Restart
<1>6. ASSUME NEW w \in Worker, Accept(w)
      PROVE  cache' \subseteq Address
  <2>1. Item(w).handler.effect # "none" => Item(w).arg \in Address
    BY <1>6, ItemTyped, ItemArgument DEF Accept, AtItem
  <2> QED
    BY <1>6, <2>1 DEF Accept, AddAddress, RemoveAddress
<1>7. \/ UNCHANGED cache
      \/ BootRegistry \/ BootIndex \/ BootLists \/ Restart
      \/ \E w \in Worker : Accept(w)
  BY DEF Next, vars, Mine, Reorg, BootBounds, WindowPasses,
         Begin, Filter, Ignore, DecodeError, Publish, PublishUnacked, Fail, Finish
<1> QED
  BY <1>1, <1>2, <1>3, <1>4, <1>5, <1>6, <1>7

\* What the stream, its window and the acknowledgements hold are events.
LEMMA EventsTyped ==
  ASSUME WorkInv, StreamInv, recent \subseteq {MsgID(e) : e \in Event}, acked \subseteq Event,
         [Next]_vars
  PROVE  recent' \subseteq {MsgID(e) : e \in Event} /\ acked' \subseteq Event
<1>1. CASE UNCHANGED <<stored, recent, acked>>
  BY <1>1
<1>2. CASE WindowPasses
  BY <1>2 DEF WindowPasses, Expire
<1>3. ASSUME NEW w \in Worker, Publish(w) \/ PublishUnacked(w)
      PROVE  recent' \subseteq {MsgID(e) : e \in Event} /\ acked' \subseteq Event
  <2> DEFINE e == EventOf(Item(w))
  <2>1. e \in Event
    BY <1>3, ItemIsEvent DEF Publish, PublishUnacked
  <2>2. Receive(e) /\ acked' \subseteq acked \union {e}
    BY <1>3 DEF Publish, PublishUnacked
  <2> HIDE DEF e
  <2>3. recent' \subseteq recent \union {MsgID(e)}
    BY <2>2 DEF Receive, natsVars
  <2> QED
    BY <2>1, <2>2, <2>3
<1> QED
  BY <1>1, <1>2, <1>3, StreamSteps

Budget == [fault : 0..MaxFaults, restart : 0..MaxRestarts, expiry : 0..MaxExpiries]

LEMMA BudgetTyped ==
  ASSUME budget \in Budget, [Next]_vars
  PROVE  budget' \in Budget
<1>1. \/ UNCHANGED budget
      \/ Spend("fault", MaxFaults) \/ Spend("restart", MaxRestarts) \/ Spend("expiry", MaxExpiries)
  BY DEF Next, vars, Mine, Reorg, BootRegistry, BootIndex, BootLists, BootBounds, Restart,
         WindowPasses, Begin, Filter, Ignore, DecodeError, Accept, Publish, PublishUnacked,
         Fail, Finish
<1>2. CASE UNCHANGED budget
  BY <1>2
<1> USE DEF Spend, Budget
<1>3. CASE Spend("fault", MaxFaults)
  <2>1. budget.fault + 1 \in 0..MaxFaults
    BY <1>3, PipelineAssumption
  <2> QED
    BY <1>3, <2>1
<1>4. CASE Spend("restart", MaxRestarts)
  <2>1. budget.restart + 1 \in 0..MaxRestarts
    BY <1>4, PipelineAssumption
  <2> QED
    BY <1>4, <2>1
<1>5. CASE Spend("expiry", MaxExpiries)
  <2>1. budget.expiry + 1 \in 0..MaxExpiries
    BY <1>5, PipelineAssumption
  <2> QED
    BY <1>5, <2>1
<1> QED
  BY <1>1, <1>2, <1>3, <1>4, <1>5

\* What a step may do to the workers.
LEMMA TaskSteps ==
  ASSUME [Next]_vars
  PROVE  \/ UNCHANGED task
         \/ Restart
         \/ \E w \in Worker : \/ Begin(w)
                              \/ GiveUp(w) \/ NextItem(w)
                              \/ \E pc \in {"handle", "publish"} :
                                    task' = [task EXCEPT ![w].pc = pc]
  BY DEF Next, vars, Mine, Reorg, BootRegistry, BootIndex, BootLists, BootBounds, WindowPasses,
         Filter, Ignore, DecodeError, Accept, Publish, PublishUnacked, Fail, Finish

\* Nobody works on a block that is not there, and only such blocks are marked.
LEMMA BlocksTyped ==
  ASSUME WorkInv, done \subseteq 1..head, \A w \in Worker : task[w].block \in 0..head, [Next]_vars
  PROVE  done' \subseteq 1..head' /\ \A w \in Worker : task'[w].block \in 0..head'
<1>1. head \in Nat /\ head' \in Nat /\ head <= head'
  BY PipelineAssumption
     DEF WorkInv, Block, Next, vars, chainVars, Mine, Reorg, BootRegistry, BootIndex, BootLists,
         BootBounds, Restart, WindowPasses, Begin, Filter, Ignore, DecodeError, Accept, Publish,
         PublishUnacked, Fail, Finish
<1>2. \A w \in Worker : task'[w].block \in 0..head
  <2>1. CASE UNCHANGED task
    BY <2>1
  <2>2. CASE Restart
    BY <2>2, <1>1 DEF Restart, NoTask
  <2>3. ASSUME NEW u \in Worker, Begin(u)
        PROVE  \A w \in Worker : task'[w].block \in 0..head
    <3>1. PICK b \in floor..head : task' = [task EXCEPT ![u] = TaskOf(b)]
      BY <2>3 DEF Begin
    <3>2. TaskOf(b).block \in 0..head
      BY <1>1 DEF TaskOf, WorkInv
    <3> QED
      BY <3>1, <3>2 DEF WorkInv
  <2>4. ASSUME NEW u \in Worker, GiveUp(u)
        PROVE  \A w \in Worker : task'[w].block \in 0..head
    BY <2>4, <1>1 DEF GiveUp, NoTask, WorkInv
  <2>5. ASSUME NEW u \in Worker, NextItem(u)
        PROVE  \A w \in Worker : task'[w].block \in 0..head
    BY <2>5 DEF NextItem, WorkInv
  <2>6. ASSUME NEW u \in Worker, NEW pc, task' = [task EXCEPT ![u].pc = pc]
        PROVE  \A w \in Worker : task'[w].block \in 0..head
    BY <2>6 DEF WorkInv
  <2> QED
    BY <2>1, <2>2, <2>3, <2>4, <2>5, <2>6, TaskSteps
<1>3. done' \subseteq 1..head
  <2>1. UNCHANGED done \/ \E w \in Worker : Finish(w)
    BY DEF Next, vars, Mine, Reorg, BootRegistry, BootIndex, BootLists, BootBounds, Restart,
           WindowPasses, Begin, Filter, Ignore, DecodeError, Accept, Publish, PublishUnacked, Fail
  <2>2. ASSUME NEW w \in Worker, Finish(w)
        PROVE  done' \subseteq 1..head
    <3>1. done' = done \union {task[w].block} /\ task[w].pc # "idle"
      BY <2>2 DEF Finish
    <3>2. task[w].block \in 1..head
      BY <3>1, <1>1 DEF WorkInv, AtWork, Block
    <3> QED
      BY <3>1, <3>2
  <2> QED
    BY <2>1, <2>2
<1> QED
  BY <1>1, <1>2, <1>3

\* The history of a worker holds marked blocks.
LEMMA SeenTyped ==
  ASSUME WorkInv, \A w \in Worker : task[w].seen \subseteq done, [Next]_vars
  PROVE  done \subseteq done' /\ \A w \in Worker : task'[w].seen \subseteq done'
<1>1. done \subseteq done'
  BY DEF Next, vars, Mine, Reorg, BootRegistry, BootIndex, BootLists, BootBounds, Restart,
         WindowPasses, Begin, Filter, Ignore, DecodeError, Accept, Publish, PublishUnacked, Fail,
         Finish
<1>2. CASE UNCHANGED task
  BY <1>1, <1>2
<1>3. CASE Restart
  BY <1>3 DEF Restart, NoTask
<1>4. ASSUME NEW u \in Worker, Begin(u)
      PROVE  \A w \in Worker : task'[w].seen \subseteq done'
  <2>1. PICK b \in floor..head : task' = [task EXCEPT ![u] = TaskOf(b)]
    BY <1>4 DEF Begin
  <2>2. TaskOf(b).seen = done
    BY DEF TaskOf
  <2> QED
    BY <1>1, <2>1, <2>2 DEF WorkInv
<1>5. ASSUME NEW u \in Worker, GiveUp(u)
      PROVE  \A w \in Worker : task'[w].seen \subseteq done'
  BY <1>1, <1>5 DEF GiveUp, NoTask, WorkInv
<1>6. ASSUME NEW u \in Worker, NextItem(u)
      PROVE  \A w \in Worker : task'[w].seen \subseteq done'
  BY <1>1, <1>6 DEF NextItem, WorkInv, TaskRecord
<1>7. ASSUME NEW u \in Worker, NEW pc, task' = [task EXCEPT ![u].pc = pc]
      PROVE  \A w \in Worker : task'[w].seen \subseteq done'
  BY <1>1, <1>7 DEF WorkInv, TaskRecord
<1> QED
  BY <1>1, <1>2, <1>3, <1>4, <1>5, <1>6, <1>7, TaskSteps

\* Every variable of the pipeline keeps its type.
THEOREM PipelineTypes == Spec => []TypeOK
<1> DEFINE IInv == WorkInv /\ StreamInv /\ TypeOK
<1>1. Init => IInv
  <2> SUFFICES ASSUME Init PROVE IInv
    OBVIOUS
  <2>1. WorkInv /\ StreamInv /\ stored = EmptyBag /\ recent = {} /\ acked = {}
    BY WorkInit, StreamInit
  <2>2. /\ cache = {} /\ done = {} /\ floor = 0
        /\ budget \in [fault : 0..MaxFaults, restart : 0..MaxRestarts, expiry : 0..MaxExpiries]
        /\ task \in [Worker -> [pc : {"idle", "filter", "handle", "publish"},
                               block : 0..head, ver : Nat, n : Nat \ {0}, seen : SUBSET done]]
    BY PipelineAssumption DEF Init, NoTask, Block
  <2> QED
    BY <2>1, <2>2 DEF TypeOK, StreamInv, WorkInv
<1>2. IInv /\ [Next]_vars => IInv'
  <2> SUFFICES ASSUME IInv, [Next]_vars PROVE IInv'
    OBVIOUS
  <2>1. WorkInv' /\ StreamInv'
    BY WorkNext, StreamNext
  <2>2. cache' \subseteq Address
    BY CacheTyped DEF TypeOK
  <2>3. recent' \subseteq {MsgID(e) : e \in Event} /\ acked' \subseteq Event
    BY EventsTyped DEF TypeOK
  <2>4. budget' \in [fault : 0..MaxFaults, restart : 0..MaxRestarts, expiry : 0..MaxExpiries]
    BY BudgetTyped DEF TypeOK, Budget
  <2>5. done' \subseteq 1..head' /\ \A w \in Worker : task'[w].block \in 0..head'
    <3>1. \A w \in Worker : task[w].block \in 0..head
      BY DEF TypeOK
    <3> QED
      BY <3>1, BlocksTyped DEF TypeOK
  <2>6. \A w \in Worker : task'[w].seen \subseteq done'
    <3>1. \A w \in Worker : task[w].seen \subseteq done
      BY DEF TypeOK
    <3> QED
      BY <3>1, SeenTyped
  <2>7. task' \in [Worker -> [pc : {"idle", "filter", "handle", "publish"},
                             block : 0..head', ver : Nat, n : Nat \ {0}, seen : SUBSET done']]
    BY <2>1, <2>5, <2>6 DEF WorkInv, TaskRecord
  <2> QED
    BY <2>1, <2>2, <2>3, <2>4, <2>5, <2>7 DEF TypeOK, StreamInv, WorkInv
<1> QED
  BY <1>1, <1>2, PTL DEF Spec

(***************************************************************************)
(* The cache.                                                              *)
(***************************************************************************)
LEMMA IndexHandlers ==
  /\ HandleIndexAddLog.effect = "add" /\ HandleIndexAddLog.network = FALSE
  /\ HandleIndexAddLog # Unrouted
  /\ HandleIndexRemoveLog.effect = "remove" /\ HandleIndexRemoveLog.network = FALSE
  /\ HandleIndexRemoveLog # Unrouted
<1>1. HandleIndexAddLog.effect = "add" /\ HandleIndexAddLog.network = FALSE
  BY DEF HandleIndexAddLog, PublishesAfter, Publishes
<1>2. Unrouted.effect = "none"
  BY DEF Unrouted
<1>3. HandleIndexRemoveLog.effect = "remove" /\ HandleIndexRemoveLog.network = FALSE
  BY DEF HandleIndexRemoveLog, PublishesAfter, Publishes
<1> QED
  BY <1>1, <1>2, <1>3

LEMMA ListedItemsTyped == ItemsIn(Block) \subseteq ItemType
<1> SUFFICES ASSUME NEW j \in ItemsIn(Block) PROVE j \in ItemType
  OBVIOUS
<1> DEFINE versions(b) == {ToSet(Items[b][v]) : v \in 1..Len(Chain[b])}
<1>1. PICK b \in Block : j \in UNION versions(b)
  BY DEF ItemsIn
<1>2. PICK v \in 1..Len(Chain[b]) : j \in ToSet(Items[b][v])
  BY <1>1
<1>3. Items[b][v] \in Seq(ItemType)
  BY ItemsTyped
<1> QED
  BY <1>2, <1>3 DEF ToSet

LEMMA ReachClosed == Reach \subseteq Address /\ Closed(Reach)
<1> USE CacheAssumption
<1>1. Reach = {x \in Address : \A S \in SUBSET Address : Closed(S) => x \in S}
  BY DEF Reach
<1>2. Entries \union Watchlist \union {m[2] : m \in GenesisMembers} \subseteq Reach
  <2>1. Entries \union Watchlist \union {m[2] : m \in GenesisMembers} \subseteq Address
    BY PipelineAssumption
  <2> QED
    BY <1>1, <2>1 DEF Closed
<1>3. ASSUME NEW a \in Reach PROVE Parts[a] \subseteq Reach
  <2>1. Parts[a] \subseteq Address
    BY <1>1
  <2> QED
    BY <1>1, <2>1 DEF Closed
<1>4. ASSUME NEW i \in ItemsIn(Block), i.who \in Reach, i.handler.effect = "add"
      PROVE  i.arg \in Reach
  <2>1. i.arg \in Address
    BY <1>4, ListedItemsTyped, ItemArgument
  <2> QED
    BY <1>1, <1>4, <2>1 DEF Closed
<1> QED
  BY <1>1, <1>2, <1>3, <1>4 DEF Closed

LEMMA RemovedIsNotKept ==
  ASSUME NEW item \in ItemsIn(Block), item.who \in Reach, item.handler.effect = "remove"
  PROVE  item.arg \notin NeverRemoved
  BY DEF NeverRemoved

\* What the indexes surely hold when they are read.
LEMMA PlacesAreItems ==
  ASSUME WorkInv, NEW q \in Places(1, head)
  PROVE  ItemAt(q) \in ItemsIn(Block)
<1>1. PICK b \in 1..head : q \in {b} \X DOMAIN Items[b][canon[b]]
  BY DEF Places
<1>2. b \in Block /\ canon[b] \in 1..Len(Chain[b])
  BY <1>1, PipelineAssumption DEF WorkInv, Block
<1>3. q[1] = b /\ q[2] \in DOMAIN Items[b][canon[b]]
  BY <1>1
<1> QED
  BY <1>2, <1>3, ItemIsListed DEF ItemAt

LEMMA IndexesReached == ToSet(IndexOrder) \subseteq Entries \cap Reach
  BY PipelineAssumption, ReachClosed DEF Closed, ToSet

LEMMA MembersReached ==
  ASSUME WorkInv
  PROVE  \A m \in MembersAt(head) : m[2] \in Reach
<1> SUFFICES ASSUME NEW m \in MembersAt(head) PROVE m[2] \in Reach
  OBVIOUS
<1>1. CASE m \in GenesisMembers
  BY <1>1, ReachClosed DEF Closed
<1>2. ASSUME NEW p \in Places(1, head), Adds(ItemAt(p), m) PROVE m[2] \in Reach
  <2>1. ItemAt(p) \in ItemsIn(Block)
    BY PlacesAreItems
  <2>2. m[1] \in Reach
    BY IndexesReached DEF MembersAt
  <2> HIDE DEF ItemAt
  <2> QED
    BY <1>2, <2>1, <2>2, IndexHandlers, ReachClosed DEF Adds, Closed
<1> QED
  BY <1>1, <1>2 DEF MembersAt

\* The cache holds nothing that cannot come into it, and what is looked at is
\* of such an address.
ReachInv ==
  /\ cache \subseteq Reach
  /\ \A w \in Worker : task[w].pc \in {"handle", "publish"} => Item(w).who \in Reach

LEMMA ReachInit == ASSUME Init PROVE ReachInv
  BY DEF Init, NoTask, ReachInv

LEMMA CacheReached ==
  ASSUME WorkInv, ReachInv, [Next]_vars
  PROVE  cache' \subseteq Reach
<1> USE CacheAssumption
<1>1. CASE UNCHANGED cache
  BY <1>1 DEF ReachInv
<1>2. CASE BootRegistry
  BY <1>2, ReachClosed DEF BootRegistry, ReadRegistry, Closed
<1>3. CASE BootIndex
  <2> DEFINE index == Head(boot.unread)
             members == MembersOf(index)
  <2>1. boot.unread # <<>> /\ ReadIndex(index, members)
    BY <1>3 DEF BootIndex
  <2>2. index \in Reach
    BY <2>1, ReachClosed DEF WorkInv, Closed
  <2>3. members \subseteq Reach
    BY MembersReached DEF MembersOf
  <2>4. \A a \in members : Parts[a] \subseteq Reach
    BY <2>3, ReachClosed DEF Closed
  <2> HIDE DEF index, members
  <2> QED
    BY <2>1, <2>2, <2>3, <2>4 DEF ReadIndex, ReachInv
<1>4. CASE BootLists
  BY <1>4, ReachClosed DEF BootLists, ApplyLists, Closed, ReachInv
<1>5. CASE Restart
  BY <1>5 DEF Restart
<1>6. ASSUME NEW w \in Worker, Accept(w)
      PROVE  cache' \subseteq Reach
  <2>1. Item(w) \in ItemsIn(Block) /\ Item(w).who \in Reach
    BY <1>6, ItemIsEvent DEF Accept, AtItem, ReachInv
  <2>2. Item(w).handler.effect = "add" => Item(w).arg \in Reach
    BY <2>1, ReachClosed DEF Closed
  <2> QED
    BY <1>6, <2>2 DEF Accept, AddAddress, RemoveAddress, ReachInv
<1>7. \/ UNCHANGED cache
      \/ BootRegistry \/ BootIndex \/ BootLists \/ Restart
      \/ \E w \in Worker : Accept(w)
  BY DEF Next, vars, Mine, Reorg, BootBounds, WindowPasses,
         Begin, Filter, Ignore, DecodeError, Publish, PublishUnacked, Fail, Finish
<1> QED
  BY <1>1, <1>2, <1>3, <1>4, <1>5, <1>6, <1>7

LEMMA ReachNext ==
  ASSUME WorkInv, ReachInv, [Next]_vars
  PROVE  ReachInv'
<1>1. \A w \in Worker : task'[w].pc \in {"handle", "publish"} => Item(w)'.who \in Reach
  <2>1. CASE UNCHANGED task
    BY <2>1 DEF ReachInv, Item, TaskItems
  <2>2. CASE Restart
    BY <2>2 DEF Restart, NoTask
  <2>3. ASSUME NEW u \in Worker, NEW t, task' = [task EXCEPT ![u] = t],
               t.pc \notin {"handle", "publish"}
        PROVE  \A w \in Worker : task'[w].pc \in {"handle", "publish"} => Item(w)'.who \in Reach
    BY <2>3 DEF WorkInv, ReachInv, Item, TaskItems
  <2>4. ASSUME NEW u \in Worker, NEW pc, task' = [task EXCEPT ![u].pc = pc], Item(u).who \in Reach
        PROVE  \A w \in Worker : task'[w].pc \in {"handle", "publish"} => Item(w)'.who \in Reach
    BY <2>4 DEF WorkInv, ReachInv, Item, TaskItems
  <2>5. ASSUME NEW u \in Worker, NextItem(u)
        PROVE  \A w \in Worker : task'[w].pc \in {"handle", "publish"} => Item(w)'.who \in Reach
    <3>1. (\A w \in Worker \ {u} : task'[w] = task[w]) /\ task'[u].pc = "filter"
      BY <2>5 DEF NextItem, WorkInv
    <3> QED
      BY <3>1 DEF ReachInv, Item, TaskItems
  <2>6. ASSUME NEW u \in Worker, Begin(u) \/ GiveUp(u)
        PROVE  \E t : task' = [task EXCEPT ![u] = t] /\ t.pc \notin {"handle", "publish"}
    <3>1. CASE GiveUp(u)
      <4>1. NoTask.pc = "idle"
        BY DEF NoTask
      <4> QED
        BY <3>1, <4>1 DEF GiveUp
    <3>2. CASE Begin(u)
      <4>1. PICK b \in floor..head : task' = [task EXCEPT ![u] = TaskOf(b)]
        BY <3>2 DEF Begin
      <4>2. TaskOf(b).pc = "filter"
        BY DEF TaskOf
      <4> QED
        BY <4>1, <4>2
    <3> QED
      BY <2>6, <3>1, <3>2
  <2>7. ASSUME NEW u \in Worker, Filter(u)
        PROVE  \/ NextItem(u)
               \/ task' = [task EXCEPT ![u].pc = "handle"] /\ Item(u).who \in Reach
    BY <2>7 DEF Filter, Exists, ReachInv
  <2>8. ASSUME NEW u \in Worker, Accept(u)
        PROVE  task' = [task EXCEPT ![u].pc = "publish"] /\ Item(u).who \in Reach
    BY <2>8 DEF Accept, AtItem, ReachInv
  <2>9. \/ UNCHANGED task
        \/ Restart
        \/ \E u \in Worker : \/ Begin(u) \/ GiveUp(u) \/ NextItem(u)
                             \/ Filter(u) \/ Accept(u)
    BY DEF Next, vars, Mine, Reorg, BootRegistry, BootIndex, BootLists, BootBounds, WindowPasses,
           Ignore, DecodeError, Publish, PublishUnacked, Fail, Finish
  <2> QED
    BY <2>1, <2>2, <2>3, <2>4, <2>5, <2>6, <2>7, <2>8, <2>9
<1> QED
  BY <1>1, CacheReached DEF ReachInv

LEMMA NoneRemoves ==
  ASSUME WorkInv, NEW q \in Places(1, head),
         NEW m, m[1] \in ToSet(IndexOrder), m[2] \in NeverRemoved
  PROVE  ~Removes(ItemAt(q), m)
<1>1. ItemAt(q) \in ItemsIn(Block)
  BY PlacesAreItems
<1>2. m[1] \in Reach
  BY IndexesReached
<1> HIDE DEF ItemAt
<1> QED
  BY <1>1, <1>2, RemovedIsNotKept, IndexHandlers DEF Removes

LEMMA LastingFound ==
  ASSUME WorkInv, NEW m \in LastingMembers
  PROVE  m \in MembersAt(head)
<1>1. m \in GenesisMembers /\ m[2] \in NeverRemoved /\ m \in ToSet(IndexOrder) \X Address
  BY PipelineAssumption DEF LastingMembers
<1>2. \A q \in Places(1, head) : ~Removes(ItemAt(q), m)
  BY <1>1, NoneRemoves
<1> QED
  BY <1>1, <1>2 DEF MembersAt

LEMMA AddedFound ==
  ASSUME WorkInv, done \subseteq 1..head, NEW m \in AddedAnyway(done)
  PROVE  m \in MembersAt(head)
<1>1. PICK b \in done : \A v \in 1..Len(Chain[b]) : \E i \in ToSet(Items[b][v]) : Adds(i, m)
  BY DEF AddedAnyway, LastingAdditions
<1>2. b \in 1..head /\ canon[b] \in 1..Len(Chain[b])
  BY PipelineAssumption DEF WorkInv, Block
<1>3. PICK n \in DOMAIN Items[b][canon[b]] : Adds(Items[b][canon[b]][n], m)
  BY <1>1, <1>2 DEF ToSet
<1> DEFINE p == <<b, n>>
<1>4. p \in Places(1, head) /\ Adds(ItemAt(p), m)
  BY <1>2, <1>3 DEF Places, ItemAt
<1>5. m \in ToSet(IndexOrder) \X Address /\ m[2] \in NeverRemoved
  BY DEF AddedAnyway, LastingAdditions, Kept, NeverRemoved
<1>6. \A q \in Places(1, head) : ~Removes(ItemAt(q), m)
  BY <1>5, NoneRemoves
<1> HIDE DEF p
<1> QED
  BY <1>4, <1>5, <1>6 DEF MembersAt

\* While the service runs, what is kept stays in the cache.
LEMMA KeptStays ==
  ASSUME WorkInv, ReachInv, UNCHANGED cache \/ \E w \in Worker : Accept(w)
  PROVE  Kept \cap cache \subseteq cache'
<1>1. ASSUME NEW w \in Worker, Accept(w)
      PROVE  Kept \cap cache \subseteq cache'
  <2>1. Item(w) \in ItemsIn(Block) /\ Item(w).who \in Reach
    BY <1>1, ItemIsEvent DEF Accept, AtItem, ReachInv
  <2>2. Item(w).handler.effect = "remove" => Item(w).arg \notin Kept
    BY <2>1, RemovedIsNotKept DEF Kept
  <2> QED
    BY <1>1, <2>2 DEF Accept, AddAddress, RemoveAddress
<1> QED
  BY <1>1

\* What the reading of an index brings into the cache.
LEMMA IndexRead ==
  ASSUME BootIndex, NEW m \in MembersAt(head), m[1] = Head(boot.unread), m[2] # ZeroAddress
  PROVE  Found(m) \subseteq cache'
<1> DEFINE members == MembersOf(Head(boot.unread))
<1>1. m[2] \in members
  BY DEF MembersOf
<1>2. ReadIndex(m[1], members)
  BY DEF BootIndex
<1> HIDE DEF members
<1> QED
  BY <1>1, <1>2 DEF ReadIndex, Found

LEMMA ReadSoFarKept ==
  ASSUME ReadSoFar, UNCHANGED <<boot, done>>, Kept \cap cache \subseteq cache'
  PROVE  ReadSoFar'
<1>1. \A m : m \in AddedAnyway(done) => m[2] \in Kept
  BY DEF AddedAnyway, LastingAdditions
<1> QED
  BY <1>1 DEF ReadSoFar

LEMMA PassedNotedKept ==
  ASSUME PassedNoted, UNCHANGED <<boot, task>>, Kept \cap cache \subseteq cache'
  PROVE  PassedNoted'
<1>1. \A item : Noted(item) => Noted(item)'
  BY DEF Noted
<1> QED
  BY <1>1 DEF PassedNoted, Passed

\* Start up.
LEMMA BootKeeps ==
  ASSUME WorkInv, TypeOK, CacheInv, BootRegistry \/ BootIndex \/ BootLists \/ BootBounds
  PROVE  CacheInv'
<1>1. boot \in [stage : {"registry", "indexes", "bounds", "up"}, unread : Seq(Entries)]
  BY DEF WorkInv
<1>2. \A w \in Worker : boot.stage # "up" => task[w].pc = "idle"
  BY DEF CacheInv, PassedNoted, Passed
<1>3. UNCHANGED <<task, done>>
  BY DEF BootRegistry, BootIndex, BootLists, BootBounds
<1>4. boot.stage # "up"
  BY DEF BootRegistry, BootIndex, BootLists, BootBounds
<1>5. PassedNoted'
  BY <1>2, <1>3, <1>4 DEF PassedNoted, Passed
<1>6. CASE BootRegistry
  <2>1. boot.unread = IndexOrder /\ boot'.stage = "indexes" /\ boot'.unread = boot.unread
    BY <1>1, <1>6 DEF BootRegistry, CacheInv, ReadSoFar
  <2>2. \A m \in LastingMembers \union AddedAnyway(done) : m[1] \in ToSet(IndexOrder)
    BY PipelineAssumption DEF LastingMembers, AddedAnyway, LastingAdditions
  <2>3. Kept \cap Entries \subseteq cache'
    BY <1>6 DEF BootRegistry, ReadRegistry, Kept
  <2> QED
    BY <1>3, <1>5, <2>1, <2>2, <2>3 DEF CacheInv, ReadSoFar, ListsApplied
<1>7. CASE BootIndex
  <2> DEFINE index == Head(boot.unread)
  <2>1. /\ boot.stage = "indexes" /\ boot'.stage = "indexes"
        /\ boot.unread # <<>> /\ boot'.unread = Tail(boot.unread)
    BY <1>1, <1>7 DEF BootIndex
  <2>2. cache \subseteq cache'
    BY <1>7 DEF BootIndex, ReadIndex
  <2>3. ToSet(boot.unread) = {index} \union ToSet(boot'.unread)
    BY <1>1, <2>1, HeadAndTail
  <2>4. ASSUME NEW m \in LastingMembers, m[1] \notin ToSet(boot'.unread), m[2] # ZeroAddress
        PROVE  Kept \cap Found(m) \subseteq cache'
    <3>1. CASE m[1] = index
      BY <1>7, <2>4, <3>1, LastingFound, IndexRead
    <3>2. CASE m[1] # index
      BY <2>1, <2>2, <2>3, <2>4, <3>2 DEF CacheInv, ReadSoFar
    <3> QED
      BY <3>1, <3>2
  <2>5. ASSUME NEW m \in AddedAnyway(done), m[1] \notin ToSet(boot'.unread)
        PROVE  m[2] \in cache'
    <3>1. CASE m[1] = index
      <4>1. m[2] # ZeroAddress
        BY DEF AddedAnyway, LastingAdditions, Kept
      <4>2. m[2] \in Found(m)
        BY DEF Found
      <4> QED
        BY <1>7, <3>1, <4>1, <4>2, AddedFound, IndexRead DEF TypeOK
    <3>2. CASE m[1] # index
      BY <2>1, <2>2, <2>3, <2>5, <3>2 DEF CacheInv, ReadSoFar
    <3> QED
      BY <3>1, <3>2
  <2>6. Kept \cap Entries \subseteq cache'
    BY <2>1, <2>2 DEF CacheInv, ReadSoFar
  <2> QED
    BY <1>3, <1>5, <2>1, <2>4, <2>5, <2>6 DEF CacheInv, ReadSoFar, ListsApplied
<1>8. CASE BootLists
  <2>1. /\ boot.stage = "indexes" /\ boot'.stage = "bounds"
        /\ boot.unread = <<>> /\ boot'.unread = <<>>
    BY <1>1, <1>8 DEF BootLists
  <2>2. Kept \cap (cache \union Watchlist) \subseteq cache'
    BY <1>8 DEF BootLists, ApplyLists, Kept
  <2>3. \A m : m \in AddedAnyway(done) => m[2] \in Kept
    BY DEF AddedAnyway, LastingAdditions
  <2> QED
    BY <1>3, <1>5, <2>1, <2>2, <2>3 DEF CacheInv, ReadSoFar, ListsApplied
<1>9. CASE BootBounds
  <2>1. boot.stage = "bounds" /\ boot'.stage = "up" /\ boot'.unread = boot.unread /\ cache' = cache
    BY <1>1, <1>9 DEF BootBounds
  <2> QED
    BY <1>3, <1>5, <2>1 DEF CacheInv, ReadSoFar, ListsApplied
<1> QED
  BY <1>6, <1>7, <1>8, <1>9

\* The service starts again.
LEMMA RestartKeeps ==
  ASSUME Restart
  PROVE  CacheInv'
  BY DEF Restart, AtStart, NoTask, CacheInv, ReadSoFar, ListsApplied, PassedNoted, Passed

(***************************************************************************)
(* A worker's step: its record is replaced by one that has passed no item  *)
(* which is not noted.                                                     *)
(***************************************************************************)
LEMMA PassedStep ==
  ASSUME WorkInv, PassedNoted, UNCHANGED boot, Kept \cap cache \subseteq cache',
         NEW w \in Worker, \A u \in Worker \ {w} : task'[u] = task[u], Passed(task[w])'
  PROVE  PassedNoted'
<1>1. \A item : Noted(item) => Noted(item)'
  BY DEF Noted
<1>2. ASSUME NEW u \in Worker, u # w PROVE Passed(task[u])'
  BY <1>1, <1>2 DEF PassedNoted, Passed
<1> QED
  BY <1>2 DEF PassedNoted

LEMMA NextItemKeeps ==
  ASSUME WorkInv, PassedNoted, UNCHANGED boot, Kept \cap cache \subseteq cache',
         NEW w \in Worker, task[w].pc # "idle", NextItem(w),
         NEW item, item = Item(w), Noted(item)'
  PROVE  PassedNoted'
<1>1. /\ \A u \in Worker \ {w} : task'[u] = task[u]
      /\ task'[w].pc = "filter" /\ task'[w].n = task[w].n + 1
      /\ task'[w].block = task[w].block /\ task'[w].ver = task[w].ver
  BY DEF NextItem, WorkInv
<1>2. \A i : Noted(i) => Noted(i)'
  BY DEF Noted
<1>3. boot'.stage = "up"
  BY DEF PassedNoted, Passed
<1>4. ASSUME NEW items, items = TaskItems(w), NEW i \in DOMAIN items, i < task[w].n + 1
      PROVE  Noted(items[i])'
  <2>1. i \in Nat /\ task[w].n \in Nat
    BY <1>4, ItemsTyped DEF WorkInv, TaskRecord, AtWork, TaskItems
  <2>2. CASE i = task[w].n
    <3>1. items[i] = item
      BY <1>4, <2>2 DEF Item
    <3> QED
      BY <3>1
  <2>3. CASE i < task[w].n
    <3>1. Noted(items[i])
      BY <1>4, <2>3 DEF PassedNoted, Passed, TaskItems
    <3> QED
      BY <1>2, <3>1
  <2> QED
    BY <1>4, <2>1, <2>2, <2>3
<1>5. Passed(task[w])'
  BY <1>1, <1>3, <1>4 DEF Passed, TaskItems
<1> QED
  BY <1>1, <1>5, PassedStep

LEMMA GiveUpKeeps ==
  ASSUME WorkInv, PassedNoted, UNCHANGED boot, Kept \cap cache \subseteq cache',
         NEW w \in Worker, GiveUp(w)
  PROVE  PassedNoted'
<1>1. (\A u \in Worker \ {w} : task'[u] = task[u]) /\ task'[w] = NoTask
  BY DEF GiveUp, WorkInv
<1>2. Passed(task[w])'
  BY <1>1 DEF Passed, NoTask
<1> QED
  BY <1>1, <1>2, PassedStep

\* What an index adds is looked at as long as the index is cached.
LEMMA AdditionsAccepted ==
  ASSUME NEW item, NEW m \in (ToSet(IndexOrder) \cap Kept) \X Kept, Adds(item, m), ReadSoFar,
         boot.stage = "up"
  PROVE  /\ item.who \in cache
         /\ item.handler # Unrouted /\ item.handler.network = FALSE
         /\ item.handler.effect = "add" /\ item.arg = m[2]
<1>1. m[1] \in Kept \cap Entries
  BY PipelineAssumption DEF ToSet
<1>2. m[1] \in cache
  BY <1>1 DEF ReadSoFar
<1> QED
  BY <1>2, IndexHandlers DEF Adds

LEMMA BeginKeeps ==
  ASSUME WorkInv, PassedNoted, NEW w \in Worker, Begin(w)
  PROVE  PassedNoted'
<1>1. PICK b \in floor..head : task' = [task EXCEPT ![w] = TaskOf(b)]
  BY DEF Begin
<1>2. (\A u \in Worker \ {w} : task'[u] = task[u]) /\ task'[w] = TaskOf(b)
  BY <1>1 DEF WorkInv
<1>3. boot.stage = "up" /\ UNCHANGED <<boot, cache>>
  BY DEF Begin, startVars
<1>4. b \in Block /\ canon[b] \in 1..Len(Chain[b])
  BY <1>1, <1>3, PipelineAssumption DEF WorkInv, Block
<1>5. \A i \in DOMAIN Items[b][canon[b]] : ~(i < 1)
  <2>1. Items[b][canon[b]] \in Seq(ItemType)
    BY <1>4, ItemsTyped
  <2> QED
    BY <2>1
<1>6. Passed(task[w])'
  BY <1>2, <1>3, <1>5 DEF Passed, TaskOf
<1> QED
  BY <1>2, <1>3, <1>6, PassedStep

LEMMA FilterKeeps ==
  ASSUME WorkInv, CacheInv, NEW w \in Worker, Filter(w)
  PROVE  PassedNoted'
<1>1. UNCHANGED <<boot, cache>> /\ task[w].pc = "filter"
  BY DEF Filter, AtItem, startVars
<1>2. boot.stage = "up"
  BY <1>1 DEF CacheInv, PassedNoted, Passed
<1>3. CASE Exists(Item(w).who)
  <2>1. task' = [task EXCEPT ![w].pc = "handle"]
    BY <1>3 DEF Filter
  <2>2. /\ \A u \in Worker \ {w} : task'[u] = task[u]
        /\ task'[w].pc = "handle" /\ task'[w].n = task[w].n
        /\ task'[w].block = task[w].block /\ task'[w].ver = task[w].ver
    BY <2>1 DEF WorkInv
  <2>3. Passed(task[w])'
    BY <1>1, <1>2, <2>2 DEF CacheInv, PassedNoted, Passed, Noted
  <2> QED
    BY <1>1, <2>2, <2>3, PassedStep DEF CacheInv
<1>4. CASE ~Exists(Item(w).who)
  <2> DEFINE item == Item(w)
  <2>1. NextItem(w)
    BY <1>4 DEF Filter
  <2>2. item.who \notin cache
    BY <1>4 DEF Exists
  <2> HIDE DEF item
  <2>3. ASSUME NEW i, i = item PROVE Noted(i)'
    BY <1>1, <1>2, <2>2, <2>3, AdditionsAccepted DEF CacheInv, Noted
  <2> QED
    BY <1>1, <2>1, <2>3, NextItemKeeps DEF CacheInv, item
<1> QED
  BY <1>3, <1>4

LEMMA IgnoreKeeps ==
  ASSUME WorkInv, CacheInv, NEW w \in Worker, Ignore(w)
  PROVE  PassedNoted'
<1> DEFINE item == Item(w)
<1>1. UNCHANGED <<boot, cache>> /\ task[w].pc = "handle" /\ NextItem(w)
  BY DEF Ignore, AtItem, startVars
<1>2. boot.stage = "up"
  BY <1>1 DEF CacheInv, PassedNoted, Passed
<1>3. item.handler = Unrouted \/ item.handler.network
  BY DEF Ignore
<1> HIDE DEF item
<1>4. ASSUME NEW i, i = item PROVE Noted(i)'
  BY <1>1, <1>2, <1>3, <1>4, AdditionsAccepted DEF CacheInv, Noted
<1> QED
  BY <1>1, <1>4, NextItemKeeps DEF CacheInv, item

LEMMA AcceptKeeps ==
  ASSUME WorkInv, ReachInv, CacheInv, NEW w \in Worker, Accept(w)
  PROVE  PassedNoted'
<1> DEFINE item == Item(w)
<1>1. UNCHANGED boot /\ task[w].pc = "handle" /\ task' = [task EXCEPT ![w].pc = "publish"]
  BY DEF Accept, AtItem, startVars
<1>2. boot.stage = "up"
  BY <1>1 DEF CacheInv, PassedNoted, Passed
<1>10. TaskItems(w) \in Seq(ItemType)
  BY <1>1, ItemsTyped DEF WorkInv, AtWork, TaskItems
<1>3. /\ \A u \in Worker \ {w} : task'[u] = task[u]
      /\ task'[w].pc = "publish" /\ task'[w].n = task[w].n
      /\ task'[w].block = task[w].block /\ task'[w].ver = task[w].ver
  BY <1>1 DEF WorkInv
<1>4. Kept \cap cache \subseteq cache'
  BY KeptStays
<1>5. item.handler.effect = "add" => item.arg \in cache'
  BY DEF Accept, AddAddress
<1> HIDE DEF item
<1>6. ASSUME NEW i, i = item PROVE Noted(i)'
  BY <1>2, <1>5, <1>6, AdditionsAccepted DEF CacheInv, Noted
<1>7. \A i : Noted(i) => Noted(i)'
  BY <1>4 DEF Noted
<1>8. ASSUME NEW items, items = TaskItems(w), NEW i \in DOMAIN items, i <= task[w].n
      PROVE  Noted(items[i])'
  <2>1. i \in Nat /\ task[w].n \in Nat
    BY <1>8, <1>10 DEF WorkInv, TaskRecord
  <2>2. CASE i = task[w].n
    <3>1. items[i] = item
      BY <1>8, <2>2 DEF Item, item
    <3> QED
      BY <1>6, <3>1
  <2>3. CASE i < task[w].n
    <3>1. Noted(items[i])
      BY <1>1, <1>8, <2>3 DEF CacheInv, PassedNoted, Passed, TaskItems
    <3> QED
      BY <1>7, <3>1
  <2> QED
    BY <1>8, <2>1, <2>2, <2>3
<1>9. Passed(task[w])'
  <2>1. \A i \in DOMAIN TaskItems(w) : i \in Nat /\ task[w].n \in Nat
    BY <1>10 DEF WorkInv, TaskRecord
  <2> QED
    BY <1>1, <1>2, <1>3, <1>8, <2>1 DEF Passed, TaskItems
<1> QED
  BY <1>1, <1>3, <1>4, <1>9, PassedStep DEF CacheInv

LEMMA PublishKeeps ==
  ASSUME WorkInv, CacheInv, NEW w \in Worker, Publish(w)
  PROVE  PassedNoted'
<1> DEFINE item == Item(w)
<1>1. UNCHANGED <<boot, cache>> /\ task[w].pc = "publish" /\ NextItem(w)
      /\ task[w].n \in DOMAIN TaskItems(w)
  BY DEF Publish, AtItem, startVars
<1>2. Noted(item)
  BY <1>1 DEF CacheInv, PassedNoted, Passed, TaskItems, Item
<1> HIDE DEF item
<1>3. ASSUME NEW i, i = item PROVE Noted(i)'
  BY <1>1, <1>2, <1>3 DEF Noted
<1> QED
  BY <1>1, <1>3, NextItemKeeps DEF CacheInv, item

\* A finished block has passed all its items.
LEMMA FinishKeeps ==
  ASSUME WorkInv, CacheInv, NEW w \in Worker, Finish(w)
  PROVE  ReadSoFar'
<1>1. /\ UNCHANGED <<boot, cache>> /\ task[w].pc = "filter"
      /\ task[w].n \notin DOMAIN TaskItems(w) /\ done' = done \union {task[w].block}
  BY DEF Finish, startVars
<1>2. TaskItems(w) \in Seq(ItemType)
  BY <1>1, ItemsTyped DEF WorkInv, AtWork, TaskItems
<1>3. \A i \in DOMAIN TaskItems(w) : i < task[w].n
  <2>1. task[w].n \in Nat \ {0}
    BY DEF WorkInv, TaskRecord
  <2> QED
    BY <1>1, <1>2, <2>1
<1>4. \A i \in DOMAIN TaskItems(w) : Noted(TaskItems(w)[i])
  BY <1>1, <1>3 DEF CacheInv, PassedNoted, Passed, TaskItems
<1>5. ASSUME NEW m \in AddedAnyway(done'), m \notin AddedAnyway(done)
      PROVE  m[2] \in cache
  <2>1. m \in (ToSet(IndexOrder) \cap Kept) \X Kept
    BY DEF AddedAnyway, LastingAdditions
  <2>2. \A v \in 1..Len(Chain[task[w].block]) :
           \E i \in ToSet(Items[task[w].block][v]) : Adds(i, m)
    BY <1>1, <1>5 DEF AddedAnyway, LastingAdditions
  <2>3. task[w].ver \in 1..Len(Chain[task[w].block])
    BY <1>1 DEF WorkInv, AtWork
  <2>4. PICK i \in DOMAIN TaskItems(w) : Adds(TaskItems(w)[i], m)
    BY <2>2, <2>3 DEF TaskItems, ToSet
  <2> QED
    BY <1>4, <2>1, <2>4 DEF Noted
<1> QED
  BY <1>1, <1>5 DEF CacheInv, ReadSoFar

LEMMA CacheInit == ASSUME Init PROVE CacheInv
<1>1. boot.stage = "registry" /\ boot.unread = IndexOrder
  BY DEF Init, AtStart
<1>2. \A w \in Worker : task[w].pc = "idle"
  BY DEF Init, NoTask
<1> QED
  BY <1>1, <1>2 DEF CacheInv, ReadSoFar, ListsApplied, PassedNoted, Passed

LEMMA CacheNext ==
  ASSUME WorkInv, TypeOK, ReachInv, CacheInv, [Next]_vars
  PROVE  CacheInv'
<1>1. CASE UNCHANGED <<cache, boot, task, done>>
  <2>1. \A item : Noted(item) => Noted(item)'
    BY <1>1 DEF Noted
  <2>2. ReadSoFar'
    BY <1>1, ReadSoFarKept DEF CacheInv
  <2>3. PassedNoted'
    BY <1>1, PassedNotedKept DEF CacheInv
  <2> QED
    BY <1>1, <2>2, <2>3 DEF CacheInv, ListsApplied
<1>2. CASE BootRegistry \/ BootIndex \/ BootLists \/ BootBounds
  BY <1>2, BootKeeps
<1>3. CASE Restart
  BY <1>3, RestartKeeps
<1>4. ASSUME NEW w \in Worker,
             Begin(w) \/ Filter(w) \/ Ignore(w) \/ Accept(w) \/ Publish(w)
      PROVE  CacheInv'
  <2>1. UNCHANGED <<boot, done>> /\ (UNCHANGED cache \/ \E u \in Worker : Accept(u))
    BY <1>4 DEF Begin, Filter, Ignore, Accept, Publish, startVars
  <2>2. Kept \cap cache \subseteq cache'
    BY <2>1, KeptStays
  <2>3. ReadSoFar'
    BY <2>1, <2>2, ReadSoFarKept DEF CacheInv
  <2>4. ListsApplied'
    BY <2>1, <2>2 DEF CacheInv, ListsApplied
  <2>5. PassedNoted'
    BY <1>4, BeginKeeps, FilterKeeps, IgnoreKeeps, AcceptKeeps, PublishKeeps DEF CacheInv
  <2> QED
    BY <2>3, <2>4, <2>5 DEF CacheInv
<1>5. ASSUME NEW w \in Worker, DecodeError(w) \/ PublishUnacked(w) \/ Fail(w) \/ Finish(w)
      PROVE  CacheInv'
  <2>1. UNCHANGED <<boot, cache>> /\ GiveUp(w) /\ (UNCHANGED done \/ Finish(w))
    BY <1>5 DEF DecodeError, PublishUnacked, Fail, Finish, startVars
  <2>2. ReadSoFar'
    BY <2>1, FinishKeeps, ReadSoFarKept DEF CacheInv
  <2>3. ListsApplied'
    BY <2>1 DEF CacheInv, ListsApplied
  <2>4. PassedNoted'
    BY <2>1, GiveUpKeeps DEF CacheInv
  <2> QED
    BY <2>2, <2>3, <2>4 DEF CacheInv
<1>6. CASE Mine \/ Reorg \/ WindowPasses
  BY <1>1, <1>6 DEF Mine, Reorg, WindowPasses, startVars
<1>7. CASE UNCHANGED vars
  BY <1>1, <1>7 DEF vars, startVars
<1> QED
  BY <1>2, <1>3, <1>4, <1>5, <1>6, <1>7 DEF Next

LEMMA CacheInvHolds ==
  ASSUME WorkInv, TypeOK, CacheInv
  PROVE  IndexedAddressesCached
<1> SUFFICES ASSUME boot.stage = "up",
                    NEW a \in Kept,
                    a \in Bootstrapped(LastingMembers) \union {m[2] : m \in AddedAnyway(done)}
             PROVE  a \in cache
  BY DEF IndexedAddressesCached
<1>1. /\ Kept \cap (Entries \union Watchlist) \subseteq cache
      /\ \A m \in LastingMembers : m[2] # ZeroAddress => Kept \cap Found(m) \subseteq cache
      /\ \A m \in AddedAnyway(done) : m[2] \in cache
  <2>1. boot.unread = <<>>
    BY DEF CacheInv, ListsApplied
  <2>2. ToSet(boot.unread) = {}
    BY <2>1 DEF ToSet
  <2> QED
    BY <2>2 DEF CacheInv, ReadSoFar, ListsApplied
<1>2. CASE a \in Entries \union Watchlist
  BY <1>1, <1>2
<1>3. CASE \E m \in LastingMembers : a = m[2]
  BY <1>1, <1>3 DEF Found, Kept
<1>4. CASE \E m \in LastingMembers : m[1] \in PoolIndexes /\ m[2] # ZeroAddress /\ a \in Parts[m[2]]
  BY <1>1, <1>4 DEF Found
<1>5. CASE a \in {m[2] : m \in AddedAnyway(done)}
  BY <1>1, <1>5
<1>6. ASSUME a \in Bootstrapped(LastingMembers)
      PROVE  a \in cache
  <2> DEFINE pools   == {p \in LastingMembers : p[1] \in PoolIndexes /\ p[2] # ZeroAddress}
             parts   == UNION {Parts[m[2]] : m \in pools}
             members == {m[2] : m \in LastingMembers}
  <2>1. Bootstrapped(LastingMembers)
          = (Entries \union Watchlist \union members \union parts) \ (Blacklist \union {ZeroAddress})
    BY DEF Bootstrapped
  <2>2. a \in parts => \E m \in pools : a \in Parts[m[2]]
    OBVIOUS
  <2>3. a \in parts => a \in cache
    BY <2>2, <1>4
  <2>4. a \in members => a \in cache
    BY <1>3
  <2> HIDE DEF parts, members
  <2> QED
    BY <1>2, <1>6, <2>1, <2>3, <2>4
<1> QED
  BY <1>5, <1>6

\* What bootstrap finds in the indexes, and what the processed blocks add to
\* them, is cached while the service is up, unless some block takes it out.
THEOREM CacheIsComplete == Spec => []IndexedAddressesCached
<1>1. Init => CacheInv /\ ReachInv
  BY CacheInit, ReachInit
<1>2. WorkInv /\ TypeOK /\ ReachInv /\ CacheInv /\ [Next]_vars => CacheInv' /\ ReachInv'
  BY CacheNext, ReachNext
<1>3. WorkInv /\ TypeOK /\ CacheInv => IndexedAddressesCached
  BY CacheInvHolds
<1>4. Init => WorkInv
  BY WorkInit
<1>5. WorkInv /\ [Next]_vars => WorkInv'
  BY WorkNext
<1>6. Spec => []TypeOK
  BY PipelineTypes
<1> QED
  BY <1>1, <1>2, <1>3, <1>4, <1>5, <1>6, PTL DEF Spec
=============================================================================
