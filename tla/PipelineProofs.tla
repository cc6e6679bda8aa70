--------------------------- MODULE PipelineProofs ---------------------------
(***************************************************************************)
(* Proofs about the stream of the event pipeline: what deduplication by    *)
(* MsgID may drop and what it must drop, for every chain, any number of    *)
(* workers, and whatever fails, restarts or is replaced.                   *)
(***************************************************************************)
EXTENDS PipelineProperties, TLAPS

(***************************************************************************)
(* The work of the workers: whoever holds a block holds a version of it.   *)
(***************************************************************************)
TaskRecord == [pc : {"idle", "filter", "handle", "publish"},
               block : Nat, ver : Nat, n : Nat \ {0}, seen : SUBSET Nat]

AtWork(t) == t.block \in Block /\ t.ver \in 1..Len(Chain[t.block])

WorkInv ==
  /\ head \in Block
  /\ canon \in [Block -> Nat] /\ \A b \in Block : canon[b] \in 1..Len(Chain[b])
  /\ boot \in [stage : {"registry", "indexes", "bounds", "up"}, unread : Seq(Entries)]
  /\ floor \in 0..head /\ (boot.stage = "up" => floor # 0)
  /\ done \subseteq Nat
  /\ task \in [Worker -> TaskRecord]
  /\ \A w \in Worker : task[w].pc # "idle" => AtWork(task[w])

LEMMA ItemIsListed ==
  ASSUME NEW b \in Block, NEW v \in 1..Len(Chain[b]), NEW i \in DOMAIN Items[b][v]
  PROVE  Items[b][v][i] \in ItemsIn(Block)
<1> DEFINE versions(c) == {ToSet(Items[c][u]) : u \in 1..Len(Chain[c])}
<1>1. Items[b][v][i] \in ToSet(Items[b][v])
  BY DEF ToSet
<1>2. ToSet(Items[b][v]) \in versions(b)
  OBVIOUS
<1>3. Items[b][v][i] \in UNION versions(b)
  BY <1>1, <1>2
<1>4. ItemsIn(Block) = UNION {UNION versions(c) : c \in Block}
  BY DEF ItemsIn
<1> QED
  BY <1>3, <1>4

\* What a worker comes to is an item of its block, and its event an event of
\* the chain.
LEMMA ItemIsEvent ==
  ASSUME WorkInv, NEW w \in Worker, NEW pc, pc # "idle", AtItem(w, pc)
  PROVE  Item(w) \in ItemsIn(Block) /\ EventOf(Item(w)) \in Event
<1>1. task[w].block \in Block /\ task[w].ver \in 1..Len(Chain[task[w].block])
  BY DEF WorkInv, AtItem, AtWork
<1>2. task[w].n \in DOMAIN TaskItems(w)
  BY DEF AtItem
<1>3. Item(w) \in ItemsIn(Block)
  BY <1>1, <1>2, ItemIsListed DEF Item, TaskItems
<1> QED
  BY <1>3 DEF Event

LEMMA WorkInit == Init => WorkInv
  BY PipelineAssumption DEF Init, WorkInv, TaskRecord, Block, NoTask, AtStart

\* A worker's record is replaced.
LEMMA NewRecord ==
  ASSUME WorkInv, UNCHANGED <<chainVars, startVars>>, done' \subseteq Nat, NEW w \in Worker,
         NEW t \in TaskRecord,
         t.pc # "idle" => AtWork(t),
         task' = [task EXCEPT ![w] = t]
  PROVE  WorkInv'
<1>1. task' \in [Worker -> TaskRecord]
  BY DEF WorkInv
<1>2. \A u \in Worker : task'[u] = IF u = w THEN t ELSE task[u]
  BY DEF WorkInv
<1>3. \A u \in Worker : task'[u].pc # "idle" => AtWork(task'[u])
  BY <1>2 DEF WorkInv
<1> QED
  BY <1>1, <1>3 DEF WorkInv, chainVars, startVars

\* A worker goes on with its block, or drops it.
LEMMA GoesOn ==
  ASSUME WorkInv, NEW w \in Worker, UNCHANGED <<chainVars, startVars>>, done' \subseteq Nat,
         \/ GiveUp(w)
         \/ task[w].pc # "idle" /\ NextItem(w)
         \/ /\ task[w].pc # "idle"
            /\ \E pc \in {"handle", "publish"} : task' = [task EXCEPT ![w].pc = pc]
  PROVE  WorkInv'
<1> DEFINE old == task[w]
<1>1. old \in TaskRecord
  BY DEF WorkInv
<1>2. CASE GiveUp(w)
  <2>1. NoTask \in TaskRecord /\ NoTask.pc = "idle"
    BY DEF NoTask, TaskRecord
  <2>2. task' = [task EXCEPT ![w] = NoTask]
    BY <1>2 DEF GiveUp
  <2> QED
    BY <2>1, <2>2, NewRecord
<1>3. ASSUME old.pc # "idle",
             NEW t \in TaskRecord, t.block = old.block, t.ver = old.ver,
             task' = [task EXCEPT ![w] = t]
      PROVE  WorkInv'
  <2>1. AtWork(old)
    BY <1>3 DEF WorkInv
  <2>2. AtWork(t)
    BY <1>3, <2>1 DEF AtWork
  <2> QED
    BY <1>3, <2>2, NewRecord
<1>4. CASE old.pc # "idle" /\ NextItem(w)
  <2> DEFINE begun == [old EXCEPT !.pc = "filter"]
             t == [begun EXCEPT !.n = @ + 1]
  <2>1. begun \in TaskRecord /\ begun.block = old.block /\ begun.ver = old.ver
    BY <1>1 DEF TaskRecord
  <2>2. task' = [task EXCEPT ![w] = t]
    BY <1>4 DEF NextItem, WorkInv, TaskRecord
  <2> HIDE DEF begun
  <2>3. t \in TaskRecord /\ t.block = begun.block /\ t.ver = begun.ver
    BY <2>1 DEF TaskRecord
  <2> HIDE DEF t
  <2> QED
    BY <1>3, <1>4, <2>1, <2>2, <2>3
<1>5. CASE /\ old.pc # "idle"
           /\ \E pc \in {"handle", "publish"} : task' = [task EXCEPT ![w].pc = pc]
  <2>1. PICK pc \in {"handle", "publish"} : task' = [task EXCEPT ![w].pc = pc]
    BY <1>5
  <2> DEFINE t == [old EXCEPT !.pc = pc]
  <2>2. task' = [task EXCEPT ![w] = t]
    BY <2>1
  <2>3. t \in TaskRecord /\ t.block = old.block /\ t.ver = old.ver
    BY <1>1, <2>1 DEF TaskRecord
  <2> HIDE DEF t
  <2> QED
    BY <1>3, <1>5, <2>2, <2>3
<1> QED
  BY <1>2, <1>4, <1>5

LEMMA WorkNext == WorkInv /\ [Next]_vars => WorkInv'
<1> SUFFICES ASSUME WorkInv, [Next]_vars PROVE WorkInv'
  OBVIOUS
<1> USE DEF chainVars, startVars
<1>1. CASE UNCHANGED vars
  BY <1>1 DEF vars, WorkInv, AtWork
<1>2. CASE Mine
  BY <1>2, PipelineAssumption DEF Mine, WorkInv, Block, AtWork
<1>3. CASE Reorg
  <2>1. PICK k \in 1..head :
           canon' = [b \in Block |-> IF b \in k..head /\ canon[b] < Len(Chain[b])
                                    THEN canon[b] + 1 ELSE canon[b]]
    BY <1>3 DEF Reorg
  <2>2. \A b \in Block : Len(Chain[b]) \in Nat
    BY PipelineAssumption DEF Block
  <2>3. canon' \in [Block -> Nat] /\ \A b \in Block : canon'[b] \in 1..Len(Chain[b])
    BY <2>1, <2>2 DEF WorkInv
  <2> QED
    BY <1>3, <2>3 DEF Reorg, WorkInv, AtWork
<1>4. CASE BootRegistry \/ BootIndex \/ BootLists
  <2>1. boot' \in [stage : {"registry", "indexes", "bounds", "up"}, unread : Seq(Entries)]
    <3>1. boot.unread # <<>> => Tail(boot.unread) \in Seq(Entries)
      BY DEF WorkInv
    <3> QED
      BY <1>4, <3>1 DEF BootRegistry, BootIndex, BootLists, WorkInv
  <2>2. boot'.stage # "up"
    BY <1>4 DEF BootRegistry, BootIndex, BootLists, WorkInv
  <2>3. UNCHANGED <<chainVars, floor, task, done>>
    BY <1>4 DEF BootRegistry, BootIndex, BootLists
  <2> QED
    BY <2>1, <2>2, <2>3 DEF WorkInv, AtWork
<1>5. CASE BootBounds
  <2>1. boot' \in [stage : {"registry", "indexes", "bounds", "up"}, unread : Seq(Entries)]
    BY <1>5 DEF BootBounds, WorkInv
  <2>2. floor' \in 0..head /\ floor' # 0
    BY <1>5, PipelineAssumption DEF BootBounds, WorkInv, Block
  <2>3. UNCHANGED <<chainVars, task, done>>
    BY <1>5 DEF BootBounds
  <2> QED
    BY <2>1, <2>2, <2>3 DEF WorkInv, AtWork
<1>6. CASE Restart
  <2>1. boot' \in [stage : {"registry", "indexes", "bounds", "up"}, unread : Seq(Entries)]
    BY <1>6, PipelineAssumption DEF Restart, AtStart
  <2>2. boot'.stage # "up"
    BY <1>6 DEF Restart, AtStart
  <2>3. UNCHANGED <<chainVars, floor, done>> /\ task' = [w \in Worker |-> NoTask]
    BY <1>6 DEF Restart
  <2> QED
    BY <2>1, <2>2, <2>3 DEF WorkInv, TaskRecord, NoTask, AtWork
<1>7. CASE WindowPasses
  BY <1>7 DEF WindowPasses, WorkInv, AtWork
<1>8. ASSUME NEW w \in Worker, Begin(w)
      PROVE  WorkInv'
  <2>1. PICK b \in floor..head : task' = [task EXCEPT ![w] = TaskOf(b)]
    BY <1>8 DEF Begin
  <2>2. b \in Block
    BY <1>8, PipelineAssumption DEF Begin, WorkInv, Block
  <2>3. UNCHANGED <<chainVars, startVars, done>>
    BY <1>8 DEF Begin
  <2>4. TaskOf(b) \in TaskRecord /\ AtWork(TaskOf(b))
    BY <2>2 DEF TaskOf, TaskRecord, WorkInv, AtWork, Block
  <2> HIDE DEF TaskOf
  <2> QED
    BY <2>1, <2>3, <2>4, NewRecord DEF WorkInv
<1>9. ASSUME NEW w \in Worker, Filter(w) \/ Ignore(w) \/ DecodeError(w) \/ Accept(w)
      PROVE  WorkInv'
  <2>1. done' \subseteq Nat
    BY <1>9 DEF Filter, Ignore, DecodeError, Accept, WorkInv
  <2> QED
    BY <1>9, <2>1, GoesOn DEF Filter, Ignore, DecodeError, Accept, AtItem
<1>10. ASSUME NEW w \in Worker, Publish(w) \/ PublishUnacked(w) \/ Fail(w) \/ Finish(w)
       PROVE  WorkInv'
  <2>1. done' \subseteq done \union {task[w].block} /\ task[w].block \in Nat
    BY <1>10 DEF Publish, PublishUnacked, Fail, Finish, WorkInv, TaskRecord
  <2>2. done' \subseteq Nat
    BY <2>1 DEF WorkInv
  <2> QED
    BY <1>10, <2>2, GoesOn DEF Publish, PublishUnacked, Fail, Finish, AtItem
<1> QED
  BY <1>1, <1>2, <1>3, <1>4, <1>5, <1>6, <1>7, <1>8, <1>9, <1>10 DEF Next

(***************************************************************************)
(* The stream.                                                             *)
(***************************************************************************)
\* A message is added to the stream.
LEMMA StoredOnce ==
  ASSUME NEW e, IsABag(stored), stored' = stored (+) SetToBag({e})
  PROVE  /\ IsABag(stored')
         /\ BagToSet(stored') = BagToSet(stored) \union {e}
         /\ \A f \in BagToSet(stored) : f # e => stored'[f] = stored[f]
         /\ e \notin BagToSet(stored) => stored'[e] = 1
  BY DEF IsABag, BagToSet, SetToBag, (+)

\* What the duplicate window remembers is in the stream.
StreamInv ==
  /\ IsABag(stored) /\ BagToSet(stored) \subseteq Event
  /\ \A id \in recent : \E e \in BagToSet(stored) : MsgID(e) = id

LEMMA StreamInit == Init => StreamInv /\ stored = EmptyBag /\ recent = {} /\ acked = {}
  BY DEF Init, NatsInit, StreamInv, EmptyBag, SetToBag, IsABag, BagToSet

LEMMA ReceiveKeeps ==
  ASSUME StreamInv, NEW e \in Event, Receive(e)
  PROVE  StreamInv' /\ BagToSet(stored) \subseteq BagToSet(stored')
<1>1. CASE MsgID(e) \in recent
  BY <1>1 DEF Receive, natsVars, StreamInv
<1>2. CASE MsgID(e) \notin recent
  <2>1. stored' = stored (+) SetToBag({e}) /\ recent' = recent \union {MsgID(e)}
    BY <1>2 DEF Receive
  <2>2. IsABag(stored') /\ BagToSet(stored') = BagToSet(stored) \union {e}
    BY <2>1, StoredOnce DEF StreamInv
  <2> QED
    BY <2>1, <2>2 DEF StreamInv
<1> QED
  BY <1>1, <1>2

\* Only a publication adds to the stream, only the passing of the window takes
\* from what it remembers.
LEMMA StreamSteps ==
  ASSUME [Next]_vars
  PROVE  \/ UNCHANGED <<stored, recent, acked>>
         \/ WindowPasses
         \/ \E w \in Worker : Publish(w) \/ PublishUnacked(w)
<1> USE DEF natsVars
<1>1. CASE UNCHANGED vars
  BY <1>1 DEF vars
<1>2. CASE Mine \/ Reorg \/ BootRegistry \/ BootIndex \/ BootLists \/ BootBounds \/ Restart
  BY <1>2 DEF Mine, Reorg, BootRegistry, BootIndex, BootLists, BootBounds, Restart
<1>3. CASE \E w \in Worker : \/ Begin(w) \/ Filter(w) \/ Ignore(w) \/ DecodeError(w)
                             \/ Accept(w) \/ Fail(w) \/ Finish(w)
  BY <1>3 DEF Begin, Filter, Ignore, DecodeError, Accept, Fail, Finish
<1> QED
  BY <1>1, <1>2, <1>3 DEF Next

LEMMA StreamNext == WorkInv /\ StreamInv /\ [Next]_vars => StreamInv'
<1> SUFFICES ASSUME WorkInv, StreamInv, [Next]_vars PROVE StreamInv'
  OBVIOUS
<1>1. CASE UNCHANGED <<stored, recent, acked>>
  BY <1>1 DEF StreamInv
<1>2. CASE WindowPasses
  BY <1>2 DEF WindowPasses, Expire, StreamInv
<1>3. ASSUME NEW w \in Worker, Publish(w) \/ PublishUnacked(w)
      PROVE  StreamInv'
  <2>1. AtItem(w, "publish") /\ Receive(EventOf(Item(w)))
    BY <1>3 DEF Publish, PublishUnacked
  <2>2. EventOf(Item(w)) \in Event
    BY <2>1, ItemIsEvent
  <2> QED
    BY <2>1, <2>2, ReceiveKeeps
<1> QED
  BY <1>1, <1>2, <1>3, StreamSteps

(***************************************************************************)
(* An acknowledged event is in the stream.                                 *)
(***************************************************************************)
\* Of an event that is alone with its MsgID the server drops only repetitions.
LEMMA ReceivedIsStored ==
  ASSUME StreamInv, NEW e \in Event, Alone(e), Receive(e)
  PROVE  e \in BagToSet(stored')
<1>1. CASE MsgID(e) \in recent
  <2>1. PICK f \in BagToSet(stored) : MsgID(f) = MsgID(e)
    BY <1>1 DEF StreamInv
  <2>2. f = e
    BY <2>1 DEF Alone, StreamInv
  <2> QED
    BY <1>1, <2>2 DEF Receive, natsVars
<1>2. CASE MsgID(e) \notin recent
  BY <1>2, StoredOnce DEF Receive, StreamInv
<1> QED
  BY <1>1, <1>2

LEMMA AckedNext ==
  ASSUME DistinctIDs, WorkInv, StreamInv, NoneSuppressed, [Next]_vars
  PROVE  NoneSuppressed'
<1>1. CASE UNCHANGED <<stored, recent, acked>>
  BY <1>1 DEF NoneSuppressed
<1>2. CASE WindowPasses
  BY <1>2 DEF WindowPasses, Expire, NoneSuppressed
<1>3. ASSUME NEW w \in Worker, Publish(w) \/ PublishUnacked(w)
      PROVE  NoneSuppressed'
  <2>1. AtItem(w, "publish") /\ Receive(EventOf(Item(w)))
    BY <1>3 DEF Publish, PublishUnacked
  <2>2. EventOf(Item(w)) \in Event
    BY <2>1, ItemIsEvent
  <2>3. BagToSet(stored) \subseteq BagToSet(stored') /\ EventOf(Item(w)) \in BagToSet(stored')
    BY <2>1, <2>2, ReceiveKeeps, ReceivedIsStored DEF DistinctIDs
  <2>4. acked' \subseteq acked \union {EventOf(Item(w))}
    BY <1>3 DEF Publish, PublishUnacked
  <2> QED
    BY <2>3, <2>4 DEF NoneSuppressed
<1> QED
  BY <1>1, <1>2, <1>3, StreamSteps

\* When no two events of the chain share a MsgID, an event whose publication
\* was acknowledged is in the stream: for every chain and every order of
\* blocks, through lost acknowledgements, restarts, replaced blocks and MsgIDs
\* that leave the duplicate window.
THEOREM AcknowledgedIsStored == DistinctIDs => (Spec => []NoneSuppressed)
<1> SUFFICES ASSUME DistinctIDs PROVE Spec => []NoneSuppressed
  OBVIOUS
<1> DEFINE IInv == WorkInv /\ StreamInv /\ NoneSuppressed
<1>1. Init => IInv
  BY WorkInit, StreamInit DEF NoneSuppressed
<1>2. IInv /\ [Next]_vars => IInv'
  BY WorkNext, StreamNext, AckedNext
<1> QED
  BY <1>1, <1>2, PTL DEF Spec
=============================================================================
