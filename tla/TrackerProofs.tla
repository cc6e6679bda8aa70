--------------------------- MODULE TrackerProofs ---------------------------
(***************************************************************************)
(* Proofs about the tracker, for every value of the constants that the     *)
(* assumptions of the modules admit.                                       *)
(***************************************************************************)
EXTENDS TrackerProperties, SequenceTheorems, TLAPS

USE EnvironmentAssumption, ProcessorAssumption, BackfillAssumption, TrackerAssumption

(***************************************************************************)
(* Types.  One lemma per component, each for the steps of that component.  *)
(***************************************************************************)
\* The lower bound always reads as a block number.
LEMMA LowerBoundType == ASSUME lower \in OptBlock PROVE GetLowerBound \in Block
  BY DEF OptBlock, GetLowerBound, None, Block

\* The two idle records are well typed.
LEMMA IdleType == Idle \in Job /\ Off \in Run
<1>1. 0 \in Block /\ 0 \in Version /\ 1 \in 1..(EventCount + 1)
  BY DEF Block, Version
<1> QED
  BY <1>1 DEF Idle, Job, Off, Run

\* The initial state is well typed.
LEMMA TypeInit == Init => TypeOK
<1> SUFFICES ASSUME Init PROVE TypeOK
  OBVIOUS
<1>1. EnvTypeOK
  BY DEF Init, EnvInit, EnvTypeOK, Block, Version
<1>2. job \in [Worker -> Job] /\ bf \in Run
  BY IdleType DEF Init, ProcessorInit, BackfillInit
<1>3. queue \in Seq(Task) /\ wire \in Seq(Block)
  BY DEF Init, PoolInit, SyncerInit
<1>4. /\ lower \in OptBlock /\ upper \in OptBlock /\ setting \in OptBlock
      /\ latest \in OptBlock /\ bootLatest \in OptBlock
  BY DEF Init, DBInit, SyncerInit, OptBlock
<1>5. marked \in SUBSET Block /\ stream \in SUBSET Event
  BY DEF Init, DBInit, ProcessorInit
<1> QED
  BY <1>1, <1>2, <1>3, <1>4, <1>5
  DEF Init, TypeOK, DBInit, PoolInit, SyncerInit, BackfillInit, SubState, Phase

\* The steps of a worker, also those that fail, keep the types.
LEMMA TypeWorker ==
  ASSUME TypeOK, NEW w \in Worker, ProcessorStep(w) \/ ProcessorFault(w)
  PROVE  TypeOK'
<1> USE DEF TypeOK, envVars, dbVars, poolVars, procVars, syncVars, bfVars, MainIdle
<1> UNCHANGED <<syncVars, bfVars, phase, bootLatest>>
  BY DEF ProcessorStep, ProcessorFault
<1>1. CASE Take(w)
  <2>1. Head(queue) \in Task /\ Tail(queue) \in Seq(Task)
    BY <1>1 DEF Take
  <2>2. job' \in [Worker -> Job]
    BY <1>1, <2>1, IdleType DEF Take, Job, Task
  <2> QED
    BY <1>1, <2>1, <2>2 DEF Take, EnvTypeOK
<1>2. CASE Fetch(w)
  <2>1. job[w] \in Job /\ canon[job[w].block] \in Version
    BY DEF EnvTypeOK, Job
  <2>2. job' \in [Worker -> Job]
    BY <1>2, <2>1 DEF Fetch, Job
  <2> QED
    BY <1>2, <2>2 DEF Fetch, EnvTypeOK
<1>3. CASE CanSend(w) /\ Publish(w) /\ UNCHANGED <<head, canon, dbVars, poolVars>>
           /\ (UNCHANGED faults \/ Fault)
           /\ (job' = [job EXCEPT ![w] = Idle] \/ job' = [job EXCEPT ![w].next = @ + 1])
  <2>1. job[w] \in Job /\ job[w].next \in 1..EventCount
    BY <1>3 DEF CanSend, Job
  <2>2. stream' \in SUBSET Event
    BY <1>3, <2>1 DEF Publish, Event, Job
  <2>3. job[w].next + 1 \in 1..(EventCount + 1)
    BY <2>1
  <2>4. job' \in [Worker -> Job]
    <3>1. CASE job' = [job EXCEPT ![w] = Idle]
      BY <3>1, IdleType
    <3>2. CASE job' = [job EXCEPT ![w].next = @ + 1]
      BY <3>2, <2>1, <2>3 DEF Job
    <3> QED
      BY <3>1, <3>2, <1>3
  <2> QED
    BY <1>3, <2>2, <2>4 DEF EnvTypeOK, Fault
<1>4. CASE Undecoded(w) \/ NotYet(w) \/ Fail(w)
  <2>1. job' \in [Worker -> Job]
    BY <1>4, IdleType DEF Undecoded, NotYet, Fail
  <2> QED
    BY <1>4, <2>1 DEF Undecoded, NotYet, Fail, EnvTypeOK, Fault
<1>5. CASE Mark(w)
  <2>1. job' \in [Worker -> Job]
    BY <1>5, IdleType DEF Mark
  <2>2. job[w].block \in Block
    BY DEF Job
  <2> QED
    BY <1>5, <2>1, <2>2 DEF Mark, SetValue, EnvTypeOK
<1> QED
  BY <1>1, <1>2, <1>3, <1>4, <1>5
  DEF ProcessorStep, ProcessorFault, WorkerStep, WorkerFault, Send, SendUnacked

\* The steps of the syncer keep the types.
LEMMA TypeSyncer == ASSUME TypeOK, SyncerStep \/ SyncerFault PROVE TypeOK'
<1> USE DEF TypeOK, envVars, dbVars, poolVars, procVars, syncVars, bfVars, MainIdle
<1>1. CASE ConnectionLost \/ WriteFailed
  <2>1. faults' \in 0..MaxFaults
    BY <1>1 DEF ConnectionLost, WriteFailed, Fault, EnvTypeOK
  <2>2. sub' \in SubState /\ wire' \in Seq(Block) /\ setting' \in OptBlock
    <3>1. CASE Disconnect
      BY <3>1 DEF Disconnect, SubState
    <3>2. CASE RaiseFails
      BY <3>2 DEF RaiseFails, OptBlock
    <3> QED
      BY <1>1, <3>1, <3>2 DEF ConnectionLost, WriteFailed
  <2> QED
    BY <1>1, <2>1, <2>2
    DEF ConnectionLost, Disconnect, WriteFailed, RaiseFails, EnvTypeOK
<1>2. CASE SyncerStep /\ (SyncStart \/ Subscribe) /\ UNCHANGED <<dbVars, poolVars>>
  BY <1>2 DEF SyncerStep, SyncStart, Subscribe, EnvTypeOK, SubState
<1>3. CASE SyncerStep /\ QueueHeader
  <2>1. Head(wire) \in Block /\ Tail(wire) \in Seq(Block)
    BY <1>3 DEF QueueHeader
  <2>2. [block |-> Head(wire), src |-> "sync"] \in Task
    BY <2>1 DEF Task, Source
  <2>3. queue' \in Seq(Task)
    BY <1>3, <2>2 DEF QueueHeader, Push
  <2>4. setting' \in OptBlock /\ latest' \in OptBlock /\ wire' \in Seq(Block)
    BY <1>3, <2>1 DEF QueueHeader, OptBlock
  <2> QED
    BY <1>3, <2>3, <2>4 DEF SyncerStep, QueueHeader, EnvTypeOK
<1>4. CASE SyncerStep /\ RaiseUpper
  <2>1. upper' \in OptBlock /\ setting' \in OptBlock
    BY <1>4 DEF RaiseUpper, SetUpperBound, OptBlock
  <2> QED
    BY <1>4, <2>1 DEF SyncerStep, RaiseUpper, EnvTypeOK
<1> QED
  BY <1>1, <1>2, <1>3, <1>4 DEF SyncerStep, SyncerFault

\* What Run finds and queues are blocks.
LEMMA MissingType ==
  ASSUME lower \in OptBlock, NEW hi \in Block, NEW k \in Nat
  PROVE  LowestOf(Missing(GetLowerBound, hi), k) \subseteq Block
  BY LowerBoundType DEF LowestOf, Missing, Block

\* The steps of the backfiller keep the types.
LEMMA TypeBackfill == ASSUME TypeOK, BackfillStep \/ BackfillReturns PROVE TypeOK'
<1> USE DEF TypeOK, envVars, dbVars, poolVars, procVars, syncVars, bfVars, MainIdle
<1>1. CASE BackfillReturns
  BY <1>1, IdleType DEF BackfillReturns, BackfillExit, EnvTypeOK
<1>2. BetweenRuns \in Run
  BY IdleType DEF BetweenRuns, Run
<1>3. CASE BackfillStep /\ (Tick \/ ReadBounds \/ Scan \/ ResetTicker) /\ UNCHANGED poolVars
  <2>1. CASE Tick
    <3>1. bf' \in Run
      BY <2>1, IdleType DEF Tick, Run
    <3> QED
      BY <1>3, <2>1, <3>1 DEF BackfillStep, Tick, EnvTypeOK
  <2>2. CASE ReadBounds
    <3>1. GetLowerBound <= RangeEnd(bf.skip) => RangeEnd(bf.skip) \in Block
      BY LowerBoundType DEF RangeEnd, GetUpperBound, OptBlock, None, Block
    <3>2. bf' \in Run
      BY <1>2, <2>2, <3>1 DEF ReadBounds, Run
    <3> QED
      BY <1>3, <2>2, <3>2 DEF BackfillStep, ReadBounds, EnvTypeOK
  <2>3. CASE Scan
    <3>1. LowestOf(Missing(GetLowerBound, bf.hi), BatchSize) \subseteq Block
      BY MissingType DEF Run
    <3> DEFINE missing == Missing(GetLowerBound, bf.hi)
               many    == Cardinality(missing) > BatchSize
    <3>2. many \in BOOLEAN
      OBVIOUS
    <3>3. \/ bf' = BetweenRuns
          \/ bf' = [bf EXCEPT !.pc = "push", !.todo = LowestOf(missing, BatchSize),
                              !.many = many]
      BY <2>3 DEF Scan
    <3> HIDE DEF many
    <3>4. bf' \in Run
      BY <1>2, <3>1, <3>2, <3>3 DEF Run
    <3> QED
      BY <1>3, <2>3, <3>4 DEF BackfillStep, Scan, EnvTypeOK
  <2>4. CASE ResetTicker
    BY <1>2, <1>3, <2>4 DEF BackfillStep, ResetTicker, EnvTypeOK
  <2> QED
    BY <1>3, <2>1, <2>2, <2>3, <2>4
<1>4. CASE BackfillStep /\ PushMissing
  <2>1. PICK b \in bf.todo : /\ Push(b, "backfill")
                             /\ bf' = [bf EXCEPT !.todo = @ \ {b}]
    BY <1>4 DEF PushMissing
  <2>2. b \in Block /\ bf' \in Run
    BY <2>1 DEF Run
  <2>3. [block |-> b, src |-> "backfill"] \in Task
    BY <2>2 DEF Task, Source
  <2>4. queue' \in Seq(Task)
    BY <2>1, <2>3 DEF Push
  <2> QED
    BY <1>4, <2>2, <2>4 DEF BackfillStep, PushMissing, EnvTypeOK
<1> QED
  BY <1>1, <1>3, <1>4 DEF BackfillStep

\* The headers of the blocks from lo to hi are added to those on the wire.
LEMMA Announced ==
  ASSUME wire \in Seq(Block), NEW lo \in Block, NEW hi \in Block, lo <= hi, Announce(lo, hi)
  PROVE  /\ wire' \in Seq(Block)
         /\ \A i \in 1..Len(wire') : \/ i \in 1..Len(wire) /\ wire'[i] = wire[i]
                                     \/ i > Len(wire) /\ lo <= wire'[i] /\ wire'[i] <= hi
<1> DEFINE h == [i \in 1..(hi - lo + 1) |-> lo + i - 1]
<1>1. lo \in Nat /\ hi \in Nat /\ hi <= MaxBlock
  BY DEF Block
<1>2. hi - lo + 1 \in Nat /\ \A i \in 1..(hi - lo + 1) : lo + i - 1 \in lo..hi
  BY <1>1
<1>3. lo..hi \subseteq Block
  BY <1>1 DEF Block
<1>4. h \in Seq(Block) /\ Len(h) = hi - lo + 1 /\ \A i \in 1..Len(h) : h[i] \in lo..hi
  BY <1>2, <1>3
<1>5. wire' = wire \/ wire' = wire \o h
  BY DEF Announce
<1> HIDE DEF h
<1>6. /\ wire \o h \in Seq(Block) /\ Len(wire \o h) = Len(wire) + Len(h)
      /\ \A i \in 1..(Len(wire) + Len(h)) :
           (wire \o h)[i] = IF i <= Len(wire) THEN wire[i] ELSE h[i - Len(wire)]
  BY <1>4, ConcatProperties
<1>7. ASSUME wire' = wire \o h, NEW i \in 1..Len(wire')
      PROVE  \/ i \in 1..Len(wire) /\ wire'[i] = wire[i]
             \/ i > Len(wire) /\ lo <= wire'[i] /\ wire'[i] <= hi
  <2>1. Len(wire) \in Nat /\ Len(h) \in Nat /\ i \in 1..(Len(wire) + Len(h))
    BY <1>4, <1>6, <1>7
  <2>2. CASE i <= Len(wire)
    BY <1>6, <1>7, <2>1, <2>2
  <2>3. CASE i > Len(wire)
    <3>1. i - Len(wire) \in 1..Len(h) /\ wire'[i] = h[i - Len(wire)]
      BY <1>6, <1>7, <2>1, <2>3
    <3> QED
      BY <1>1, <1>4, <2>3, <3>1
  <2> QED
    BY <2>1, <2>2, <2>3
<1>8. CASE wire' = wire
  BY <1>8
<1> QED
  BY <1>5, <1>6, <1>7, <1>8

\* Start up, shutdown, crashes and the chain keep the types.
LEMMA TypeMain ==
  ASSUME TypeOK, BlockMined \/ BlockReplaced \/ Boot \/ Shutdown \/ MainFault
  PROVE  TypeOK'
<1> USE DEF TypeOK, envVars, dbVars, poolVars, procVars, syncVars, bfVars, MainIdle
<1>1. CASE BlockMined
  <2>1. head' \in Block
    BY <1>1 DEF BlockMined, Mine, EnvTypeOK, Block
  <2>2. head' <= head' /\ Announce(head', head')
    BY <1>1, <2>1 DEF BlockMined, Block
  <2>3. wire' \in Seq(Block)
    BY <2>1, <2>2, Announced
  <2> QED
    BY <1>1, <2>1, <2>3 DEF BlockMined, Mine, EnvTypeOK
<1>2. CASE BlockReplaced
  <2>1. PICK k \in Block : Reorg(k) /\ Announce(k, head)
    BY <1>2 DEF BlockReplaced
  <2>2. wire' \in Seq(Block)
    BY <2>1, Announced DEF Reorg, EnvTypeOK
  <2>3. \A b \in Block : b \in k..head => canon[b] + 1 \in Version
    BY <2>1 DEF Reorg, EnvTypeOK, Version
  <2>4. canon' \in [Block -> Version]
    BY <2>1, <2>3 DEF Reorg, EnvTypeOK
  <2> QED
    BY <1>2, <2>1, <2>2, <2>4 DEF BlockReplaced, Reorg, EnvTypeOK
<1>3. CASE Start
  BY <1>3 DEF Start, EnvTypeOK, Phase, Booting
<1>4. CASE AskLatest
  <2>1. bootLatest' \in OptBlock
    BY <1>4 DEF AskLatest, LatestAnswers, EnvTypeOK, OptBlock, Block
  <2> QED
    BY <1>4, <2>1 DEF AskLatest, EnvTypeOK, Phase, Booting
<1>5. CASE InitLower
  <2>1. lower' \in OptBlock
    BY <1>5 DEF InitLower, SetLowerBound, OptBlock
  <2> QED
    BY <1>5, <2>1 DEF InitLower, EnvTypeOK, Phase, Booting
<1>6. CASE InitUpper
  <2>1. upper' \in OptBlock /\ latest' \in OptBlock /\ bootLatest' \in OptBlock
    BY <1>6 DEF InitUpper, SetUpperBound, OptBlock
  <2>2. bf' \in Run
    BY <1>6, IdleType DEF InitUpper, Run
  <2> QED
    BY <1>6, <2>1, <2>2 DEF InitUpper, EnvTypeOK, Phase
<1>7. CASE Signal
  BY <1>7 DEF Signal, Fault, EnvTypeOK, Phase, Stopping
<1>8. CASE StopSyncer
  BY <1>8 DEF StopSyncer, SyncStop, EnvTypeOK, SubState, Phase, Stopping
<1>9. CASE StopBackfill
  BY <1>9 DEF StopBackfill, BackfillStop, EnvTypeOK, Phase, Stopping
<1>10. CASE StopPool \/ Drained \/ CloseDB
  BY <1>10 DEF StopPool, Drained, CloseDB, EnvTypeOK, Phase, Stopping
<1>11. CASE CleanupDB
  <2>1. marked' \in SUBSET Block
    BY <1>11 DEF CleanupDB, Cleanup
  <2> QED
    BY <1>11, <2>1 DEF CleanupDB, Cleanup, EnvTypeOK, Phase, Stopping
<1>12. CASE CleanupFailed
  BY <1>12 DEF CleanupFailed, Fault, EnvTypeOK, Phase, Stopping
<1>13. CASE Exit \/ Crash
  <2>1. ProcessGone /\ faults' \in 0..MaxFaults
    BY <1>13 DEF Exit, Crash, Fault, EnvTypeOK
  <2>2. queue' \in Seq(Task) /\ wire' \in Seq(Block)
    BY <2>1 DEF ProcessGone
  <2>3. job' \in [Worker -> Job] /\ bf' \in Run
    BY <2>1, IdleType DEF ProcessGone
  <2>4. setting' \in OptBlock /\ latest' \in OptBlock /\ bootLatest' \in OptBlock
    BY <2>1 DEF ProcessGone, OptBlock
  <2> QED
    BY <2>1, <2>2, <2>3, <2>4 DEF ProcessGone, EnvTypeOK, SubState, Phase
<1> QED
  BY <1>1, <1>2, <1>3, <1>4, <1>5, <1>6, <1>7, <1>8, <1>9, <1>10, <1>11, <1>12, <1>13
  DEF Boot, Shutdown, MainFault

LEMMA TypeStep == TypeOK /\ [Next]_vars => TypeOK'
<1> SUFFICES ASSUME TypeOK, [Next]_vars PROVE TypeOK'
  OBVIOUS
<1>1. CASE UNCHANGED vars
  BY <1>1 DEF TypeOK, EnvTypeOK, vars, envVars, dbVars, poolVars, procVars, syncVars, bfVars
<1> QED
  BY <1>1, TypeWorker, TypeSyncer, TypeBackfill, TypeMain DEF Next, Faulty

\* Every reachable state of the tracker is well typed.
THEOREM TypeCorrect == Spec => []TypeOK
  BY TypeInit, TypeStep, PTL DEF Spec

(***************************************************************************)
(* Delivery.                                                               *)
(***************************************************************************)
\* Outside the workers, the stream stays as it is, marks are only dropped (by
\* Cleanup, below the lower bound), and a job is left alone or forgotten.
Outside == \/ BlockMined \/ BlockReplaced \/ Boot \/ Shutdown \/ MainFault
           \/ SyncerStep \/ SyncerFault \/ BackfillStep \/ BackfillReturns

LEMMA OutsideFrame ==
  ASSUME Outside
  PROVE  /\ stream' = stream
         /\ marked' = marked \/ (CleanupDB /\ UNCHANGED job)
         /\ job' = job \/ job' = [w \in Worker |-> Idle]
<1> USE DEF dbVars, poolVars, procVars, syncVars, bfVars
<1>1. CASE BlockMined \/ BlockReplaced \/ Boot
  BY <1>1 DEF BlockMined, BlockReplaced, Boot, Start, AskLatest, InitLower, InitUpper
<1>2. CASE Shutdown \/ MainFault
  BY <1>2 DEF Shutdown, StopSyncer, StopBackfill, StopPool, Drained, CleanupDB, CloseDB,
              Exit, MainFault, Signal, Crash, CleanupFailed, ProcessGone
<1>3. CASE SyncerStep \/ SyncerFault
  BY <1>3 DEF SyncerStep, SyncerFault, ConnectionLost, WriteFailed, RaiseFails, QueueHeader, RaiseUpper
<1>4. CASE BackfillStep \/ BackfillReturns
  BY <1>4 DEF BackfillStep, BackfillReturns
<1> QED
  BY <1>1, <1>2, <1>3, <1>4 DEF Outside

LEMMA NextSplit ==
  ASSUME Next
  PROVE  Outside \/ \E w \in Worker : ProcessorStep(w) \/ ProcessorFault(w)
  BY DEF Next, Outside, Faulty

\* What was sent stays sent when the stream only grows.
LEMMA SentStable ==
  ASSUME stream \subseteq stream', NEW b, NEW v, NEW n, Sent(b, v, n)
  PROVE  Sent(b, v, n)'
  BY DEF Sent

\* A step of a worker fetches, sends, or leaves the worker with a new or an
\* idle job; the other workers' jobs are left alone.
LEMMA WorkerMoves ==
  ASSUME TypeOK, NEW w \in Worker, ProcessorStep(w) \/ ProcessorFault(w)
  PROVE  \/ Fetch(w) \/ Send(w)
         \/ /\ \A u \in Worker \ {w} : job'[u] = job[u]
            /\ job'[w].pc # "send" /\ job'[w].next = 1
<1>1. job \in [Worker -> Job]
  BY DEF TypeOK
<1>2. CASE Take(w)
  <2> DEFINE new == [Idle EXCEPT !.pc = "fetch", !.block = Head(queue).block]
  <2>1. new.pc = "fetch" /\ new.next = 1
    BY DEF Idle
  <2>2. job' = [job EXCEPT ![w] = new]
    BY <1>2 DEF Take
  <2> HIDE DEF new
  <2> QED
    BY <1>1, <2>1, <2>2
<1>3. CASE job' = [job EXCEPT ![w] = Idle]
  <2>1. Idle.pc = "idle" /\ Idle.next = 1
    BY DEF Idle
  <2> QED
    BY <1>1, <1>3, <2>1
<1> QED
  BY <1>2, <1>3
  DEF ProcessorStep, ProcessorFault, WorkerStep, WorkerFault, SendUnacked, Undecoded, NotYet, Mark, Fail

\* A step of a worker extends the stream, keeps each worker's sent prefix and
\* marks a block only with all its events sent.
LEMMA WorkerDelivers ==
  ASSUME DeliveryInv, NEW w \in Worker, ProcessorStep(w) \/ ProcessorFault(w)
  PROVE  /\ stream \subseteq stream'
         /\ SentPrefix' /\ FetchingFresh'
         /\ \/ marked' = marked
            \/ /\ marked' = marked \union {job[w].block}
               /\ stream' = stream
               /\ Sent(job[w].block, job[w].ver, EventCount)
<1> USE DEF DeliveryInv, envVars, dbVars, poolVars, procVars
<1>1. stream \subseteq stream'
  BY DEF ProcessorStep, ProcessorFault, WorkerStep, WorkerFault, Take, Fetch, Send,
         SendUnacked, Publish, Undecoded, NotYet, Mark, Fail
<1>2. job \in [Worker -> Job] /\ job' \in [Worker -> Job]
  BY TypeWorker DEF TypeOK
<1>3. ASSUME NEW u \in Worker, job'[u].pc = "send"
      PROVE  \A i \in 1..(job'[u].next - 1) : <<job'[u].block, job'[u].ver, i>> \in stream'
  <2>1. CASE job'[u] = job[u]
    BY <1>1, <1>3, <2>1 DEF SentPrefix, Sent
  <2>2. CASE Fetch(w) /\ u = w
    <3>1. job'[u].next = job[u].next /\ job[u].next = 1
      BY <1>2, <2>2 DEF Fetch, FetchingFresh
    <3> QED
      BY <3>1
  <2>3. CASE Send(w) /\ u = w
    <3>1. /\ job'[u].block = job[u].block /\ job'[u].ver = job[u].ver
          /\ job'[u].next = job[u].next + 1
          /\ job[u].next \in Nat /\ job[u].pc = "send"
          /\ stream' = stream \union {<<job[u].block, job[u].ver, job[u].next>>}
      BY <1>2, <2>3 DEF Send, CanSend, Publish, Job
    <3>2. \A i \in 1..(job[u].next - 1) : <<job[u].block, job[u].ver, i>> \in stream
      BY <3>1 DEF SentPrefix, Sent
    <3>3. \A i \in 1..(job'[u].next - 1) : i \in 1..(job[u].next - 1) \/ i = job[u].next
      BY <3>1
    <3> QED
      BY <3>1, <3>2, <3>3
  <2>4. \/ job'[u] = job[u]
        \/ u = w /\ (Fetch(w) \/ Send(w))
    BY <1>2, <1>3, WorkerMoves DEF Fetch, Send
  <2> QED
    BY <2>1, <2>2, <2>3, <2>4
<1>4. \/ marked' = marked
      \/ Mark(w)
  BY DEF ProcessorStep, ProcessorFault, WorkerStep, WorkerFault, Take, Fetch, Send,
         SendUnacked, Undecoded, NotYet, Fail
<1>5. ASSUME Mark(w)
      PROVE  /\ marked' = marked \/ marked' = marked \union {job[w].block}
             /\ stream' = stream
             /\ Sent(job[w].block, job[w].ver, EventCount)
  <2>1. job[w].next = EventCount + 1 /\ job[w].pc = "send"
    BY <1>2, <1>5 DEF Mark, Job
  <2>2. Sent(job[w].block, job[w].ver, EventCount)
    BY <2>1 DEF SentPrefix
  <2> QED
    BY <1>5, <2>2 DEF Mark, SetValue
<1>6. ASSUME NEW u \in Worker, job'[u].pc = "fetch" PROVE job'[u].next = 1
  <2>1. CASE job'[u] = job[u]
    BY <1>6, <2>1 DEF FetchingFresh
  <2>2. ~(u = w /\ Fetch(w)) /\ ~(u = w /\ Send(w))
    BY <1>2, <1>6 DEF Fetch, Send, CanSend, Job
  <2> QED
    BY <1>2, <2>1, <2>2, WorkerMoves DEF Fetch, Send
<1> QED
  BY <1>1, <1>3, <1>4, <1>5, <1>6 DEF SentPrefix, FetchingFresh, Sent

LEMMA DeliveryInit == Init => DeliveryInv
  BY TypeInit DEF DeliveryInv, Init, DBInit, ProcessorInit, Idle, SentPrefix, FetchingFresh, MarkedMeansDelivered

LEMMA DeliveryStep == DeliveryInv /\ [Next]_vars => DeliveryInv'
<1> SUFFICES ASSUME DeliveryInv, [Next]_vars PROVE DeliveryInv'
  OBVIOUS
<1> USE DEF DeliveryInv
<1>1. TypeOK'
  BY TypeStep
<1>2. CASE UNCHANGED vars
  BY <1>1, <1>2 DEF SentPrefix, FetchingFresh, MarkedMeansDelivered, Sent, vars, dbVars, procVars
<1>3. CASE Outside
  <2>1. /\ stream' = stream
        /\ marked' \subseteq marked
        /\ job' = job \/ job' = [w \in Worker |-> Idle]
    BY <1>3, OutsideFrame DEF CleanupDB, Cleanup
  <2> QED
    BY <1>1, <2>1 DEF SentPrefix, FetchingFresh, MarkedMeansDelivered, Sent, Idle
<1>4. ASSUME NEW w \in Worker, ProcessorStep(w) \/ ProcessorFault(w)
      PROVE  DeliveryInv'
  <2>1. /\ stream \subseteq stream'
        /\ SentPrefix' /\ FetchingFresh'
        /\ \/ marked' = marked
           \/ /\ marked' = marked \union {job[w].block}
              /\ stream' = stream
              /\ Sent(job[w].block, job[w].ver, EventCount)
    BY <1>4, WorkerDelivers
  <2>2. job[w].ver \in Version
    BY DEF TypeOK, Job
  <2>3. ASSUME NEW b \in marked' PROVE \E v \in Version : Sent(b, v, EventCount)'
    <3>1. CASE b \in marked
      <4>1. PICK v \in Version : Sent(b, v, EventCount)
        BY <3>1 DEF MarkedMeansDelivered
      <4> QED
        BY <2>1, <4>1, SentStable
    <3>2. CASE b \notin marked
      BY <2>1, <2>2, <2>3, <3>2, SentStable
    <3> QED
      BY <3>1, <3>2
  <2> QED
    BY <1>1, <2>1, <2>3 DEF MarkedMeansDelivered
<1> QED
  BY <1>2, <1>3, <1>4, NextSplit

\* A block is marked only after all events of one version of it were stored.
THEOREM DeliveredBeforeMarked == Spec => []MarkedMeansDelivered
<1>1. DeliveryInv => MarkedMeansDelivered
  BY DEF DeliveryInv
<1> QED
  BY <1>1, DeliveryInit, DeliveryStep, PTL DEF Spec

(***************************************************************************)
(* Refinement.  Publishing maps to Deliver, marking to Process, Cleanup to *)
(* Forget and InitLower to FixFloor; every other step stutters.            *)
(***************************************************************************)
\* A step of a worker delivers, processes or stutters.
LEMMA WorkerRefines ==
  ASSUME DeliveryInv, NEW w \in Worker, ProcessorStep(w) \/ ProcessorFault(w)
  PROVE  [Ledger!Next]_(Ledger!ledger)
<1> USE DEF DeliveryInv
<1>1. GetLowerBound' = GetLowerBound
  BY DEF GetLowerBound, dbVars, ProcessorStep, ProcessorFault, WorkerStep, WorkerFault, Take,
         Fetch, Send, SendUnacked, Undecoded, NotYet, Mark, Fail
<1>2. job[w] \in Job
  BY DEF TypeOK
<1>3. CASE CanSend(w) /\ Publish(w) /\ marked' = marked
  <2>1. <<job[w].block, job[w].ver, job[w].next>> \in Event
    BY <1>2, <1>3 DEF CanSend, Job, Event
  <2>2. Ledger!Deliver
    BY <1>1, <1>3, <2>1 DEF Ledger!Deliver, Publish, Event
  <2> QED
    BY <2>2 DEF Ledger!Next
<1>4. CASE /\ marked' = marked \union {job[w].block} /\ stream' = stream
           /\ Sent(job[w].block, job[w].ver, EventCount)
  <2>1. Ledger!Complete(job[w].block)
    BY <1>2, <1>4 DEF Ledger!Complete, Sent, Job
  <2>2. Ledger!Process
    BY <1>1, <1>2, <1>4, <2>1 DEF Ledger!Process, Job
  <2> QED
    BY <2>2 DEF Ledger!Next
<1>5. CASE stream' = stream /\ marked' = marked
  BY <1>1, <1>5 DEF Ledger!ledger
<1>6. \/ CanSend(w) /\ Publish(w) /\ marked' = marked
      \/ stream' = stream
  BY DEF dbVars, ProcessorStep, ProcessorFault, WorkerStep, WorkerFault, Take, Fetch, Send,
         SendUnacked, Undecoded, NotYet, Mark, Fail
<1> QED
  BY <1>3, <1>4, <1>5, <1>6, WorkerDelivers

\* Any other step forgets, fixes the floor or stutters.
LEMMA OutsideRefines == ASSUME TypeOK, Outside PROVE [Ledger!Next]_(Ledger!ledger)
<1> USE DEF dbVars
<1>1. stream' = stream /\ (marked' = marked \/ CleanupDB)
  BY OutsideFrame
<1>2. CASE CleanupDB
  <2>1. GetLowerBound' = GetLowerBound
    BY <1>2 DEF CleanupDB, Cleanup, GetLowerBound
  <2>2. GetLowerBound \in Block
    BY LowerBoundType DEF TypeOK
  <2>3. marked \ marked' \subseteq {b \in marked : b < GetLowerBound}
    <3>1. \A b \in marked : b \in Int
      BY DEF TypeOK, Block
    <3>2. GetLowerBound \in Int
      BY <2>2 DEF Block
    <3>3. \A b \in marked : ~(b > GetLowerBound - 1) => b < GetLowerBound
      BY <3>1, <3>2
    <3>4. \A b \in marked \ marked' : ~(b > GetLowerBound - 1)
      BY <1>2 DEF CleanupDB, Cleanup
    <3> QED
      BY <3>3, <3>4
  <2>4. marked' = marked \ (marked \ marked')
    BY <1>2 DEF CleanupDB, Cleanup
  <2>5. Ledger!Forget
    BY <1>1, <2>1, <2>3, <2>4 DEF Ledger!Forget
  <2> QED
    BY <2>5 DEF Ledger!Next
<1>3. CASE InitLower /\ ~CleanupDB
  <2>1. GetLowerBound' \in Block
    <3>1. lower' \in OptBlock
      BY <1>3, TypeMain DEF TypeOK, Boot
    <3> QED
      BY <3>1 DEF GetLowerBound, OptBlock, None, Block
  <2>2. CASE GetLowerBound = 0
    BY <1>1, <1>3, <2>1, <2>2 DEF Ledger!FixFloor, Ledger!Next
  <2>3. CASE GetLowerBound # 0
    BY <1>1, <1>3, <2>3 DEF InitLower, GetLowerBound, Ledger!ledger
  <2> QED
    BY <2>2, <2>3
<1>4. CASE ~InitLower /\ ~CleanupDB
  <2>1. lower' = lower
    BY <1>4
    DEF Outside, BlockMined, BlockReplaced, Boot, Start, AskLatest, InitUpper, MainFault, Signal, Crash, CleanupFailed,
        Shutdown, StopSyncer, StopBackfill, StopPool, Drained, CloseDB, Exit, ProcessGone,
        SyncerStep, SyncerFault, ConnectionLost, WriteFailed, RaiseFails, QueueHeader, RaiseUpper, BackfillStep, BackfillReturns
  <2> QED
    BY <1>1, <1>4, <2>1 DEF GetLowerBound, Ledger!ledger
<1> QED
  BY <1>2, <1>3, <1>4

LEMMA LedgerInit == Init => Ledger!Init
  BY DEF Init, DBInit, ProcessorInit, GetLowerBound, Ledger!Init

LEMMA LedgerStep == DeliveryInv /\ [Next]_vars => [Ledger!Next]_(Ledger!ledger)
<1> SUFFICES ASSUME DeliveryInv, [Next]_vars PROVE [Ledger!Next]_(Ledger!ledger)
  OBVIOUS
<1>1. CASE UNCHANGED vars
  BY <1>1 DEF vars, dbVars, procVars, GetLowerBound, Ledger!ledger
<1>2. CASE Next
  BY <1>2, NextSplit, WorkerRefines, OutsideRefines DEF DeliveryInv
<1> QED
  BY <1>1, <1>2

\* The tracker implements the ledger: a processed block was delivered whole,
\* and is forgotten only below a floor that is fixed once.
THEOREM ImplementsLedger == Spec => LedgerSpec
<1>1. Spec => []DeliveryInv
  BY DeliveryInit, DeliveryStep, PTL DEF Spec
<1> QED
  BY <1>1, LedgerInit, LedgerStep, PTL DEF Spec, LedgerSpec, Ledger!Spec

(***************************************************************************)
(* Every block number in transit is one the chain has.                     *)
(***************************************************************************)
\* At first there is no block number anywhere but the chain's.
LEMMA RangeInit == Init => RangeInv
<1> SUFFICES ASSUME Init PROVE RangeInv
  OBVIOUS
<1>1. TypeOK
  BY TypeInit
<1>2. 0 <= head /\ None <= head
  BY DEF Init, EnvInit, None
<1>3. upper <= head /\ bootLatest <= head /\ setting <= head
  BY <1>2 DEF Init, DBInit, SyncerInit
<1>4. /\ \A i \in 1..Len(wire) : wire[i] <= head
      /\ \A i \in 1..Len(queue) : queue[i].block <= head
  <2>1. Len(wire) = 0 /\ Len(queue) = 0
    BY DEF Init, SyncerInit, PoolInit
  <2> QED
    BY <2>1
<1>5. bf.hi <= head /\ \A b \in bf.todo : b <= head
  BY <1>2 DEF Init, BackfillInit, Off
<1>6. \A w \in Worker : job[w].pc = "idle"
  BY DEF Init, ProcessorInit, Idle
<1> QED
  BY <1>1, <1>3, <1>4, <1>5, <1>6 DEF RangeInv, OnlyExistingBlocksQueued

\* A worker takes its block from the queue and keeps it until it is idle.
LEMMA RangeWorker ==
  ASSUME RangeInv, NEW w \in Worker, ProcessorStep(w) \/ ProcessorFault(w)
  PROVE  RangeInv'
<1> USE DEF RangeInv, envVars, dbVars, poolVars, procVars, syncVars, bfVars, MainIdle
<1>1. TypeOK'
  BY TypeWorker
<1>2. UNCHANGED <<head, upper, bootLatest, setting, wire, bf>>
  BY DEF ProcessorStep, ProcessorFault, WorkerStep, WorkerFault, Take, Fetch, Send,
         SendUnacked, Undecoded, NotYet, Mark, Fail
<1>3. job \in [Worker -> Job] /\ queue \in Seq(Task)
  BY DEF TypeOK
<1>4. CASE Take(w)
  <2>1. /\ queue # <<>> /\ queue' = Tail(queue)
        /\ job' = [job EXCEPT ![w] = [Idle EXCEPT !.pc = "fetch", !.block = Head(queue).block]]
    BY <1>4 DEF Take
  <2>2. Head(queue).block <= head
    <3>1. Len(queue) \in Nat \ {0} /\ Head(queue) = queue[1]
      BY <1>3, <2>1
    <3> QED
      BY <3>1 DEF OnlyExistingBlocksQueued
  <2>3. \A i \in 1..Len(queue') : queue'[i].block <= head
    BY <1>3, <2>1 DEF OnlyExistingBlocksQueued
  <2>4. \A u \in Worker : job'[u].pc # "idle" => job'[u].block <= head
    BY <1>3, <2>1, <2>2 DEF OnlyExistingBlocksQueued, Idle
  <2> QED
    BY <1>1, <1>2, <2>3, <2>4 DEF OnlyExistingBlocksQueued
<1>5. CASE ~Take(w)
  <2>1. queue' = queue
    BY <1>5 DEF ProcessorStep, ProcessorFault, WorkerStep, WorkerFault, Fetch, Send,
                SendUnacked, Undecoded, NotYet, Mark, Fail
  <2>2. \A u \in Worker : job'[u].pc # "idle" =>
           job[u].pc # "idle" /\ job'[u].block = job[u].block
    <3>1. CASE job' = [job EXCEPT ![w] = Idle]
      BY <1>3, <3>1 DEF Idle
    <3>2. CASE Fetch(w)
      BY <1>3, <3>2 DEF Fetch, Job
    <3>3. CASE Send(w)
      BY <1>3, <3>3 DEF Send, CanSend, Job
    <3> QED
      BY <1>5, <3>1, <3>2, <3>3 DEF ProcessorStep, ProcessorFault, WorkerStep, WorkerFault,
                                    SendUnacked, Undecoded, NotYet, Mark, Fail
  <2>3. \A u \in Worker : job'[u].pc # "idle" => job'[u].block <= head
    BY <1>3, <2>2 DEF OnlyExistingBlocksQueued, Idle
  <2> QED
    BY <1>1, <1>2, <2>1, <2>3 DEF OnlyExistingBlocksQueued
<1> QED
  BY <1>4, <1>5

\* A queue or a wire to which a good number is appended, or that lost its
\* first element, holds good numbers only.
LEMMA BoundedQueue ==
  ASSUME NEW n \in Int, NEW q \in Seq(Task), \A i \in 1..Len(q) : q[i].block <= n
  PROVE  \A t \in Task : t.block <= n =>
            \A i \in 1..Len(Append(q, t)) : Append(q, t)[i].block <= n
<1> SUFFICES ASSUME NEW t \in Task, t.block <= n, NEW i \in 1..Len(Append(q, t))
             PROVE  Append(q, t)[i].block <= n
  OBVIOUS
<1>1. CASE i = Len(q) + 1
  BY <1>1
<1>2. CASE i # Len(q) + 1
  <2>1. i \in 1..Len(q) /\ Append(q, t)[i] = q[i]
    BY <1>2
  <2> QED
    BY <2>1
<1> QED
  BY <1>1, <1>2

\* A new head, or the blocks of a reorganisation, are announced from the
\* lowest on; they reach up to the head.
LEMMA ChainMoves ==
  ASSUME TypeOK, TypeOK', BlockMined \/ BlockReplaced
  PROVE  \E lo \in Block : /\ Announce(lo, head')
                           /\ lo <= head' /\ head' < lo + MaxDepth /\ head <= head'
<1>1. head \in Int /\ head' \in Int /\ head' \in Block /\ MaxDepth \in Nat \ {0}
  BY DEF TypeOK, EnvTypeOK, Block
<1>2. CASE BlockMined
  BY <1>1, <1>2 DEF BlockMined, Mine
<1>3. CASE BlockReplaced
  <2>1. PICK k \in Block : Reorg(k) /\ Announce(k, head)
    BY <1>3 DEF BlockReplaced
  <2>2. k \in Int /\ head' = head
    BY <2>1 DEF Reorg, Block
  <2> QED
    BY <1>1, <2>1, <2>2 DEF Reorg
<1> QED
  BY <1>2, <1>3

\* The chain only grows, and what it announces does not exceed its head.
LEMMA RangeChain == ASSUME RangeInv, BlockMined \/ BlockReplaced PROVE RangeInv'
<1> USE DEF dbVars, poolVars, procVars, bfVars, MainIdle
<1>1. TypeOK /\ TypeOK'
  BY TypeMain DEF RangeInv
<1>2. PICK lo \in Block : Announce(lo, head') /\ lo <= head' /\ head <= head'
  BY <1>1, ChainMoves
<1>3. /\ head \in Int /\ head' \in Int /\ head' \in Block
      /\ UNCHANGED <<upper, bootLatest, setting, queue, job, bf>>
  BY <1>1 DEF BlockMined, BlockReplaced, TypeOK, EnvTypeOK, Block
<1>4. /\ upper \in Int /\ bootLatest \in Int /\ setting \in Int /\ bf.hi \in Int
      /\ \A b \in bf.todo : b \in Int
      /\ wire \in Seq(Block) /\ queue \in Seq(Task) /\ job \in [Worker -> Job]
  BY <1>1 DEF TypeOK, OptBlock, Block, None, Run
<1>5. upper' <= head' /\ bootLatest' <= head' /\ setting' <= head'
  BY <1>2, <1>3, <1>4 DEF RangeInv
<1>6. bf'.hi <= head' /\ \A b \in bf'.todo : b <= head'
  BY <1>2, <1>3, <1>4 DEF RangeInv
<1>7. \A i \in 1..Len(wire) : wire[i] <= head'
  <2>1. \A i \in 1..Len(wire) : wire[i] \in Int
    BY <1>4 DEF Block
  <2> QED
    BY <1>2, <1>3, <2>1 DEF RangeInv
<1>8. \A i \in 1..Len(wire') : wire'[i] <= head'
  BY <1>2, <1>3, <1>4, <1>7, Announced
<1>9. OnlyExistingBlocksQueued'
  <2>1. \A i \in 1..Len(queue) : queue[i].block \in Int
    <3>1. \A i \in 1..Len(queue) : queue[i] \in Task
      BY <1>4
    <3> QED
      BY <3>1 DEF Task, Block
  <2>2. \A w \in Worker : job[w].block \in Int
    BY <1>4 DEF Job, Block
  <2> QED
    BY <1>2, <1>3, <2>1, <2>2 DEF RangeInv, OnlyExistingBlocksQueued
<1> QED
  BY <1>1, <1>5, <1>6, <1>8, <1>9 DEF RangeInv

\* The syncer passes on what the node announced.
LEMMA RangeSyncer == ASSUME RangeInv, SyncerStep \/ SyncerFault PROVE RangeInv'
<1> USE DEF envVars, dbVars, poolVars, procVars, bfVars, MainIdle
<1>1. TypeOK /\ TypeOK'
  BY TypeSyncer DEF RangeInv
<1>2. UNCHANGED <<head, bootLatest, job, bf>>
  BY DEF SyncerStep, SyncerFault, ConnectionLost, WriteFailed, RaiseFails, Disconnect
<1>3. /\ head \in Int /\ None <= head /\ wire \in Seq(Block) /\ queue \in Seq(Task)
  BY <1>1 DEF TypeOK, EnvTypeOK, Block, None
<1>4. CASE /\ UNCHANGED <<upper, queue>> /\ (wire' = wire \/ wire' = <<>>)
           /\ setting' = setting \/ setting' = None
  <2>1. \A i \in 1..Len(wire') : wire'[i] <= head
    BY <1>4, <1>3 DEF RangeInv
  <2>2. upper' <= head' /\ bootLatest' <= head' /\ setting' <= head'
    BY <1>2, <1>3, <1>4 DEF RangeInv
  <2>3. (\A b \in bf'.todo : b <= head') /\ bf'.hi <= head' /\ OnlyExistingBlocksQueued'
    BY <1>2, <1>4 DEF RangeInv, OnlyExistingBlocksQueued
  <2> QED
    BY <1>1, <1>2, <2>1, <2>2, <2>3 DEF RangeInv
<1>5. CASE QueueHeader
  <2>1. /\ wire # <<>> /\ wire' = Tail(wire) /\ setting' = Head(wire)
        /\ Push(Head(wire), "sync") /\ upper' = upper
    BY <1>5 DEF QueueHeader
  <2>2. Head(wire) <= head /\ \A i \in 1..Len(wire') : wire'[i] <= head
    <3>1. 1 \in 1..Len(wire) /\ Head(wire) = wire[1]
      BY <1>3, <2>1
    <3>2. \A i \in 1..Len(wire') : wire'[i] = wire[i + 1] /\ i + 1 \in 1..Len(wire)
      BY <1>3, <2>1
    <3> QED
      BY <3>1, <3>2 DEF RangeInv
  <2>3. \A i \in 1..Len(queue') : queue'[i].block <= head
    <3> DEFINE t == [block |-> Head(wire), src |-> "sync"]
    <3>1. t \in Task /\ t.block <= head
      BY <1>3, <2>1, <2>2 DEF Task, Source
    <3>2. queue' = queue \/ queue' = Append(queue, t)
      BY <2>1 DEF Push
    <3> HIDE DEF t
    <3> QED
      BY <1>3, <3>1, <3>2, BoundedQueue DEF RangeInv, OnlyExistingBlocksQueued
  <2> QED
    BY <1>1, <1>2, <2>1, <2>2, <2>3 DEF RangeInv, OnlyExistingBlocksQueued
<1>6. CASE RaiseUpper
  BY <1>1, <1>2, <1>3, <1>6 DEF RangeInv, OnlyExistingBlocksQueued, RaiseUpper, SetUpperBound
<1> QED
  BY <1>4, <1>5, <1>6 DEF SyncerStep, SyncerFault, ConnectionLost, WriteFailed, RaiseFails, SyncStart, Subscribe, Disconnect

\* The backfiller stays below the upper bound.
LEMMA RangeBackfill == ASSUME RangeInv, BackfillStep \/ BackfillReturns PROVE RangeInv'
<1> USE DEF envVars, dbVars, procVars, syncVars, MainIdle
<1>1. TypeOK /\ TypeOK'
  BY TypeBackfill DEF RangeInv
<1>2. UNCHANGED <<head, upper, setting, wire, bootLatest, job>>
  BY DEF BackfillStep, BackfillReturns
<1>3. /\ head \in Nat /\ head \in Int /\ upper \in Int /\ upper <= head /\ bf \in Run /\ queue \in Seq(Task)
      /\ bf.hi <= head /\ \A b \in bf.todo : b \in Block /\ b <= head
  BY <1>1 DEF RangeInv, TypeOK, EnvTypeOK, Block, OptBlock, None, Run
<1>4. CASE queue' = queue /\ bf'.hi <= head /\ \A b \in bf'.todo : b <= head
  BY <1>1, <1>2, <1>4 DEF RangeInv, OnlyExistingBlocksQueued
<1>5. CASE PushMissing
  <2>1. PICK b \in bf.todo : Push(b, "backfill") /\ bf' = [bf EXCEPT !.todo = @ \ {b}]
    BY <1>5 DEF PushMissing
  <2>2. bf'.hi <= head /\ \A c \in bf'.todo : c <= head
    BY <1>3, <2>1 DEF Run
  <2>3. \A i \in 1..Len(queue') : queue'[i].block <= head
    <3> DEFINE t == [block |-> b, src |-> "backfill"]
    <3>1. t \in Task /\ t.block <= head
      BY <1>3, <2>1 DEF Task, Source
    <3>2. queue' = queue \/ queue' = Append(queue, t)
      BY <2>1 DEF Push
    <3> HIDE DEF t
    <3> QED
      BY <1>3, <3>1, <3>2, BoundedQueue DEF RangeInv, OnlyExistingBlocksQueued
  <2> QED
    BY <1>1, <1>2, <2>2, <2>3 DEF RangeInv, OnlyExistingBlocksQueued
<1>6. CASE UNCHANGED poolVars /\ (Tick \/ ResetTicker \/ BackfillExit)
  <2>1. bf'.hi = 0 /\ bf'.todo = {}
    <3>1. CASE Tick
      BY <3>1 DEF Tick, Off
    <3>2. CASE ResetTicker
      BY <3>2 DEF ResetTicker, BetweenRuns, Off
    <3>3. CASE BackfillExit
      BY <3>3 DEF BackfillExit, Off
    <3> QED
      BY <1>6, <3>1, <3>2, <3>3
  <2> QED
    BY <1>3, <1>4, <1>6, <2>1 DEF poolVars
<1>7. CASE UNCHANGED poolVars /\ ReadBounds
  <2>1. GetLowerBound \in Int
    BY <1>1, LowerBoundType DEF TypeOK, Block
  <2>2. RangeEnd(bf.skip) \in Int /\ RangeEnd(bf.skip) <= head
    BY <1>3, <2>1 DEF RangeEnd, GetUpperBound
  <2>3. \/ bf' = [bf EXCEPT !.pc = "scan", !.hi = RangeEnd(bf.skip)]
        \/ bf'.hi = 0 /\ bf'.todo = {}
    BY <1>7 DEF ReadBounds, BetweenRuns, Off
  <2>4. bf'.hi <= head /\ \A b \in bf'.todo : b <= head
    <3>1. CASE bf' = [bf EXCEPT !.pc = "scan", !.hi = RangeEnd(bf.skip)]
      <4>1. bf'.hi = RangeEnd(bf.skip) /\ bf'.todo = bf.todo
        BY <1>3, <3>1 DEF Run
      <4> QED
        BY <1>3, <2>2, <4>1
    <3>2. CASE bf'.hi = 0 /\ bf'.todo = {}
      BY <1>3, <3>2
    <3> QED
      BY <2>3, <3>1, <3>2
  <2> QED
    BY <1>4, <1>7, <2>4 DEF poolVars
<1>8. CASE UNCHANGED poolVars /\ Scan
  <2> DEFINE S == LowestOf(Missing(GetLowerBound, bf.hi), BatchSize)
  <2>1. \A b \in S : b \in Int /\ b <= bf.hi
    BY <1>1, <1>3, LowerBoundType DEF LowestOf, Missing, TypeOK, Block, Run
  <2>2. bf'.hi <= head /\ \A b \in bf'.todo : b <= head
    <3>1. bf.hi \in Int
      BY <1>3 DEF Run, Block
    <3>2. CASE bf' = BetweenRuns
      BY <1>3, <3>2 DEF BetweenRuns, Off
    <3>3. CASE bf'.hi = bf.hi /\ bf'.todo = S
      BY <1>3, <2>1, <3>1, <3>3
    <3> QED
      BY <1>3, <1>8, <3>2, <3>3 DEF Scan, Run
  <2> QED
    BY <1>4, <1>8, <2>2 DEF poolVars
<1> QED
  BY <1>5, <1>6, <1>7, <1>8 DEF BackfillStep, BackfillReturns

\* Main takes the upper bound from the node's answer and forgets the rest.
LEMMA RangeMain == ASSUME RangeInv, Boot \/ Shutdown \/ MainFault PROVE RangeInv'
<1> USE DEF envVars, dbVars, poolVars, procVars, syncVars, bfVars
<1>1. TypeOK /\ TypeOK'
  BY TypeMain DEF RangeInv
<1>2. head \in Nat /\ None <= head /\ head' = head
  BY <1>1 DEF TypeOK, EnvTypeOK, Block, None, Boot, Start, AskLatest, InitLower, InitUpper,
      Shutdown, StopSyncer, StopBackfill, StopPool, Drained, CleanupDB, Cleanup, CloseDB, Exit,
      ProcessGone, MainFault, Signal, Crash, CleanupFailed, SyncStop, BackfillStop, Fault
<1>3. CASE ProcessGone
  <2>1. /\ upper' = upper /\ bootLatest' = None /\ setting' = None
        /\ Len(wire') = 0 /\ Len(queue') = 0 /\ bf'.hi = 0 /\ bf'.todo = {}
        /\ \A w \in Worker : job'[w].pc = "idle"
    BY <1>3 DEF ProcessGone, Off, Idle
  <2>2. /\ \A i \in 1..Len(wire') : wire'[i] <= head
        /\ \A i \in 1..Len(queue') : queue'[i].block <= head
    BY <2>1
  <2> QED
    BY <1>1, <1>2, <2>1, <2>2 DEF RangeInv, OnlyExistingBlocksQueued
<1>4. CASE InitUpper
  <2>1. bf'.hi = 0 /\ bf'.todo = {}
    BY <1>4 DEF InitUpper, Off
  <2> QED
    BY <1>1, <1>2, <1>4, <2>1 DEF InitUpper, SetUpperBound, RangeInv, OnlyExistingBlocksQueued
<1>5. CASE AskLatest
  BY <1>1, <1>2, <1>5 DEF AskLatest, LatestAnswers, RangeInv, OnlyExistingBlocksQueued
<1>6. CASE StopSyncer
  BY <1>1, <1>2, <1>6 DEF StopSyncer, SyncStop, RangeInv, OnlyExistingBlocksQueued
<1>7. CASE UNCHANGED <<upper, bootLatest, setting, wire, bf, queue, job>>
  BY <1>1, <1>2, <1>7 DEF RangeInv, OnlyExistingBlocksQueued
<1> QED
  BY <1>3, <1>4, <1>5, <1>6, <1>7
  DEF Boot, Start, InitLower, Shutdown, StopBackfill, StopPool, Drained, CleanupDB, Cleanup,
      CloseDB, Exit, MainFault, Signal, Crash, CleanupFailed, BackfillStop

\* Every step keeps the block numbers in transit within the chain.
LEMMA RangeStep == RangeInv /\ [Next]_vars => RangeInv'
<1> SUFFICES ASSUME RangeInv, [Next]_vars PROVE RangeInv'
  OBVIOUS
<1>1. CASE UNCHANGED vars
  <2>1. TypeOK'
    BY TypeStep DEF RangeInv
  <2> QED
    BY <1>1, <2>1 DEF RangeInv, OnlyExistingBlocksQueued, vars, envVars, dbVars, poolVars,
                      procVars, syncVars, bfVars
<1> QED
  BY <1>1, RangeWorker, RangeChain, RangeSyncer, RangeBackfill, RangeMain DEF Next, Faulty

\* No block is queued, or taken by a worker, before the chain has it: the
\* header, the node's answer at start up and the bounds all stay behind it.
THEOREM QueuedBlocksExist == Spec => []OnlyExistingBlocksQueued
<1>1. RangeInv => OnlyExistingBlocksQueued
  BY DEF RangeInv
<1> QED
  BY <1>1, RangeInit, RangeStep, PTL DEF Spec

(***************************************************************************)
(* The end of the process.                                                 *)
(***************************************************************************)
\* The database is closed, the pool empty and every worker idle at first.
LEMMA LifecycleInit == Init => LifecycleInv
<1> SUFFICES ASSUME Init PROVE LifecycleInv
  OBVIOUS
<1>1. AllIdle
  BY DEF AllIdle, Init, ProcessorInit, Idle
<1> QED
  BY <1>1, TypeInit DEF LifecycleInv, Init, DBInit, PoolInit

\* A worker that is idle while the queue is empty has nothing to do.
LEMMA LifecycleWorker ==
  ASSUME LifecycleInv, NEW w \in Worker, ProcessorStep(w) \/ ProcessorFault(w)
  PROVE  LifecycleInv'
<1>1. TypeOK'
  BY TypeWorker DEF LifecycleInv
<1>2. UNCHANGED <<phase, open, dbOpen>>
  BY DEF ProcessorStep, ProcessorFault, MainIdle, WorkerStep, WorkerFault, Take, Fetch, Send,
         SendUnacked, Undecoded, NotYet, Mark, Fail, dbVars, poolVars
<1>3. ~(AllIdle /\ queue = <<>>)
  BY DEF AllIdle, ProcessorStep, ProcessorFault, WorkerStep, WorkerFault, Take, Fetch, Send,
         CanSend, SendUnacked, Undecoded, NotYet, Mark, Fail
<1> QED
  BY <1>1, <1>2, <1>3 DEF LifecycleInv

\* What the syncer and the backfiller submit to a stopped pool is dropped.
LEMMA LifecyclePushers ==
  ASSUME LifecycleInv, SyncerStep \/ SyncerFault \/ BackfillStep \/ BackfillReturns
  PROVE  LifecycleInv'
<1> USE DEF envVars, dbVars, poolVars, procVars, MainIdle
<1>1. TypeOK'
  BY TypeSyncer, TypeBackfill DEF LifecycleInv
<1>2. UNCHANGED <<phase, job>>
  BY DEF SyncerStep, SyncerFault, ConnectionLost, WriteFailed, RaiseFails, BackfillStep, BackfillReturns
<1>3. UNCHANGED <<open, dbOpen>> /\ (queue' = queue \/ open)
  BY DEF SyncerStep, SyncerFault, ConnectionLost, WriteFailed, RaiseFails, BackfillStep, BackfillReturns, SyncStart, Subscribe,
         QueueHeader, RaiseUpper, Disconnect, Tick, ReadBounds, Scan, ResetTicker,
         PushMissing, Push
<1> QED
  BY <1>1, <1>2, <1>3 DEF LifecycleInv, AllIdle

\* Main closes the database only after the pool has drained.
LEMMA LifecycleMain ==
  ASSUME LifecycleInv, BlockMined \/ BlockReplaced \/ Boot \/ Shutdown \/ MainFault
  PROVE  LifecycleInv'
<1> USE DEF envVars, dbVars, poolVars, procVars, MainIdle, LifecycleInv
<1>1. TypeOK'
  BY TypeMain
<1>2. CASE ProcessGone
  <2>1. AllIdle'
    BY <1>2 DEF ProcessGone, AllIdle, Idle
  <2> QED
    BY <1>1, <1>2, <2>1 DEF ProcessGone
<1>3. CASE Start
  BY <1>1, <1>3 DEF Start
<1>4. CASE StopPool
  BY <1>1, <1>4 DEF StopPool
<1>5. CASE Drained
  BY <1>1, <1>5 DEF Drained, AllIdle
<1>6. CASE CleanupDB \/ CleanupFailed \/ CloseDB
  BY <1>1, <1>6 DEF CleanupDB, Cleanup, CleanupFailed, CloseDB, AllIdle
<1>7. CASE BlockMined \/ BlockReplaced
  BY <1>1, <1>7 DEF BlockMined, BlockReplaced, AllIdle
<1>8. CASE AskLatest \/ InitLower \/ InitUpper \/ Signal \/ StopSyncer \/ StopBackfill
  BY <1>1, <1>8 DEF AskLatest, InitLower, InitUpper, Signal, StopSyncer, StopBackfill
<1> QED
  BY <1>2, <1>3, <1>4, <1>5, <1>6, <1>7, <1>8 DEF Boot, Shutdown, Exit, MainFault, Crash

\* Every step keeps the order of opening and closing.
LEMMA LifecycleStep == LifecycleInv /\ [Next]_vars => LifecycleInv'
<1> SUFFICES ASSUME LifecycleInv, [Next]_vars PROVE LifecycleInv'
  OBVIOUS
<1>1. CASE UNCHANGED vars
  <2>1. TypeOK'
    BY TypeStep DEF LifecycleInv
  <2> QED
    BY <1>1, <2>1 DEF LifecycleInv, AllIdle, vars, dbVars, poolVars, procVars
<1> QED
  BY <1>1, LifecycleWorker, LifecyclePushers, LifecycleMain DEF Next, Faulty

\* Whatever interleaving of headers, backfill runs, workers and shutdown, a
\* closed database finds no worker at a block and no block waiting.
THEOREM ClosedMeansDone == Spec => []NoWorkAfterClose
<1>1. LifecycleInv => NoWorkAfterClose
  BY DEF LifecycleInv, NoWorkAfterClose
<1> QED
  BY <1>1, LifecycleInit, LifecycleStep, PTL DEF Spec

(***************************************************************************)
(* The headers and the upper bound that follows them.                      *)
(***************************************************************************)
\* Arithmetic: what lies r behind h, and what lies s, no less, behind it.
LEMMA Behind == \A u, h, l, r \in Int : u <= h /\ h - l <= r => u <= l + r
  OBVIOUS

LEMMA FurtherBehind ==
  \A b, s, h, l, r \in Int : b + s <= h /\ h <= l + r /\ r <= s => b <= l
  OBVIOUS

\* The numbers that the invariant compares.
LEMMA HeaderNumbers ==
  ASSUME TypeOK
  PROVE  /\ upper \in Int /\ setting \in Int /\ head \in Int /\ bootLatest \in Int
         /\ GetLowerBound \in Int /\ RpcLag \in Nat /\ MaxDepth \in Nat \ {0}
         /\ wire \in Seq(Block) /\ \A i \in 1..Len(wire) : wire[i] \in Int
         /\ \A n \in Pending : n \in Int
<1>1. wire \in Seq(Block) /\ Block \subseteq Int
  BY DEF TypeOK, Block
<1>2. \A i \in 1..Len(wire) : wire[i] \in Int
  BY <1>1, ElementOfSeq
<1>3. /\ upper \in Int /\ setting \in Int /\ head \in Int /\ bootLatest \in Int
      /\ GetLowerBound \in Int
  BY LowerBoundType DEF TypeOK, EnvTypeOK, OptBlock, Block, None
<1> QED
  BY <1>1, <1>2, <1>3 DEF Pending

\* Nothing is on the wire at first.
LEMMA HeaderInit == Init => HeaderInv
<1> SUFFICES ASSUME Init PROVE HeaderInv
  OBVIOUS
<1>1. RangeInv /\ bf.pc = "off" /\ sub = "unstarted" /\ setting = None /\ phase = "down"
  BY RangeInit DEF Init, SyncerInit, BackfillInit, Off
<1>2. wire = <<>> /\ Len(wire) = 0
  BY DEF Init, SyncerInit
<1> QED
  BY <1>1, <1>2 DEF HeaderInv, Pending, Above, Steady

\* A step that adds no header and leaves the upper bound alone.
LEMMA HeaderOthers ==
  ASSUME HeaderInv, RangeInv', upper' = upper,
         wire' = wire \/ wire' = <<>>, setting' = setting \/ setting' = None,
         Running /\ Running'
  PROVE  HeaderInv'
<1>1. phase' \notin {"lower", "upper"}
  BY DEF Running, Stopping
<1>2. CASE wire' = <<>>
  <2>1. Len(wire') = 0
    BY <1>2
  <2> QED
    BY <1>1, <1>2, <2>1 DEF HeaderInv, Pending, Above, Steady
<1>3. CASE wire' = wire
  BY <1>1, <1>3 DEF HeaderInv, Pending, Above, Steady
<1> QED
  BY <1>2, <1>3

\* The headers of new blocks are near the head.
LEMMA HeaderChain ==
  ASSUME HeaderInv, RangeInv', BlockMined \/ BlockReplaced
  PROVE  HeaderInv'
<1> USE DEF dbVars, bfVars, MainIdle
<1>1. TypeOK /\ TypeOK'
  BY DEF HeaderInv, RangeInv
<1>2. UNCHANGED <<upper, sub, setting, phase, bf, bootLatest>>
  BY DEF BlockMined, BlockReplaced
<1>3. PICK lo \in Block : /\ Announce(lo, head')
                          /\ lo <= head' /\ head' < lo + MaxDepth /\ head <= head'
  BY <1>1, ChainMoves
<1>4. head' \in Block /\ head' \in Int /\ lo \in Int
  BY <1>1 DEF TypeOK, EnvTypeOK, Block
<1>5. /\ upper \in Int /\ setting \in Int /\ head \in Int /\ MaxDepth \in Nat \ {0}
      /\ wire \in Seq(Block) /\ \A i \in 1..Len(wire) : wire[i] \in Int
      /\ wire' \in Seq(Block) /\ \A i \in 1..Len(wire') : wire'[i] \in Int
  BY <1>1, HeaderNumbers DEF TypeOK, Block
<1>6. \A i \in 1..Len(wire') : \/ i \in 1..Len(wire) /\ wire'[i] = wire[i]
                               \/ i > Len(wire) /\ lo <= wire'[i] /\ wire'[i] <= head'
  BY <1>3, <1>4, <1>5, Announced
<1>7. /\ upper <= head' /\ setting <= head' /\ \A i \in 1..Len(wire) : wire[i] <= head'
  BY <1>3, <1>4, <1>5 DEF HeaderInv, RangeInv
<1>8. \A n \in Pending' : n \in Pending \/ n \in lo..head'
  BY <1>2, <1>4, <1>5, <1>6 DEF Pending
<1>9. \A n \in lo..head' : upper < n + MaxDepth /\ setting < n + MaxDepth
  BY <1>3, <1>4, <1>5, <1>7
<1>10. Above(Pending', upper)
  BY <1>8, <1>9 DEF Above, HeaderInv
<1>11. ASSUME setting # None, NEW i \in 1..Len(wire') PROVE setting < wire'[i] + MaxDepth
  <2>1. CASE i \in 1..Len(wire) /\ wire'[i] = wire[i]
    BY <1>11, <2>1 DEF HeaderInv
  <2>2. CASE lo <= wire'[i] /\ wire'[i] <= head'
    <3>1. wire'[i] \in lo..head'
      BY <1>4, <1>5, <2>2
    <3> QED
      BY <1>9, <3>1
  <2> QED
    BY <1>6, <2>1, <2>2
<1>12. Steady(wire')
  <2> SUFFICES ASSUME NEW i \in 1..Len(wire'), NEW j \in 1..i
               PROVE  wire'[j] < wire'[i] + MaxDepth
    BY DEF Steady
  <2>1. j \in 1..Len(wire') /\ Len(wire) \in Nat /\ Len(wire') \in Nat
    BY <1>5
  <2>2. CASE i \in 1..Len(wire)
    <3>1. j \in 1..Len(wire) /\ wire'[j] = wire[j] /\ wire'[i] = wire[i]
      BY <1>6, <2>1, <2>2
    <3> QED
      BY <2>2, <3>1 DEF HeaderInv, Steady
  <2>3. CASE i > Len(wire)
    <3>1. lo <= wire'[i]
      BY <1>6, <2>1, <2>3
    <3>2. wire'[j] <= head'
      BY <1>6, <1>7, <2>1
    <3> QED
      BY <1>3, <1>4, <1>5, <2>1, <3>1, <3>2
  <2> QED
    BY <2>1, <2>2, <2>3
<1>13. ~Running => wire' = <<>>
  BY <1>3 DEF Announce, HeaderInv
<1> QED
  BY <1>2, <1>10, <1>11, <1>12, <1>13 DEF HeaderInv, Running

\* The upper bound follows the headers in their order.
LEMMA HeaderSyncer ==
  ASSUME HeaderInv, RangeInv', SyncerStep \/ SyncerFault
  PROVE  HeaderInv'
<1> USE DEF envVars, dbVars, bfVars, MainIdle
<1>1. TypeOK
  BY DEF HeaderInv, RangeInv
<1>2. UNCHANGED <<phase, bootLatest>> /\ Running /\ Running'
  BY DEF SyncerStep, SyncerFault, ConnectionLost, WriteFailed, Running
<1>3. phase' \notin {"lower", "upper"}
  BY <1>2 DEF Running, Stopping
<1>4. /\ upper \in Int /\ setting \in Int /\ MaxDepth \in Nat \ {0}
      /\ wire \in Seq(Block) /\ \A i \in 1..Len(wire) : wire[i] \in Int
  BY <1>1, HeaderNumbers
<1>5. CASE QueueHeader
  <2>1. wire # <<>> /\ wire' = Tail(wire) /\ setting' = Head(wire) /\ upper' = upper
    BY <1>5 DEF QueueHeader
  <2>2. /\ Len(wire) \in Nat \ {0} /\ Len(wire') = Len(wire) - 1 /\ setting' = wire[1]
        /\ \A i \in 1..Len(wire') : wire'[i] = wire[i + 1] /\ i + 1 \in 1..Len(wire)
    BY <1>4, <2>1
  <2>3. 1 \in 1..Len(wire) /\ Pending' \subseteq Pending
    BY <2>2 DEF Pending
  <2>4. \A i \in 1..Len(wire') : setting' < wire'[i] + MaxDepth
    BY <2>2 DEF HeaderInv, Steady
  <2>5. Steady(wire')
    <3> SUFFICES ASSUME NEW i \in 1..Len(wire'), NEW j \in 1..i
                 PROVE  wire'[j] < wire'[i] + MaxDepth
      BY DEF Steady
    <3>1. j \in 1..Len(wire') /\ j + 1 \in 1..(i + 1)
      BY <2>2
    <3> QED
      BY <2>2, <3>1 DEF HeaderInv, Steady
  <2> QED
    BY <1>2, <1>3, <2>1, <2>3, <2>4, <2>5 DEF HeaderInv, Above
<1>6. CASE RaiseUpper
  <2>1. /\ setting # None /\ setting' = None /\ wire' = wire
        /\ upper' = setting \/ upper' = upper
    BY <1>6 DEF RaiseUpper, SetUpperBound
  <2>2. Pending' \subseteq {wire[i] : i \in 1..Len(wire)} /\ Pending' \subseteq Pending
    BY <2>1 DEF Pending
  <2>3. Above(Pending', upper')
    BY <2>1, <2>2 DEF HeaderInv, Above
  <2> QED
    BY <1>2, <1>3, <2>1, <2>3 DEF HeaderInv
<1>7. CASE ~QueueHeader /\ ~RaiseUpper
  BY <1>2, <1>7, HeaderOthers DEF SyncerStep, SyncerFault, ConnectionLost, WriteFailed, SyncStart,
                                  Subscribe, Disconnect, RaiseFails
<1> QED
  BY <1>5, <1>6, <1>7

\* The answer at start up is behind the upper bound by no more than the lag.
LEMMA HeaderBoot == ASSUME HeaderInv, RangeInv', Boot PROVE HeaderInv'
<1> USE DEF envVars, dbVars, syncVars
<1>1. TypeOK
  BY DEF HeaderInv, RangeInv
<1>2. /\ upper \in Int /\ head \in Int /\ bootLatest \in Int /\ RpcLag \in Nat /\ upper <= head
  BY <1>1, HeaderNumbers DEF HeaderInv, RangeInv
<1>3. ~Running
  BY DEF Boot, Start, AskLatest, InitLower, InitUpper, Running, Stopping
<1>4. bf.pc = "off" /\ sub' = "unstarted" /\ setting' = None /\ wire' = <<>>
  BY <1>3 DEF HeaderInv, Boot, Start, AskLatest, InitLower, InitUpper
<1>5. Len(wire') = 0 /\ Pending' = {}
  BY <1>4 DEF Pending
<1>6. Above(Pending', upper') /\ Steady(wire')
  BY <1>5 DEF Above, Steady
<1>7. CASE Start
  BY <1>4, <1>5, <1>6, <1>7 DEF Start, HeaderInv, bfVars
<1>8. CASE AskLatest
  <2>1. bootLatest' \in 0..head /\ head - bootLatest' <= RpcLag
    BY <1>8 DEF AskLatest, LatestAnswers
  <2>2. upper' <= bootLatest' + RpcLag
    <3>1. upper' = upper /\ bootLatest' \in Int /\ RpcLag \in Int
      BY <1>2, <1>8, <2>1 DEF AskLatest
    <3>2. upper <= bootLatest' + RpcLag
      BY <1>2, <2>1, <3>1, Behind
    <3> QED
      BY <3>1, <3>2
  <2> QED
    BY <1>4, <1>5, <1>6, <1>8, <2>2 DEF AskLatest, HeaderInv, bfVars
<1>9. CASE InitLower
  BY <1>4, <1>5, <1>6, <1>9 DEF InitLower, HeaderInv, bfVars
<1>10. CASE InitUpper
  BY <1>4, <1>5, <1>6, <1>10 DEF InitUpper, HeaderInv, Running
<1> QED
  BY <1>7, <1>8, <1>9, <1>10 DEF Boot

\* Shutdown and crashes end the subscription and leave the bounds alone.
LEMMA HeaderEnd == ASSUME HeaderInv, RangeInv', Shutdown \/ MainFault PROVE HeaderInv'
<1> USE DEF envVars, dbVars, syncVars
<1>1. upper' = upper
  BY DEF Shutdown, StopSyncer, StopBackfill, StopPool, Drained, CleanupDB, Cleanup, CloseDB,
         Exit, ProcessGone, MainFault, Signal, Crash, CleanupFailed
<1>2. CASE ProcessGone
  <2>1. wire' = <<>> /\ Len(wire') = 0 /\ setting' = None /\ sub' = "unstarted"
    BY <1>2 DEF ProcessGone
  <2>2. bf'.pc = "off" /\ phase' = "down"
    BY <1>2 DEF ProcessGone, Off
  <2> QED
    BY <2>1, <2>2 DEF HeaderInv, Pending, Above, Steady
<1>3. CASE ~ProcessGone
  <2>1. Running /\ Running' /\ UNCHANGED setting /\ (wire' = wire \/ wire' = <<>>)
    BY <1>3 DEF Shutdown, StopSyncer, SyncStop, StopBackfill, StopPool, Drained, CleanupDB,
                CloseDB, Exit, MainFault, Signal, Crash, CleanupFailed, Running, Stopping
  <2> QED
    BY <1>1, <2>1, HeaderOthers
<1> QED
  BY <1>2, <1>3

\* Every step keeps the order of the upper bound and the headers to come.
LEMMA HeaderStep == HeaderInv /\ [Next]_vars => HeaderInv'
<1> SUFFICES ASSUME HeaderInv, [Next]_vars PROVE HeaderInv'
  OBVIOUS
<1>1. RangeInv'
  BY RangeStep DEF HeaderInv
<1>2. CASE UNCHANGED vars \/ \E w \in Worker : ProcessorStep(w) \/ ProcessorFault(w)
  <2>1. UNCHANGED <<upper, sub, setting, wire, phase, bootLatest, bf>>
    BY <1>2 DEF vars, dbVars, syncVars, bfVars, MainIdle, ProcessorStep, ProcessorFault,
                WorkerStep, WorkerFault, Take, Fetch, Send, SendUnacked, Undecoded, NotYet, Mark,
                Fail
  <2> QED
    BY <1>1, <2>1 DEF HeaderInv, Running, Pending, Above, Steady
<1>3. CASE BackfillStep \/ BackfillReturns
  <2>1. UNCHANGED <<upper, setting, wire, phase>>
    BY <1>3 DEF BackfillStep, BackfillReturns, dbVars, syncVars, MainIdle
  <2>2. Running
    BY <1>3 DEF BackfillStep, BackfillReturns, Tick, ReadBounds, Scan, ResetTicker, PushMissing,
                BackfillExit, HeaderInv
  <2> QED
    BY <1>1, <2>1, <2>2, HeaderOthers DEF Running
<1> QED
  BY <1>1, <1>2, <1>3, HeaderChain, HeaderSyncer, HeaderBoot, HeaderEnd DEF Next, Faulty

(***************************************************************************)
(* The range of tracked blocks.                                            *)
(***************************************************************************)
\* What a step may do to the numbers that a settled block depends on.
LEMMA BoundMoves ==
  ASSUME TypeOK, TypeOK', [Next]_vars
  PROVE  /\ head <= head'
         /\ \/ upper' = upper
            \/ upper' \in Pending
            \/ phase = "upper" /\ upper' = bootLatest
         /\ GetLowerBound' = GetLowerBound \/ GetLowerBound = 0
         /\ \A n \in Pending' : n \in Pending \/ head' < n + MaxDepth
         /\ phase' \in {"lower", "upper"} =>
              \/ phase \in {"lower", "upper"} /\ bootLatest' = bootLatest
              \/ head' <= bootLatest' + RpcLag
<1> USE DEF envVars, dbVars, syncVars, MainIdle
<1>1. head \in Int /\ RpcLag \in Nat
  BY HeaderNumbers
<1>2. CASE BlockMined \/ BlockReplaced
  <2>1. PICK lo \in Block : /\ Announce(lo, head')
                            /\ lo <= head' /\ head' < lo + MaxDepth /\ head <= head'
    BY <1>2, ChainMoves
  <2>2. UNCHANGED <<upper, lower, setting, phase, bootLatest>>
    BY <1>2 DEF BlockMined, BlockReplaced
  <2>3. /\ head' \in Block /\ head' \in Int /\ lo \in Int /\ MaxDepth \in Nat
        /\ wire \in Seq(Block) /\ wire' \in Seq(Block)
        /\ \A i \in 1..Len(wire') : wire'[i] \in Int
    BY DEF TypeOK, EnvTypeOK, Block
  <2>4. \A i \in 1..Len(wire') : \/ i \in 1..Len(wire) /\ wire'[i] = wire[i]
                                 \/ lo <= wire'[i]
    BY <2>1, <2>3, Announced
  <2>5. \A i \in 1..Len(wire') : wire'[i] \in Pending \/ head' < wire'[i] + MaxDepth
    BY <2>1, <2>3, <2>4 DEF Pending
  <2>6. \A n \in Pending' : n \in Pending \/ head' < n + MaxDepth
    BY <2>2, <2>5 DEF Pending
  <2> QED
    BY <2>1, <2>2, <2>6 DEF GetLowerBound
<1>3. CASE SyncerStep \/ SyncerFault
  <2>1. UNCHANGED <<head, lower, phase, bootLatest>>
    BY <1>3 DEF SyncerStep, SyncerFault, ConnectionLost, WriteFailed, SyncStart, Subscribe,
                QueueHeader, RaiseUpper
  <2>2. upper' = upper \/ (setting # None /\ upper' = setting)
    BY <1>3 DEF SyncerStep, SyncerFault, ConnectionLost, WriteFailed, SyncStart, Subscribe,
                QueueHeader, RaiseUpper, SetUpperBound
  <2>3. Pending' \subseteq Pending
    <3>1. CASE QueueHeader
      <4>1. wire \in Seq(Block) /\ wire # <<>> /\ wire' = Tail(wire) /\ setting' = Head(wire)
        BY <3>1 DEF QueueHeader, TypeOK
      <4>2. /\ 1 \in 1..Len(wire) /\ setting' = wire[1]
            /\ \A i \in 1..Len(wire') : wire'[i] = wire[i + 1] /\ i + 1 \in 1..Len(wire)
        BY <4>1
      <4> QED
        BY <4>2 DEF Pending
    <3>2. CASE (wire' = wire \/ wire' = <<>>) /\ (setting' = setting \/ setting' = None)
      BY <3>2 DEF Pending
    <3> QED
      BY <1>3, <3>1, <3>2 DEF SyncerStep, SyncerFault, ConnectionLost, WriteFailed, SyncStart,
                              Subscribe, RaiseUpper, RaiseFails, Disconnect
  <2>4. setting # None => setting \in Pending
    BY DEF Pending
  <2>5. phase' \notin {"lower", "upper"}
    BY <1>3, <2>1 DEF SyncerStep, SyncerFault, ConnectionLost, WriteFailed, Running, Stopping
  <2> QED
    BY <1>1, <2>1, <2>2, <2>3, <2>4, <2>5 DEF GetLowerBound
<1>4. CASE Boot
  <2>1. UNCHANGED <<head, wire, setting>>
    BY <1>4 DEF Boot, Start, AskLatest, InitLower, InitUpper
  <2>2. /\ upper' = upper \/ (phase = "upper" /\ upper' = bootLatest)
        /\ GetLowerBound' = GetLowerBound \/ GetLowerBound = 0
    BY <1>4 DEF Boot, Start, AskLatest, InitLower, InitUpper, SetUpperBound, GetLowerBound
  <2>3. phase' \in {"lower", "upper"} =>
              \/ phase \in {"lower", "upper"} /\ bootLatest' = bootLatest
              \/ head' <= bootLatest' + RpcLag
    BY <1>1, <1>4 DEF Boot, Start, AskLatest, InitLower, InitUpper, LatestAnswers
  <2>4. Pending' = Pending
    BY <2>1 DEF Pending
  <2> QED
    BY <1>1, <2>1, <2>2, <2>3, <2>4
<1>5. CASE Shutdown \/ MainFault
  <2>1. UNCHANGED <<head, lower, upper>> /\ phase' \notin {"lower", "upper"}
    BY <1>5 DEF Shutdown, StopSyncer, StopBackfill, StopPool, Drained, CleanupDB, Cleanup,
                CloseDB, Exit, ProcessGone, MainFault, Signal, Crash, CleanupFailed
  <2>2. (wire' = wire \/ wire' = <<>>) /\ (setting' = setting \/ setting' = None)
    BY <1>5 DEF Shutdown, StopSyncer, SyncStop, StopBackfill, StopPool, Drained, CleanupDB,
                CloseDB, Exit, ProcessGone, MainFault, Signal, Crash, CleanupFailed
  <2>3. Pending' \subseteq Pending
    BY <2>2 DEF Pending
  <2> QED
    BY <1>1, <2>1, <2>3 DEF GetLowerBound
<1>6. CASE \/ UNCHANGED vars \/ BackfillStep \/ BackfillReturns
           \/ \E w \in Worker : ProcessorStep(w) \/ ProcessorFault(w)
  <2>1. UNCHANGED <<head, lower, upper, wire, setting, phase, bootLatest>>
    BY <1>6 DEF vars, BackfillStep, BackfillReturns, ProcessorStep, ProcessorFault, WorkerStep,
                WorkerFault, Take, Fetch, Send, SendUnacked, Undecoded, NotYet, Mark, Fail
  <2> QED
    BY <1>1, <2>1 DEF GetLowerBound, Pending
<1> QED
  BY <1>2, <1>3, <1>4, <1>5, <1>6 DEF Next, Faulty

\* A settled block is out of the reach of every fall of the upper bound.
LEMMA SettledIsKept == ASSUME HeaderInv, NEW b \in Block, Settled(b) PROVE Kept(b)
<1>1. TypeOK /\ b \in Int
  BY DEF HeaderInv, RangeInv, Block
<1>2. /\ upper \in Int /\ head \in Int /\ bootLatest \in Int /\ RpcLag \in Nat
      /\ MaxDepth \in Nat \ {0} /\ \A n \in Pending : n \in Int
  BY <1>1, HeaderNumbers
<1>3. Slack \in Nat /\ RpcLag <= Slack /\ MaxDepth - 1 <= Slack
  BY <1>2 DEF Slack
<1>4. b + Slack <= upper /\ upper <= head
  BY DEF Settled, HeaderInv, RangeInv
<1>5. b + Slack <= head
  BY <1>1, <1>2, <1>3, <1>4
<1>6. ASSUME NEW n \in Pending PROVE b <= n
  <2>1. upper < n + MaxDepth
    BY DEF HeaderInv, Above
  <2> QED
    BY <1>1, <1>2, <1>3, <1>4, <2>1
<1>7. phase \in {"lower", "upper"} => b <= bootLatest
  <2>1. phase \in {"lower", "upper"} => upper <= bootLatest + RpcLag
    BY DEF HeaderInv
  <2> QED
    BY <1>1, <1>2, <1>3, <1>4, <2>1
<1> QED
  BY <1>5, <1>6, <1>7 DEF Kept, Settled

\* It stays so.
LEMMA KeptStep ==
  ASSUME HeaderInv, HeaderInv', [Next]_vars, NEW b \in Block, Kept(b)
  PROVE  Kept(b)'
<1>1. TypeOK /\ TypeOK' /\ b \in Int
  BY DEF HeaderInv, RangeInv, Block
<1>2. /\ head \in Int /\ RpcLag \in Nat /\ MaxDepth \in Nat \ {0} /\ GetLowerBound \in Int
  BY <1>1, HeaderNumbers
<1>3. head' \in Int /\ bootLatest' \in Int /\ \A n \in Pending' : n \in Int
  <2>1. \A i \in 1..Len(wire') : wire'[i] \in Block
    BY <1>1 DEF TypeOK
  <2> QED
    BY <1>1, <2>1 DEF TypeOK, EnvTypeOK, OptBlock, Pending, Block, None
<1>4. Slack \in Nat /\ RpcLag <= Slack /\ MaxDepth - 1 <= Slack
  BY <1>2 DEF Slack
<1>5. Tracked(b)'
  <2>1. GetLowerBound' = GetLowerBound
    BY <1>1, <1>2, BoundMoves DEF Kept, Tracked
  <2>2. b <= upper'
    BY <1>1, BoundMoves DEF Kept, Tracked
  <2> QED
    BY <2>1, <2>2 DEF Kept, Tracked
<1>6. b + Slack <= head'
  <2>1. b + Slack <= head /\ head <= head'
    BY <1>1, BoundMoves DEF Kept
  <2> QED
    BY <1>1, <1>2, <1>3, <1>4, <2>1
<1>7. ASSUME NEW n \in Pending' PROVE b <= n
  <2>1. n \in Pending \/ head' < n + MaxDepth
    BY <1>1, BoundMoves
  <2> QED
    BY <1>1, <1>2, <1>3, <1>4, <1>6, <2>1 DEF Kept
<1>8. phase' \in {"lower", "upper"} => b <= bootLatest'
  <2> SUFFICES ASSUME phase' \in {"lower", "upper"} PROVE b <= bootLatest'
    OBVIOUS
  <2>1. \/ phase \in {"lower", "upper"} /\ bootLatest' = bootLatest
        \/ head' <= bootLatest' + RpcLag
    BY <1>1, BoundMoves
  <2>2. CASE phase \in {"lower", "upper"} /\ bootLatest' = bootLatest
    BY <2>2 DEF Kept
  <2>3. CASE head' <= bootLatest' + RpcLag
    <3>1. b \in Int /\ bootLatest' \in Int /\ head' \in Int /\ RpcLag \in Int /\ Slack \in Int
      BY <1>1, <1>2, <1>3, <1>4
    <3> QED
      BY <1>4, <1>6, <2>3, <3>1, FurtherBehind
  <2> QED
    BY <2>1, <2>2, <2>3
<1> QED
  BY <1>5, <1>6, <1>7, <1>8 DEF Kept

\* Whatever the lag of the node and the depth of its reorganisations, a block
\* that the upper bound has left so far behind stays in the range: through
\* headers out of order, lost connections, failed writes, shutdowns, crashes,
\* and the bounds set at a restart.
THEOREM SettledStaysTracked == Spec => NoAbandonedBlock
<1>1. ASSUME NEW b \in Block PROVE Spec => [](Settled(b) => []Tracked(b))
  <2>1. HeaderInv /\ Settled(b) => Kept(b)
    BY SettledIsKept
  <2>2. HeaderInv /\ HeaderInv' /\ [Next]_vars /\ Kept(b) => Kept(b)'
    BY KeptStep
  <2>3. Kept(b) => Tracked(b)
    BY DEF Kept
  <2> QED
    BY <2>1, <2>2, <2>3, HeaderInit, HeaderStep, PTL DEF Spec
<1> QED
  BY <1>1 DEF NoAbandonedBlock
=============================================================================
