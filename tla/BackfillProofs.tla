--------------------------- MODULE BackfillProofs ---------------------------
(***************************************************************************)
(* Proofs about what the backfiller puts into the queue: how much, and     *)
(* never the newest block on a tick, for every value of the constants.     *)
(***************************************************************************)
EXTENDS TrackerProofs, FiniteSetTheorems

USE EnvironmentAssumption, ProcessorAssumption, BackfillAssumption, TrackerAssumption

(***************************************************************************)
(* Counting.                                                               *)
(***************************************************************************)
\* A set of blocks that is not empty has a highest member.
LEMMA HighestBlock ==
  ASSUME NEW S, S \subseteq Block, S # {}
  PROVE  \E m \in S : \A b \in S : b <= m
<1> DEFINE T == {MaxBlock - b : b \in S}
<1>1. T \subseteq Nat /\ T # {}
  <2>1. \A b \in S : MaxBlock - b \in Nat
    BY DEF Block
  <2> QED
    BY <2>1
<1>2. PICK d \in T : \A e \in T : ~(<<e, d>> \in OpToRel(<, Nat))
  BY <1>1, NatLessThanWellFounded, WFMin
<1>3. \A e \in T : ~(e < d)
  BY <1>1, <1>2 DEF OpToRel
<1>4. PICK m \in S : d = MaxBlock - m
  OBVIOUS
<1>5. ASSUME NEW b \in S PROVE b <= m
  <2>1. b \in Nat /\ m \in Nat /\ MaxBlock \in Nat
    BY DEF Block
  <2>2. MaxBlock - b \in T
    OBVIOUS
  <2>3. ~(MaxBlock - b < MaxBlock - m)
    BY <2>2, <1>3, <1>4
  <2> HIDE DEF T
  <2> QED
    BY <2>1, <2>3
<1> QED
  BY <1>5

\* Sets of blocks are finite.
LEMMA FiniteBlocks == ASSUME NEW S, S \subseteq Block
                      PROVE  IsFiniteSet(S) /\ Cardinality(S) \in Nat
<1>1. IsFiniteSet(Block)
  BY FS_Interval DEF Block
<1> QED
  BY <1>1, FS_Subset, FS_CardinalityType

\* The k lowest blocks of a set are at most k.
LEMMA LowestBound ==
  ASSUME NEW S, S \subseteq Block, NEW k \in Nat
  PROVE  Cardinality(LowestOf(S, k)) <= k
<1> DEFINE L == LowestOf(S, k)
<1>1. L \subseteq S /\ L \subseteq Block
  BY DEF LowestOf
<1>2. CASE L = {}
  BY <1>2, FS_EmptySet
<1>3. CASE L # {}
  <2>1. PICK m \in L : \A b \in L : b <= m
    BY <1>1, <1>3, HighestBlock
  <2> DEFINE B == {c \in S : c < m}
  <2>2. Cardinality(B) < k
    BY <2>1 DEF LowestOf
  <2>3. L \subseteq B \union {m}
    BY <1>1, <2>1 DEF Block
  <2>4. IsFiniteSet(B) /\ Cardinality(B) \in Nat
    BY FiniteBlocks
  <2>5. /\ IsFiniteSet(B \union {m})
        /\ Cardinality(B \union {m}) <= Cardinality(B) + 1
    <3>1. Cardinality(B \union {m}) = IF m \in B THEN Cardinality(B) ELSE Cardinality(B) + 1
      BY <2>4, FS_AddElement
    <3>2. IsFiniteSet(B \union {m})
      BY <2>4, FS_AddElement
    <3> HIDE DEF B
    <3> QED
      BY <2>4, <3>1, <3>2
  <2>6. Cardinality(L) <= Cardinality(B \union {m})
    BY <2>3, <2>5, FS_Subset
  <2>7. Cardinality(L) \in Nat /\ Cardinality(B \union {m}) \in Nat
    BY <1>1, <2>5, FiniteBlocks, FS_CardinalityType
  <2> DEFINE n == Cardinality(L)
             p == Cardinality(B)
             q == Cardinality(B \union {m})
  <2>8. n <= q /\ q <= p + 1 /\ p < k /\ n \in Nat /\ p \in Nat /\ q \in Nat
    BY <2>2, <2>4, <2>5, <2>6, <2>7
  <2>9. n <= k
    <3> HIDE DEF n, p, q
    <3> QED
      BY <2>8
  <2> QED
    BY <2>9
<1> QED
  BY <1>2, <1>3

\* The waiting tasks of a source are among the waiting tasks.
LEMMA WaitingBound ==
  ASSUME queue \in Seq(Task), NEW src
  PROVE  /\ IsFiniteSet(Waiting(src)) /\ Cardinality(Waiting(src)) \in Nat
         /\ Cardinality(Waiting(src)) <= Len(queue)
<1>1. Len(queue) \in Nat /\ Waiting(src) \subseteq 1..Len(queue)
  BY DEF Waiting
<1>2. IsFiniteSet(1..Len(queue)) /\ Cardinality(1..Len(queue)) = Len(queue)
  BY <1>1, FS_Interval
<1> QED
  BY <1>1, <1>2, FS_Subset, FS_CardinalityType

\* Their number is a number after a step, too.
LEMMA WaitingNext ==
  ASSUME queue' \in Seq(Task), NEW src
  PROVE  Cardinality(Waiting(src)') \in Nat
<1>1. Len(queue') \in Nat /\ Waiting(src)' \subseteq 1..Len(queue')
  BY DEF Waiting
<1>2. IsFiniteSet(1..Len(queue'))
  BY <1>1, FS_Interval
<1> QED
  BY <1>1, <1>2, FS_Subset, FS_CardinalityType

\* A task more in the queue is at most one more of its source.
LEMMA WaitingGrows ==
  ASSUME queue \in Seq(Task), NEW t \in Task, queue' = Append(queue, t), NEW src
  PROVE  /\ Cardinality(Waiting(src)') <= Cardinality(Waiting(src)) + 1
         /\ t.src # src => Waiting(src)' = Waiting(src)
<1>1. /\ Len(queue) \in Nat /\ Len(queue') = Len(queue) + 1
      /\ \A i \in 1..Len(queue) : queue'[i] = queue[i]
      /\ queue'[Len(queue) + 1] = t
  OBVIOUS
<1>2. \A i \in 1..Len(queue') : i = Len(queue) + 1 \/ i \in 1..Len(queue)
  BY <1>1
<1>3. Waiting(src)' = IF t.src = src THEN Waiting(src) \union {Len(queue) + 1} ELSE Waiting(src)
  BY <1>1, <1>2 DEF Waiting
<1>4. IsFiniteSet(Waiting(src)) /\ Cardinality(Waiting(src)) \in Nat
  BY WaitingBound
<1>5. Cardinality(Waiting(src) \union {Len(queue) + 1}) <= Cardinality(Waiting(src)) + 1
  <2>1. Cardinality(Waiting(src) \union {Len(queue) + 1})
          = IF Len(queue) + 1 \in Waiting(src) THEN Cardinality(Waiting(src))
                                               ELSE Cardinality(Waiting(src)) + 1
    BY <1>4, FS_AddElement
  <2> QED
    BY <1>4, <2>1
<1>6. CASE t.src = src
  BY <1>3, <1>5, <1>6
<1>7. CASE t.src # src
  <2>1. Waiting(src)' = Waiting(src)
    BY <1>3, <1>7
  <2> QED
    BY <1>4, <1>7, <2>1
<1> QED
  BY <1>6, <1>7

\* A task taken is none more of any source.
LEMMA WaitingShrinks ==
  ASSUME queue \in Seq(Task), queue # <<>>, queue' = Tail(queue), NEW src
  PROVE  Cardinality(Waiting(src)') <= Cardinality(Waiting(src))
<1>1. /\ Len(queue) \in Nat \ {0} /\ Len(queue') = Len(queue) - 1
      /\ \A i \in 1..Len(queue') : queue'[i] = queue[i + 1]
  OBVIOUS
<1> DEFINE f == [i \in Waiting(src)' |-> i + 1]
<1>2. \A i \in Waiting(src)' : i \in Nat /\ i + 1 \in Waiting(src)
  BY <1>1 DEF Waiting
<1>3. f \in Injection(Waiting(src)', Waiting(src))
  BY <1>2 DEF Injection, IsInjective
<1>4. IsFiniteSet(Waiting(src))
  BY WaitingBound
<1> QED
  BY <1>3, <1>4, FS_Injection

(***************************************************************************)
(* How much the backfiller queues.                                         *)
(***************************************************************************)
\* The numbers that the invariant is about.
LEMMA QueueNumbers ==
  ASSUME TypeOK
  PROVE  /\ Cardinality(Waiting("backfill")) \in Nat /\ Cardinality(bf.todo) \in Nat
         /\ IdleSize \in Nat /\ BatchSize \in Nat /\ queue \in Seq(Task)
         /\ IsFiniteSet(bf.todo) /\ bf.todo \subseteq Block
<1>1. queue \in Seq(Task) /\ bf.todo \subseteq Block
  BY DEF TypeOK, Run
<1> QED
  BY <1>1, WaitingBound, FiniteBlocks DEF IdleSize

\* Nothing waits at first.
LEMMA QueueInit == Init => QueueInv
<1> SUFFICES ASSUME Init PROVE QueueInv
  OBVIOUS
<1>1. TypeOK /\ queue = <<>> /\ bf.pc = "off"
  BY TypeInit DEF Init, PoolInit, BackfillInit, Off
<1>2. Cardinality(Waiting("backfill")) <= 0
  BY <1>1, WaitingBound DEF TypeOK
<1> QED
  BY <1>1, <1>2, QueueNumbers DEF QueueInv, BackfillQueueBound

\* Steps of others: the backfiller stays where it is, and its tasks that wait
\* do not become more.
LEMMA QueueOthers ==
  ASSUME QueueInv, TypeOK', bf' = bf, Running' <=> Running,
         ~Running => queue' = <<>>,
         Cardinality(Waiting("backfill")') <= Cardinality(Waiting("backfill"))
  PROVE  QueueInv'
<1> DEFINE m == Cardinality(Waiting("backfill"))
           n == Cardinality(Waiting("backfill")')
           t == Cardinality(bf.todo)
<1>1. m \in Nat /\ t \in Nat /\ IdleSize \in Nat /\ BatchSize \in Nat
  BY QueueNumbers DEF QueueInv
<1>2. n \in Nat
  <2>1. queue' \in Seq(Task)
    BY DEF TypeOK
  <2> QED
    BY <2>1, WaitingNext
<1>3. /\ n <= m /\ m <= IdleSize + BatchSize
      /\ bf.pc \in {"bounds", "scan"} => m <= IdleSize
      /\ bf.pc = "push" => m + t <= IdleSize + BatchSize
  BY DEF QueueInv, BackfillQueueBound
<1>4. /\ n <= IdleSize + BatchSize
      /\ bf.pc \in {"bounds", "scan"} => n <= IdleSize
      /\ bf.pc = "push" => n + t <= IdleSize + BatchSize
  <2> HIDE DEF m, n, t
  <2> QED
    BY <1>1, <1>2, <1>3
<1> QED
  BY <1>4 DEF QueueInv, BackfillQueueBound

\* A worker takes tasks from the queue.
LEMMA QueueWorker ==
  ASSUME QueueInv, TypeOK', NEW w \in Worker, ProcessorStep(w) \/ ProcessorFault(w)
  PROVE  QueueInv'
<1>1. bf' = bf /\ phase' = phase
  BY DEF ProcessorStep, ProcessorFault, bfVars, MainIdle
<1>2. Running' <=> Running
  BY <1>1 DEF Running
<1>3. Take(w) \/ queue' = queue
  BY DEF ProcessorStep, ProcessorFault, WorkerStep, WorkerFault, Fetch, Send,
         SendUnacked, Undecoded, NotYet, Mark, Fail, poolVars
<1>4. Cardinality(Waiting("backfill")) \in Nat /\ queue \in Seq(Task)
  BY QueueNumbers DEF QueueInv
<1>5. CASE Take(w)
  <2>1. queue # <<>> /\ queue' = Tail(queue)
    BY <1>5 DEF Take
  <2>2. Running
    BY <2>1 DEF QueueInv
  <2> QED
    BY <1>1, <1>2, <1>4, <2>1, <2>2, WaitingShrinks, QueueOthers
<1>6. CASE queue' = queue
  <2>1. Waiting("backfill")' = Waiting("backfill")
    BY <1>6 DEF Waiting
  <2>2. ~Running => queue' = <<>>
    BY <1>6 DEF QueueInv
  <2> QED
    BY <1>1, <1>2, <1>4, <2>1, <2>2, QueueOthers
<1> QED
  BY <1>3, <1>5, <1>6

\* The chain and the syncer add no task of the backfiller.
LEMMA QueueSyncer ==
  ASSUME QueueInv, TypeOK',
         BlockMined \/ BlockReplaced \/ SyncerStep \/ SyncerFault
  PROVE  QueueInv'
<1> USE DEF poolVars, bfVars, dbVars, MainIdle
<1>1. bf' = bf /\ phase' = phase
  BY DEF BlockMined, BlockReplaced, SyncerStep, SyncerFault, ConnectionLost, WriteFailed
<1>2. Running' <=> Running
  BY <1>1 DEF Running
<1>3. queue' = queue \/ (SyncerStep /\ QueueHeader)
  BY DEF BlockMined, BlockReplaced, SyncerStep, SyncerFault, ConnectionLost, WriteFailed, RaiseUpper
<1>4. Cardinality(Waiting("backfill")) \in Nat /\ queue \in Seq(Task)
  BY QueueNumbers DEF QueueInv
<1>5. CASE queue' = queue
  <2>1. Waiting("backfill")' = Waiting("backfill")
    BY <1>5 DEF Waiting
  <2>2. ~Running => queue' = <<>>
    BY <1>5 DEF QueueInv
  <2> QED
    BY <1>1, <1>2, <1>4, <2>1, <2>2, QueueOthers
<1>6. CASE SyncerStep /\ QueueHeader /\ queue' # queue
  <2> DEFINE t == [block |-> Head(wire), src |-> "sync"]
  <2>1. Running /\ queue' = Append(queue, t) /\ wire # <<>> /\ wire \in Seq(Block)
    BY <1>6 DEF SyncerStep, QueueHeader, Push, QueueInv, TypeOK
  <2>2. t \in Task /\ t.src # "backfill"
    BY <2>1 DEF Task, Source
  <2> HIDE DEF t
  <2>3. Waiting("backfill")' = Waiting("backfill")
    BY <1>4, <2>1, <2>2, WaitingGrows
  <2> QED
    BY <1>1, <1>2, <1>4, <2>1, <2>3, QueueOthers
<1> QED
  BY <1>3, <1>5, <1>6

\* A run starts with a nearly empty queue, and adds one batch.
LEMMA QueueBackfill ==
  ASSUME QueueInv, TypeOK', BackfillStep \/ BackfillReturns
  PROVE  QueueInv'
<1> DEFINE m == Cardinality(Waiting("backfill"))
           n == Cardinality(Waiting("backfill")')
<1>1. TypeOK
  BY DEF QueueInv
<1>2. /\ m \in Nat /\ Cardinality(bf.todo) \in Nat /\ IdleSize \in Nat /\ BatchSize \in Nat
      /\ queue \in Seq(Task) /\ IsFiniteSet(bf.todo) /\ bf.todo \subseteq Block
  BY <1>1, QueueNumbers
<1>3. Running
  BY DEF BackfillStep, BackfillReturns, Tick, ReadBounds, Scan, ResetTicker, PushMissing,
         BackfillExit, QueueInv
<1>4. Running'
  BY <1>3 DEF BackfillStep, BackfillReturns, MainIdle, Running
<1>5. m <= IdleSize + BatchSize
  BY DEF QueueInv, BackfillQueueBound
<1>6. queue' = queue => n = m
  BY DEF Waiting
<1>7. CASE /\ queue' = queue
           /\ bf'.pc \in {"bounds", "scan"} => m <= IdleSize
           /\ bf'.pc = "push" => m + Cardinality(bf'.todo) <= IdleSize + BatchSize
  BY <1>4, <1>5, <1>6, <1>7 DEF QueueInv, BackfillQueueBound
<1>8. CASE queue' = queue /\ Tick
  <2>1. m <= IdleSize
    <3>1. m <= Len(queue) /\ Len(queue) <= IdleSize /\ Len(queue) \in Nat
      BY <1>2, <1>8, WaitingBound DEF Tick, Size
    <3> QED
      BY <1>2, <3>1
  <2>2. bf'.pc = "bounds"
    BY <1>8 DEF Tick, Off
  <2> QED
    BY <1>7, <1>8, <2>1, <2>2
<1>9. CASE queue' = queue /\ ReadBounds
  <2>1. m <= IdleSize /\ bf'.pc \in {"scan", "wait"}
    BY <1>1, <1>9 DEF ReadBounds, BetweenRuns, Off, QueueInv, TypeOK, Run
  <2> QED
    BY <1>7, <1>9, <2>1
<1>10. CASE queue' = queue /\ Scan
  <2>1. m <= IdleSize
    BY <1>10 DEF Scan, QueueInv
  <2> DEFINE L == LowestOf(Missing(GetLowerBound, bf.hi), BatchSize)
  <2>2. bf'.pc = "wait" \/ (bf'.pc = "push" /\ bf'.todo = L)
    BY <1>1, <1>10 DEF Scan, BetweenRuns, Off, TypeOK, Run
  <2>3. Missing(GetLowerBound, bf.hi) \subseteq Block
    BY <1>1, LowerBoundType DEF Missing, Block, TypeOK, Run
  <2>4. Cardinality(L) <= BatchSize /\ Cardinality(L) \in Nat
    <3>1. L \subseteq Block
      BY <2>3 DEF LowestOf
    <3> QED
      BY <1>2, <2>3, <3>1, LowestBound, FiniteBlocks
  <2>5. m + Cardinality(L) <= IdleSize + BatchSize
    <3> HIDE DEF m, L
    <3> QED
      BY <1>2, <2>1, <2>4
  <2> HIDE DEF m, L
  <2> QED
    BY <1>7, <1>10, <2>1, <2>2, <2>5
<1>11. CASE queue' = queue /\ (ResetTicker \/ BackfillExit)
  <2>1. bf'.pc \in {"wait", "off"}
    BY <1>11 DEF ResetTicker, BackfillExit, BetweenRuns, Off
  <2> QED
    BY <1>7, <1>11, <2>1
<1>12. CASE PushMissing
  <2>1. PICK b \in bf.todo : /\ Push(b, "backfill")
                             /\ bf' = [bf EXCEPT !.todo = @ \ {b}]
    BY <1>12 DEF PushMissing
  <2>2. bf'.pc = "push" /\ bf.pc = "push" /\ bf'.todo = bf.todo \ {b}
    BY <1>1, <1>12, <2>1 DEF PushMissing, TypeOK, Run
  <2>3. Cardinality(bf'.todo) = Cardinality(bf.todo) - 1 /\ Cardinality(bf'.todo) \in Nat
    <3>1. IsFiniteSet(bf.todo \ {b}) /\ Cardinality(bf.todo \ {b}) = Cardinality(bf.todo) - 1
      BY <1>2, FS_RemoveElement
    <3> QED
      BY <2>2, <3>1, FS_CardinalityType
  <2>4. n <= m + 1 /\ n \in Nat
    <3> DEFINE t == [block |-> b, src |-> "backfill"]
    <3>1. queue' = queue \/ queue' = Append(queue, t)
      BY <2>1 DEF Push
    <3>2. t \in Task
      BY <1>2, <2>1 DEF Task, Source
    <3>3. queue' \in Seq(Task)
      BY DEF TypeOK
    <3>4. n \in Nat
      BY <3>3, WaitingNext
    <3> HIDE DEF t
    <3>5. CASE queue' = queue
      BY <1>2, <1>6, <3>4, <3>5
    <3>6. CASE queue' = Append(queue, t)
      BY <1>2, <3>2, <3>4, <3>6, WaitingGrows
    <3> QED
      BY <3>1, <3>5, <3>6
  <2>5. m + Cardinality(bf.todo) <= IdleSize + BatchSize
    BY <2>2 DEF QueueInv
  <2>6. n + Cardinality(bf'.todo) <= IdleSize + BatchSize /\ n <= IdleSize + BatchSize
    <3> HIDE DEF m, n
    <3> QED
      BY <1>2, <2>3, <2>4, <2>5
  <2> QED
    BY <1>4, <2>2, <2>6 DEF QueueInv, BackfillQueueBound
<1> QED
  BY <1>8, <1>9, <1>10, <1>11, <1>12 DEF BackfillStep, BackfillReturns, poolVars

\* Main starts the first run with an empty queue.
LEMMA QueueMain ==
  ASSUME QueueInv, TypeOK', Boot \/ Shutdown \/ MainFault
  PROVE  QueueInv'
<1> USE DEF poolVars, bfVars
<1>1. TypeOK /\ Cardinality(Waiting("backfill")) \in Nat
  BY QueueNumbers DEF QueueInv
<1>2. ASSUME queue' = <<>> PROVE Cardinality(Waiting("backfill")') = 0
  <2>1. Waiting("backfill")' = {}
    BY <1>2 DEF Waiting
  <2> QED
    BY <2>1, FS_EmptySet
<1>3. CASE ProcessGone
  <2>1. bf'.pc = "off" /\ queue' = <<>>
    BY <1>3 DEF ProcessGone, Off
  <2> QED
    BY <1>1, <1>2, <2>1, QueueNumbers DEF QueueInv, BackfillQueueBound
<1>4. CASE InitUpper
  <2>1. ~Running /\ Running' /\ queue' = queue /\ bf'.pc = "bounds"
    BY <1>4 DEF InitUpper, Running, Stopping, Off
  <2>2. queue' = <<>>
    BY <2>1 DEF QueueInv
  <2> QED
    BY <1>1, <1>2, <2>1, <2>2, QueueNumbers DEF QueueInv, BackfillQueueBound
<1>5. CASE ~ProcessGone /\ ~InitUpper
  <2>1. bf' = bf /\ queue' = queue /\ (Running' <=> Running)
    BY <1>5 DEF Boot, Start, AskLatest, InitLower, Shutdown, StopSyncer, StopBackfill, BackfillStop,
                StopPool, Drained, CleanupDB, CloseDB, Exit, MainFault, Signal, Crash,
                CleanupFailed, Running, Stopping
  <2>2. Waiting("backfill")' = Waiting("backfill")
    BY <2>1 DEF Waiting
  <2>3. ~Running => queue' = <<>>
    BY <2>1 DEF QueueInv
  <2> QED
    BY <1>1, <2>1, <2>2, <2>3, QueueOthers
<1> QED
  BY <1>3, <1>4, <1>5

\* Every step keeps the account of what the backfiller queued.
LEMMA QueueStep == QueueInv /\ [Next]_vars => QueueInv'
<1> SUFFICES ASSUME QueueInv, [Next]_vars PROVE QueueInv'
  OBVIOUS
<1>1. TypeOK'
  BY TypeStep DEF QueueInv
<1>2. CASE UNCHANGED vars
  <2>1. bf' = bf /\ queue' = queue /\ phase' = phase
    BY <1>2 DEF vars, bfVars, poolVars
  <2>2. Waiting("backfill")' = Waiting("backfill")
    BY <2>1 DEF Waiting
  <2> QED
    BY <1>1, <2>1, <2>2 DEF QueueInv, BackfillQueueBound, Running
<1> QED
  BY <1>1, <1>2, QueueWorker, QueueSyncer, QueueBackfill, QueueMain DEF Next, Faulty

\* Whatever the workers leave undone, the tasks of the backfiller that wait
\* are at most one batch and the few that a tick tolerates, although a block
\* stays missing until it is marked and the queue has no bound.
THEOREM BackfillBounded == Spec => []BackfillQueueBound
<1>1. QueueInv => BackfillQueueBound
  BY DEF QueueInv
<1> QED
  BY <1>1, QueueInit, QueueStep, PTL DEF Spec

(***************************************************************************)
(* What the backfiller leaves to the syncer.                               *)
(***************************************************************************)
\* No run is under way at first.
LEMMA TickInit == Init => TickInv
  BY HeaderInit DEF Init, BackfillInit, Off, TickInv

\* Nothing is claimed of a run that has not read its range yet.
LEMMA TickIdle == ASSUME HeaderInv', bf'.pc \notin {"scan", "push"} PROVE TickInv'
  BY DEF TickInv

\* While a run goes on, the upper bound falls only to a header on its way, and
\* the headers that come are near a head that has passed the range already.
LEMMA TickKept == ASSUME TickInv, HeaderInv', [Next]_vars, bf' = bf PROVE TickInv'
<1>1. TypeOK /\ TypeOK'
  BY DEF TickInv, HeaderInv, RangeInv
<1>2. /\ upper \in Int /\ head \in Int /\ MaxDepth \in Nat \ {0} /\ GetLowerBound \in Int
      /\ \A n \in Pending : n \in Int
  BY <1>1, HeaderNumbers
<1>3. bf.hi \in Nat /\ \A b \in bf.todo : b \in Int
  BY <1>1 DEF TypeOK, Run, Block
<1>4. upper' \in Int /\ head' \in Int /\ GetLowerBound' \in Nat /\ \A n \in Pending' : n \in Int
  <2>1. \A i \in 1..Len(wire') : wire'[i] \in Block
    BY <1>1, ElementOfSeq DEF TypeOK
  <2>2. GetLowerBound' \in Block
    BY <1>1 DEF TypeOK, OptBlock, GetLowerBound, None, Block
  <2> QED
    BY <1>1, <2>1, <2>2 DEF TypeOK, EnvTypeOK, OptBlock, Pending, Block, None
<1>5. CASE bf.pc \in {"scan", "push"} /\ bf.skip /\ bf.hi > GetLowerBound'
  <2>1. phase # "upper"
    BY <1>5 DEF TickInv, HeaderInv, Running, Stopping
  <2>2. bf.hi > GetLowerBound
    <3>1. GetLowerBound' = GetLowerBound \/ GetLowerBound = 0
      BY <1>1, BoundMoves
    <3> QED
      BY <1>2, <1>3, <1>4, <1>5, <3>1
  <2>3. bf.hi + 1 < upper + MaxDepth /\ Above(Pending, bf.hi + 1) /\ bf.hi < head
    BY <1>5, <2>2 DEF TickInv
  <2>4. bf.hi + 1 < upper' + MaxDepth
    <3>1. upper' = upper \/ upper' \in Pending
      BY <1>1, <2>1, BoundMoves
    <3> QED
      BY <2>3, <3>1 DEF Above
  <2>5. bf.hi < head'
    <3>1. head <= head'
      BY <1>1, BoundMoves
    <3> QED
      BY <1>2, <1>3, <1>4, <2>3, <3>1
  <2>6. ASSUME NEW n \in Pending' PROVE bf.hi + 1 < n + MaxDepth
    <3>1. n \in Pending \/ head' < n + MaxDepth
      BY <1>1, BoundMoves
    <3>2. CASE n \in Pending
      BY <2>3, <3>2 DEF Above
    <3>3. CASE head' < n + MaxDepth
      BY <1>2, <1>3, <1>4, <2>5, <3>3
    <3> QED
      BY <3>1, <3>2, <3>3
  <2> QED
    BY <2>4, <2>5, <2>6 DEF TickInv, Above
<1>6. CASE ~(bf.pc \in {"scan", "push"} /\ bf.skip /\ bf.hi > GetLowerBound')
  BY <1>6 DEF TickInv
<1> QED
  BY <1>5, <1>6

\* A run reads the end of its range from the upper bound, and keeps to it.
LEMMA TickBackfill ==
  ASSUME TickInv, HeaderInv', BackfillStep \/ BackfillReturns
  PROVE  TickInv'
<1>1. UNCHANGED <<head, lower, upper, wire, setting>>
  BY DEF BackfillStep, BackfillReturns, envVars, dbVars, syncVars
<1>2. GetLowerBound' = GetLowerBound /\ Pending' = Pending
  BY <1>1 DEF GetLowerBound, Pending
<1>3. TypeOK /\ upper <= head /\ Above(Pending, upper)
  BY DEF TickInv, HeaderInv, RangeInv
<1>4. /\ upper \in Int /\ head \in Int /\ MaxDepth \in Nat \ {0} /\ GetLowerBound \in Int
      /\ \A n \in Pending : n \in Int
  BY <1>3, HeaderNumbers
<1>5. bf \in Run /\ bf.hi \in Int
  BY <1>3 DEF TypeOK, Run, Block
<1>6. CASE Tick \/ ResetTicker \/ BackfillExit
  <2>1. CASE Tick
    BY <2>1, TickIdle DEF Tick, Off
  <2>2. CASE ResetTicker
    BY <2>2, TickIdle DEF ResetTicker, BetweenRuns, Off
  <2>3. CASE BackfillExit
    BY <2>3, TickIdle DEF BackfillExit, Off
  <2> QED
    BY <1>6, <2>1, <2>2, <2>3
<1>7. CASE ReadBounds
  <2>1. CASE bf' = BetweenRuns
    BY <2>1, TickIdle DEF BetweenRuns, Off
  <2>2. CASE bf' = [bf EXCEPT !.pc = "scan", !.hi = RangeEnd(bf.skip)]
    <3>1. bf'.pc = "scan" /\ bf'.hi = RangeEnd(bf.skip) /\ bf'.skip = bf.skip
      BY <1>5, <2>2 DEF Run
    <3>2. bf'.skip /\ bf'.hi > GetLowerBound => bf'.hi = upper - 1
      BY <1>4, <3>1 DEF RangeEnd, GetUpperBound
    <3>3. upper - 1 + 1 = upper /\ upper < upper + MaxDepth /\ upper - 1 < head
      BY <1>3, <1>4
    <3> QED
      BY <1>1, <1>2, <1>3, <3>1, <3>2, <3>3 DEF TickInv
  <2> QED
    BY <1>7, <2>1, <2>2 DEF ReadBounds
<1>8. CASE Scan
  <2> DEFINE L == LowestOf(Missing(GetLowerBound, bf.hi), BatchSize)
  <2>1. CASE bf' = BetweenRuns
    BY <2>1, TickIdle DEF BetweenRuns, Off
  <2>2. CASE bf' # BetweenRuns
    <3>1. /\ bf'.pc = "push" /\ bf'.todo = L /\ bf'.hi = bf.hi /\ bf'.skip = bf.skip
          /\ bf.pc = "scan"
      BY <1>5, <1>8, <2>2 DEF Scan, Run
    <3>2. \A b \in L : b <= bf.hi
      BY <1>4, <1>5 DEF LowestOf, Missing
    <3> HIDE DEF L
    <3> QED
      BY <1>1, <1>2, <3>1, <3>2 DEF TickInv
  <2> QED
    BY <2>1, <2>2
<1>9. CASE PushMissing
  <2>1. bf.pc = "push" /\ \E b \in bf.todo : bf' = [bf EXCEPT !.todo = @ \ {b}]
    BY <1>9 DEF PushMissing
  <2>2. /\ bf'.pc = "push" /\ bf'.hi = bf.hi /\ bf'.skip = bf.skip
        /\ bf'.todo \subseteq bf.todo
    BY <1>5, <2>1 DEF Run
  <2> QED
    BY <1>1, <1>2, <2>1, <2>2 DEF TickInv
<1> QED
  BY <1>6, <1>7, <1>8, <1>9 DEF BackfillStep, BackfillReturns

\* Every step keeps the range of a run below what the upper bound can fall to.
LEMMA TickStep == TickInv /\ [Next]_vars => TickInv'
<1> SUFFICES ASSUME TickInv, [Next]_vars PROVE TickInv'
  OBVIOUS
<1>1. HeaderInv'
  BY HeaderStep DEF TickInv
<1>2. CASE BackfillStep \/ BackfillReturns
  BY <1>1, <1>2, TickBackfill
<1>3. CASE InitUpper \/ ProcessGone
  BY <1>1, <1>3, TickIdle DEF InitUpper, ProcessGone, Off
<1>4. CASE bf' = bf
  BY <1>1, <1>4, TickKept
<1>5. CASE UNCHANGED vars \/ \E w \in Worker : ProcessorStep(w) \/ ProcessorFault(w)
  BY <1>4, <1>5 DEF vars, bfVars, ProcessorStep, ProcessorFault
<1>6. CASE BlockMined \/ BlockReplaced \/ SyncerStep \/ SyncerFault
  BY <1>4, <1>6 DEF BlockMined, BlockReplaced, SyncerStep, SyncerFault, ConnectionLost,
                    WriteFailed, bfVars
<1>7. CASE Boot \/ Shutdown \/ MainFault
  BY <1>3, <1>4, <1>7
  DEF Boot, Start, AskLatest, InitLower, Shutdown, StopSyncer, StopBackfill, BackfillStop, StopPool,
      Drained, CleanupDB, CloseDB, Exit, MainFault, Signal, Crash, CleanupFailed, bfVars
<1> QED
  BY <1>2, <1>5, <1>6, <1>7 DEF Next, Faulty

\* A tick queues no block that the depth of a reorganisation does not explain
\* at or above the upper bound, however headers, in or out of order, move the
\* bound between the steps of the run, and whatever the lag of the node and
\* the restarts before.  Without deep reorganisations it leaves out the newest.
THEOREM NewestLeftToSyncer == Spec => []TickLeavesNewest
<1>1. TickInv => TickLeavesNewest
  <2> SUFFICES ASSUME TickInv, bf.pc = "push", bf.skip, upper > GetLowerBound,
                      NEW b \in bf.todo
               PROVE  b < upper + MaxDepth - 1
    BY DEF TickLeavesNewest
  <2>1. TypeOK
    BY DEF TickInv, HeaderInv, RangeInv
  <2>2. upper \in Int /\ GetLowerBound \in Int /\ MaxDepth \in Nat \ {0}
    BY <2>1, HeaderNumbers
  <2>3. bf.hi \in Int /\ b \in Int
    BY <2>1 DEF TypeOK, Run, Block
  <2>4. b <= bf.hi /\ (bf.hi > GetLowerBound => bf.hi + 1 < upper + MaxDepth)
    BY DEF TickInv
  <2> QED
    BY <2>2, <2>3, <2>4
<1> QED
  BY <1>1, TickInit, TickStep, PTL DEF Spec
=============================================================================
