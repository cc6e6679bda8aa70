------------------------- MODULE TrackerProperties -------------------------
(***************************************************************************)
(* What should hold of the tracker as a whole.                             *)
(***************************************************************************)
EXTENDS Tracker

(***************************************************************************)
(* Types.                                                                  *)
(***************************************************************************)
OptBlock == Block \union {None}
Task     == [block : Block, src : Source]
Job      == [pc : {"idle", "fetch", "send"}, block : Block, ver : Version,
             next : 1..(EventCount + 1)]
Run      == [pc : {"off", "bounds", "scan", "push", "wait"}, skip : BOOLEAN,
             hi : Block, todo : SUBSET Block, many : BOOLEAN]

\* Every variable has its type: the state the Go types and the code's own
\* assignments allow.
TypeOK ==
  /\ EnvTypeOK
  /\ lower \in OptBlock /\ upper \in OptBlock
  /\ marked \in SUBSET Block /\ dbOpen \in BOOLEAN
  /\ queue \in Seq(Task) /\ open \in BOOLEAN
  /\ job \in [Worker -> Job] /\ stream \in SUBSET Event
  /\ sub \in SubState /\ wire \in Seq(Block)
  /\ setting \in OptBlock /\ latest \in OptBlock
  /\ bf \in Run /\ ticker \in {"idle", "busy", "stopped"} /\ stopCh \in BOOLEAN
  /\ phase \in Phase /\ bootLatest \in OptBlock

(***************************************************************************)
(* Safety.                                                                 *)
(***************************************************************************)
\* ProcessBlock marks a block only after every event of one and the same
\* version of it was stored by JetStream, through failed attempts, lost
\* acknowledgements, reorganisations, crashes and two workers that have the
\* same block at once.
MarkedMeansDelivered ==
  \A b \in marked : \E v \in Version : Sent(b, v, EventCount)

\* Why: a worker that publishes event n of a block has had the events before
\* n stored, all of them of the version it fetched.
SentPrefix ==
  \A w \in Worker :
     job[w].pc = "send" => Sent(job[w].block, job[w].ver, job[w].next - 1)

\* A worker that is still fetching starts with the first event.
FetchingFresh == \A w \in Worker : job[w].pc = "fetch" => job[w].next = 1

\* The inductive invariant behind MarkedMeansDelivered and the refinement.
DeliveryInv == TypeOK /\ SentPrefix /\ FetchingFresh /\ MarkedMeansDelivered

\* Run is started only when the pool is nearly idle, so what the backfiller
\* adds to the (otherwise unbounded) queue stays within one batch.
BackfillQueueBound == Cardinality(Waiting("backfill")) <= IdleSize + BatchSize

\* No task is ever queued for a block the chain does not have yet, although
\* the bounds, the headers and the tasks come from different sources.
OnlyExistingBlocksQueued ==
  /\ \A i \in 1..Len(queue) : queue[i].block <= head
  /\ \A w \in Worker : job[w].pc # "idle" => job[w].block <= head

\* The database is closed only after the last worker stopped: no mark is lost
\* to a closed database, and no block waits in a pool that nobody drains.
NoWorkAfterClose ==
  ~dbOpen => AllIdle /\ queue = <<>>

\* A tick leaves the newest tracked block to the syncer that has just queued
\* it (Run(true)), at least while the range has more than one block.  A
\* reorganisation sends headers below those before it, which take the upper
\* bound down with them: by its depth the block may then be above the bound.
TickLeavesNewest ==
  bf.pc = "push" /\ bf.skip /\ upper > GetLowerBound =>
    \A b \in bf.todo : b < upper + MaxDepth - 1

\* The blocks that the service is to process.  A lower bound of 0 is read as
\* "not set" at the next start.
Tracked(b) == 0 < GetLowerBound /\ GetLowerBound <= b /\ b <= upper

\* How far the upper bound may fall: to the answer of a replica that lags, at
\* a restart, or to the first header of a reorganisation.
Slack == IF RpcLag < MaxDepth THEN MaxDepth - 1 ELSE RpcLag

\* A tracked block that the upper bound has left so far behind stays tracked
\* for ever, through reorganisations, lost headers, failed writes, shutdowns,
\* crashes and the bounds that syncer.New computes again on every start.
Settled(b) == Tracked(b) /\ b + Slack <= upper
NoAbandonedBlock == \A b \in Block : [](Settled(b) => []Tracked(b))

(***************************************************************************)
(* Why the last of these hold: inductive invariants.                       *)
(***************************************************************************)
\* Every block number in transit, from a header or an answer of the node to a
\* worker, is one the chain has.
RangeInv ==
  /\ TypeOK
  /\ upper <= head /\ bootLatest <= head /\ setting <= head
  /\ \A i \in 1..Len(wire) : wire[i] <= head
  /\ bf.hi <= head /\ \A b \in bf.todo : b <= head
  /\ OnlyExistingBlocksQueued

\* What main has opened and closed by then, and that nothing is left to do
\* from the moment the pool has drained.
LifecycleInv ==
  /\ TypeOK
  /\ dbOpen <=> phase \notin {"down", "closed"}
  /\ phase \in {"drain", "cleanup", "close", "closed", "down"} => ~open
  /\ phase \in {"cleanup", "close", "closed", "down"} => AllIdle /\ queue = <<>>

\* What the backfiller has queued, and what its run is still to queue: a run
\* begins with a nearly empty queue.
QueueInv ==
  /\ TypeOK
  /\ ~Running => bf.pc = "off" /\ queue = <<>>
  /\ BackfillQueueBound
  /\ bf.pc \in {"bounds", "scan"} => Cardinality(Waiting("backfill")) <= IdleSize
  /\ bf.pc = "push" =>
       Cardinality(Waiting("backfill")) + Cardinality(bf.todo) <= IdleSize + BatchSize

\* No number in S is below b by as much as a reorganisation is deep.
Above(S, b) == \A n \in S : b < n + MaxDepth

\* The numbers in q never fall by as much as a reorganisation is deep.
Steady(q) == \A i \in 1..Len(q) : \A j \in 1..i : q[j] < q[i] + MaxDepth

\* The headers whose number is still to become the upper bound.
Pending == {wire[i] : i \in 1..Len(wire)} \union ({setting} \ {None})

\* The order of the headers: none of those to come takes the upper bound down
\* by more than the depth of a reorganisation, nor an answer at start up by
\* more than the lag of the node.
HeaderInv ==
  /\ RangeInv
  /\ ~Running => bf.pc = "off" /\ sub = "unstarted" /\ setting = None /\ wire = <<>>
  /\ Above(Pending, upper)
  /\ setting # None => \A i \in 1..Len(wire) : setting < wire[i] + MaxDepth
  /\ Steady(wire)
  /\ phase \in {"lower", "upper"} => upper <= bootLatest + RpcLag

\* The range of a run that leaves out the newest block ended below the upper
\* bound, and below the head: what the bound falls by afterwards is limited.
TickInv ==
  /\ HeaderInv
  /\ bf.pc \in {"scan", "push"} /\ bf.skip /\ bf.hi > GetLowerBound =>
       /\ bf.hi + 1 < upper + MaxDepth /\ Above(Pending, bf.hi + 1)
       /\ bf.hi < head
  /\ bf.pc = "push" => \A b \in bf.todo : b <= bf.hi

\* Why a settled block stays tracked: the head has left it behind by the
\* slack, and no number that is to become the upper bound is below it.
Kept(b) ==
  /\ Tracked(b)
  /\ b + Slack <= head
  /\ \A n \in Pending : b <= n
  /\ phase \in {"lower", "upper"} => b <= bootLatest

(***************************************************************************)
(* Liveness.                                                               *)
(***************************************************************************)
\* Every tracked block below the newest one is processed in the end, whatever
\* was missed, lost or failed on the way: the backfiller finds it.  Only a
\* fall of the upper bound takes it out of the backfiller's sight, which
\* NoAbandonedBlock limits to the last blocks of the range.
EventuallyProcessed ==
  \A b \in Block \ Undecodable :
     (Tracked(b) /\ b < upper) ~> (b \in marked \/ b >= upper)

\* A graceful shutdown that has begun comes to its end.
ShutdownCompletes == (phase = "stopSync") ~> (phase = "down")

(***************************************************************************)
(* Refinement.                                                             *)
(***************************************************************************)
Ledger == INSTANCE BlockLedger
            WITH delivered <- stream, processed <- marked, floor <- GetLowerBound

\* The tracker implements the ledger.
LedgerSpec == Ledger!Spec

(***************************************************************************)
(* What documentation and comments say and the code does not do.           *)
(***************************************************************************)
\* README.md: the database "keeps track of all blocks missed by the processor
\* to attempt a retry later on".  The current content of a tracked block is
\* delivered in the end.
CanonicalDelivered ==
  \A b \in Block : \A v \in Version :
     (Tracked(b) /\ b < upper /\ canon[b] = v)
        ~> (canon[b] # v \/ Sent(b, v, EventCount))
=============================================================================
