----------------------------- MODULE WorkerPool -----------------------------
(***************************************************************************)
(* src/internal/pool on top of pond: an unbounded FIFO queue of blocks     *)
(* that a fixed number of workers drain.  A task remembers who submitted   *)
(* it; the code does not keep that, only the properties read it.           *)
(***************************************************************************)
EXTENDS Integers, Sequences

VARIABLES queue,    \* tasks no worker has taken yet, oldest first
          open      \* FALSE once StopAndWait was called: Submit is refused

poolVars == <<queue, open>>

Source == {"sync", "backfill"}

PoolInit == queue = <<>> /\ open = FALSE

\* Push never blocks; a stopped pool drops the task without a trace.
Push(b, src) ==
  queue' = IF open THEN Append(queue, [block |-> b, src |-> src]) ELSE queue

\* WaitingTasks: the tasks being executed do not count.
Size == Len(queue)

\* The tasks of one source that are still waiting.
Waiting(src) == {i \in 1..Len(queue) : queue[i].src = src}
=============================================================================
