------------------------------ MODULE Backfill ------------------------------
(***************************************************************************)
(* src/internal/backfill: the goroutine that looks for blocks without a    *)
(* mark between the bounds and queues the lowest of them.  It runs once at *)
(* start over the whole range, then on ticks that find the pool nearly     *)
(* idle, leaving out the newest block.                                     *)
(***************************************************************************)
EXTENDS BlockDB, WorkerPool

CONSTANT BatchSize      \* blocks queued by one run at most

ASSUME BackfillAssumption == BatchSize \in Nat \ {0}

VARIABLES bf,       \* the goroutine: where it is in Run, and Run's locals
          ticker,   \* the interval the ticker is set to, or "stopped"
          stopCh    \* TRUE once the stop channel is closed

bfVars == <<bf, ticker, stopCh>>

Off == [pc |-> "off", skip |-> FALSE, hi |-> 0, todo |-> {}, many |-> FALSE]
BetweenRuns == [Off EXCEPT !.pc = "wait"]

\* minQueueSizeForIdleCheck
IdleSize == 1

BackfillInit == bf = Off /\ ticker = "idle" /\ stopCh = FALSE

\* Slip: the newest block is not left out of a range of two.
RangeEndOffByOne(skip) ==
  IF skip /\ GetUpperBound > GetLowerBound + 1 THEN GetUpperBound - 1 ELSE GetUpperBound

\* Slip: the upper bound is taken for the first block that is not tracked yet.
RangeEndPastNewest(skip) ==
  IF skip /\ GetUpperBound > GetLowerBound THEN GetUpperBound ELSE GetUpperBound + 1

\* The range Run looks at ends here.
RangeEnd(skip) ==
  IF skip /\ GetUpperBound > GetLowerBound THEN GetUpperBound - 1 ELSE GetUpperBound

\* Slip: a tick does not look at the pool.
TickAlways ==
  /\ bf.pc = "wait" /\ ticker # "stopped"
  /\ bf' = [Off EXCEPT !.pc = "bounds", !.skip = TRUE]
  /\ UNCHANGED <<ticker, stopCh>>

\* A tick starts a run unless the pool is busy.
Tick ==
  /\ bf.pc = "wait" /\ ticker # "stopped"
  /\ Size <= IdleSize
  /\ bf' = [Off EXCEPT !.pc = "bounds", !.skip = TRUE]
  /\ UNCHANGED <<ticker, stopCh>>

\* Slip: a range of one block counts as empty.
ReadBoundsStrict ==
  /\ bf.pc = "bounds"
  /\ bf' = IF dbOpen /\ GetLowerBound < RangeEnd(bf.skip)
           THEN [bf EXCEPT !.pc = "scan", !.hi = RangeEnd(bf.skip)]
           ELSE BetweenRuns
  /\ UNCHANGED <<ticker, stopCh>>

\* Run reads the two bounds.  It ends on a closed database or an empty range.
ReadBounds ==
  /\ bf.pc = "bounds"
  /\ bf' = IF dbOpen /\ GetLowerBound <= RangeEnd(bf.skip)
           THEN [bf EXCEPT !.pc = "scan", !.hi = RangeEnd(bf.skip)]
           ELSE BetweenRuns
  /\ UNCHANGED <<ticker, stopCh>>

\* Run reads the missing blocks; without any it leaves the ticker as it is.
Scan ==
  /\ bf.pc = "scan"
  /\ LET missing == Missing(GetLowerBound, bf.hi) IN
       bf' = IF dbOpen /\ missing # {}
             THEN [bf EXCEPT !.pc   = "push",
                             !.todo = LowestOf(missing, BatchSize),
                             !.many = Cardinality(missing) > BatchSize]
             ELSE BetweenRuns
  /\ UNCHANGED <<ticker, stopCh>>

\* One block of the batch is queued, in ascending order.
PushMissing ==
  /\ bf.pc = "push"
  /\ \E b \in bf.todo :
       /\ \A c \in bf.todo : b <= c
       /\ Push(b, "backfill")
       /\ bf' = [bf EXCEPT !.todo = @ \ {b}]
  /\ UNCHANGED <<ticker, stopCh, open>>

\* The batch is queued: the ticker is set again, even when it was stopped.
ResetTicker ==
  /\ bf.pc = "push" /\ bf.todo = {}
  /\ ticker' = IF bf.many THEN "busy" ELSE "idle"
  /\ bf' = BetweenRuns
  /\ UNCHANGED stopCh

\* Start returns once it sees the closed channel.
BackfillExit ==
  /\ bf.pc = "wait" /\ stopCh
  /\ bf' = Off
  /\ UNCHANGED <<ticker, stopCh>>

\* Slip: only the ticker is stopped.
BackfillStopTickerOnly == ticker' = "stopped" /\ UNCHANGED <<bf, stopCh>>

\* Stop: a run under way is not interrupted.
BackfillStop ==
  /\ ticker' = "stopped"
  /\ stopCh' = TRUE
  /\ UNCHANGED bf
=============================================================================
