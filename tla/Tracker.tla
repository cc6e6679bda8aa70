------------------------------ MODULE Tracker ------------------------------
(***************************************************************************)
(* The service as src/cmd/service/main.go composes it: start up (with      *)
(* syncer.New fixing the range of blocks to track), the concurrent syncer, *)
(* backfiller and workers, graceful shutdown in its fixed order, a crash   *)
(* at any moment and the restart on what the database kept.                *)
(***************************************************************************)
EXTENDS Processor, Syncer, Backfill

CONSTANT StartBlock     \* chain.start_block: 0 means start at the newest

ASSUME TrackerAssumption == StartBlock \in Block

VARIABLES phase,        \* how far main has come
          bootLatest    \* syncer.New: the latestBlock the node answered

vars == <<envVars, dbVars, poolVars, procVars, syncVars, bfVars, phase, bootLatest>>

Booting  == {"boot", "lower", "upper"}
Stopping == {"stopSync", "stopBackfill", "stopPool", "drain", "cleanup", "close", "closed"}
Phase    == {"down", "up"} \union Booting \union Stopping

Init == /\ EnvInit /\ DBInit /\ PoolInit /\ ProcessorInit
        /\ SyncerInit /\ BackfillInit
        /\ phase = "down" /\ bootLatest = None

(***************************************************************************)
(* Start up.                                                               *)
(***************************************************************************)
\* The database is opened and the pool created.
Start ==
  /\ phase = "down"
  /\ phase' = "boot"
  /\ dbOpen' = TRUE /\ open' = TRUE
  /\ UNCHANGED <<envVars, lower, upper, marked, queue, procVars, syncVars, bfVars, bootLatest>>

\* syncer.New asks the node for the latest block.
AskLatest ==
  /\ phase = "boot"
  /\ bootLatest' \in LatestAnswers
  /\ phase' = "lower"
  /\ UNCHANGED <<envVars, dbVars, poolVars, procVars, syncVars, bfVars>>

\* Slip: every start initialises the lower bound.
InitLowerAgain ==
  /\ phase = "lower"
  /\ SetLowerBound(IF StartBlock > 0 THEN StartBlock ELSE bootLatest)
  /\ phase' = "upper"
  /\ UNCHANGED <<envVars, upper, marked, dbOpen, poolVars, procVars, syncVars, bfVars, bootLatest>>

\* A lower bound of 0 counts as unset and is initialised.
InitLower ==
  /\ phase = "lower"
  /\ IF GetLowerBound = 0
     THEN SetLowerBound(IF StartBlock > 0 THEN StartBlock ELSE bootLatest)
     ELSE UNCHANGED lower
  /\ phase' = "upper"
  /\ UNCHANGED <<envVars, upper, marked, dbOpen, poolVars, procVars, syncVars, bfVars, bootLatest>>

\* The upper bound becomes the latest block; main starts the goroutines, and
\* the backfiller's begins with Run(false).
InitUpper ==
  /\ phase = "upper"
  /\ SetUpperBound(bootLatest)
  /\ latest' = bootLatest
  /\ bf' = [Off EXCEPT !.pc = "bounds"]
  /\ phase' = "up"
  /\ bootLatest' = None
  /\ UNCHANGED <<envVars, lower, marked, dbOpen, poolVars, procVars, sub, wire, setting, ticker, stopCh>>

(***************************************************************************)
(* The concurrent parts, and what each of them leaves alone.               *)
(***************************************************************************)
MainIdle == UNCHANGED <<phase, bootLatest>>

BlockMined == /\ Mine /\ Announce(head', head')
              /\ UNCHANGED <<faults, dbVars, poolVars, procVars, sub, setting, latest, bfVars>>
              /\ MainIdle

BlockReplaced == /\ \E k \in Block : Reorg(k) /\ Announce(k, head)
                 /\ UNCHANGED <<faults, dbVars, poolVars, procVars, sub, setting, latest, bfVars>>
                 /\ MainIdle

Running == phase \in Stopping \union {"up"}

SyncerStep ==
  /\ Running /\ MainIdle
  /\ UNCHANGED <<envVars, procVars, bfVars>>
  /\ \/ (SyncStart \/ Subscribe) /\ UNCHANGED <<dbVars, poolVars>>
     \/ QueueHeader
     \/ RaiseUpper

ConnectionLost ==
  /\ Running /\ MainIdle
  /\ Disconnect /\ Fault
  /\ UNCHANGED <<head, canon, dbVars, poolVars, procVars, bfVars>>

WriteFailed ==
  /\ Running /\ MainIdle
  /\ RaiseFails /\ Fault
  /\ UNCHANGED <<head, canon, dbVars, poolVars, procVars, bfVars>>

BackfillStep ==
  /\ MainIdle
  /\ UNCHANGED <<envVars, dbVars, procVars, syncVars>>
  /\ \/ (Tick \/ ReadBounds \/ Scan \/ ResetTicker) /\ UNCHANGED poolVars
     \/ PushMissing

BackfillReturns ==
  /\ MainIdle
  /\ BackfillExit
  /\ UNCHANGED <<envVars, dbVars, poolVars, procVars, syncVars>>

ProcessorStep(w) == WorkerStep(w) /\ MainIdle /\ UNCHANGED <<syncVars, bfVars>>

ProcessorFault(w) == WorkerFault(w) /\ MainIdle /\ UNCHANGED <<syncVars, bfVars>>

(***************************************************************************)
(* Graceful shutdown: each step begins when the one before it returned.    *)
(***************************************************************************)
\* SIGINT or SIGTERM.
Signal ==
  /\ phase = "up"
  /\ Fault
  /\ phase' = "stopSync"
  /\ UNCHANGED <<head, canon, dbVars, poolVars, procVars, syncVars, bfVars, bootLatest>>

StopSyncer ==
  /\ phase = "stopSync"
  /\ SyncStop
  /\ phase' = "stopBackfill"
  /\ UNCHANGED <<envVars, dbVars, poolVars, procVars, bfVars, bootLatest>>

StopBackfill ==
  /\ phase = "stopBackfill"
  /\ BackfillStop
  /\ phase' = "stopPool"
  /\ UNCHANGED <<envVars, dbVars, poolVars, procVars, syncVars, bootLatest>>

\* StopAndWait: nothing more is accepted ...
StopPool ==
  /\ phase = "stopPool"
  /\ open' = FALSE
  /\ phase' = "drain"
  /\ UNCHANGED <<envVars, dbVars, queue, procVars, syncVars, bfVars, bootLatest>>

\* Slip: Stop does not wait for the tasks being executed.
DrainedQueueOnly ==
  /\ phase = "drain"
  /\ queue = <<>>
  /\ phase' = "cleanup"
  /\ UNCHANGED <<envVars, dbVars, poolVars, procVars, syncVars, bfVars, bootLatest>>

\* ... and what was accepted is finished.
Drained ==
  /\ phase = "drain"
  /\ queue = <<>> /\ AllIdle
  /\ phase' = "cleanup"
  /\ UNCHANGED <<envVars, dbVars, poolVars, procVars, syncVars, bfVars, bootLatest>>

CleanupDB ==
  /\ phase = "cleanup"
  /\ Cleanup
  /\ phase' = "close"
  /\ UNCHANGED <<envVars, poolVars, procVars, syncVars, bfVars, bootLatest>>

\* An error of Cleanup is logged, and the shutdown goes on.  It happens once
\* in the life of a process and is not taken from the budget.
CleanupFailed ==
  /\ phase = "cleanup"
  /\ phase' = "close"
  /\ UNCHANGED <<envVars, dbVars, poolVars, procVars, syncVars, bfVars, bootLatest>>

CloseDB ==
  /\ phase = "close"
  /\ dbOpen' = FALSE
  /\ phase' = "closed"
  /\ UNCHANGED <<envVars, lower, upper, marked, poolVars, procVars, syncVars, bfVars, bootLatest>>

\* What lived in the memory of the process is gone.
ProcessGone ==
  /\ phase' = "down" /\ bootLatest' = None
  /\ dbOpen' = FALSE
  /\ queue' = <<>> /\ open' = FALSE
  /\ job' = [w \in Worker |-> Idle]
  /\ sub' = "unstarted" /\ wire' = <<>> /\ setting' = None /\ latest' = None
  /\ bf' = Off /\ ticker' = "idle" /\ stopCh' = FALSE
  /\ UNCHANGED <<head, canon, lower, upper, marked, stream>>

\* wg.Wait: Start of the syncer and of the backfiller have returned as well.
Exit ==
  /\ phase = "closed"
  /\ sub # "unstarted" /\ bf.pc = "off"
  /\ ProcessGone
  /\ UNCHANGED faults

\* The process is killed, or exits on an error or on the shutdown timeout.
Crash == phase # "down" /\ Fault /\ ProcessGone

(***************************************************************************)
(* The specification.                                                      *)
(***************************************************************************)
Boot == Start \/ AskLatest \/ InitLower \/ InitUpper

Shutdown == \/ StopSyncer \/ StopBackfill \/ StopPool \/ Drained
            \/ CleanupDB \/ CloseDB \/ Exit

SyncerFault == ConnectionLost \/ WriteFailed

MainFault == Signal \/ Crash \/ CleanupFailed

Faulty == SyncerFault \/ MainFault \/ \E w \in Worker : ProcessorFault(w)

Next == \/ BlockMined \/ BlockReplaced
        \/ Boot
        \/ SyncerStep \/ BackfillStep \/ BackfillReturns
        \/ \E w \in Worker : ProcessorStep(w)
        \/ Shutdown
        \/ Faulty

Spec == Init /\ [][Next]_vars

\* The Go scheduler runs every goroutine that can run.  A closed stop channel
\* is not passed over for ever by the random choice of select.  Faults and
\* the node are under no obligation.
Fairness == /\ WF_vars(Boot) /\ WF_vars(SyncerStep) /\ WF_vars(BackfillStep)
            /\ SF_vars(BackfillReturns)
            /\ \A w \in Worker : WF_vars(ProcessorStep(w))
            /\ WF_vars(Shutdown)

FairSpec == Spec /\ Fairness
=============================================================================
