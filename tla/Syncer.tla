------------------------------- MODULE Syncer -------------------------------
(***************************************************************************)
(* src/internal/syncer, realtime.go: the subscription to new headers.      *)
(* ResubscribeErr keeps retrying until a subscription lives; its loop then *)
(* hands every header to queueRealtimeBlock, one at a time.                *)
(***************************************************************************)
EXTENDS Environment, BlockDB, WorkerPool

VARIABLES sub,      \* the state of the subscription
          wire,     \* headers the node sent and the loop has not received
          setting,  \* block queued whose SetUpperBound is still to come
          latest    \* stats.latestBlock

syncVars == <<sub, wire, setting, latest>>

SubState == {"unstarted", "retrying", "live", "stopped"}

SyncerInit == sub = "unstarted" /\ wire = <<>> /\ setting = None /\ latest = None

\* The node sends the headers of its new blocks to whoever is subscribed.
Announce(lo, hi) ==
  wire' = IF sub = "live" THEN wire \o [i \in 1..(hi - lo + 1) |-> lo + i - 1] ELSE wire

\* Start: ResubscribeErr is running.
SyncStart ==
  /\ sub = "unstarted"
  /\ sub' = "retrying"
  /\ UNCHANGED <<wire, setting, latest>>

\* SubscribeNewHead succeeds.  A subscription starts without any backlog.
Subscribe ==
  /\ sub = "retrying"
  /\ sub' = "live"
  /\ UNCHANGED <<wire, setting, latest>>

\* queueRealtimeBlock, first half: the block is queued and reported.
QueueHeader ==
  /\ sub = "live" /\ setting = None
  /\ wire # <<>>
  /\ wire' = Tail(wire)
  /\ Push(Head(wire), "sync")
  /\ latest' = Head(wire)
  /\ setting' = Head(wire)
  /\ UNCHANGED <<sub, open, dbVars>>

\* queueRealtimeBlock, second half.  The header's number becomes the bound,
\* also when it is below the bound there is.
RaiseUpper ==
  /\ setting # None
  /\ SetUpperBound(setting)
  /\ setting' = None
  /\ UNCHANGED <<sub, wire, latest, lower, marked, dbOpen, poolVars>>

\* SetUpperBound fails: the loop logs the error and goes on.
RaiseFails ==
  /\ setting # None
  /\ setting' = None
  /\ UNCHANGED <<sub, wire, latest>>

\* The connection drops; headers under way are lost.
Disconnect ==
  /\ sub = "live" /\ setting = None
  /\ sub' = "retrying"
  /\ wire' = <<>>
  /\ UNCHANGED <<setting, latest>>

\* Stop: Unsubscribe returns once the loop has finished its header.  Nothing
\* is stopped when Start has not stored the subscription yet.
SyncStop ==
  /\ setting = None
  /\ sub' = IF sub = "unstarted" THEN sub ELSE "stopped"
  /\ wire' = <<>>
  /\ UNCHANGED <<setting, latest>>
=============================================================================
