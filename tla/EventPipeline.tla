--------------------------- MODULE EventPipeline ---------------------------
(***************************************************************************)
(* What happens inside ProcessBlock: receipts are taken apart into logs,   *)
(* creations and reverted calls; each is filtered by the cache, routed to  *)
(* its handler, which may update the cache, and published.  Several blocks *)
(* are in work at once, on one cache and one stream.  Which blocks those   *)
(* are is left open here: module Tracker shows that the pool may hand out  *)
(* any tracked block, in any order, more than once.  The cache is filled   *)
(* call by call at each start, while the chain goes on, and the lower      *)
(* bound of the tracked blocks is fixed after that, once and for all.      *)
(***************************************************************************)
EXTENDS Handlers, AddressCache, JetStream, Integers, SequencesExt

CONSTANTS Worker,
          Chain,            \* of each block, from block 1 on, its versions: each
                            \* the sequence of the receipts of the block
          FirstHead,        \* the newest block when the tracker first starts
          GenesisMembers,   \* <<index, address>> pairs before block 1
          IndexOrder,       \* the indexes, in the order bootstrap reads them
          NoAddress,        \* the nil address
          QuietStart,       \* assume a still chain during the first start
          MaxFaults,        \* bound: failed attempts and lost acknowledgements
          MaxRestarts,      \* bound: restarts of the service
          MaxExpiries       \* bound: MsgIDs that leave the duplicate window

ASSUME PipelineAssumption ==
  /\ NoAddress \notin Address
  /\ Len(Chain) \in Nat
  /\ \A b \in 1..Len(Chain) : Len(Chain[b]) \in Nat \ {0}
  /\ FirstHead \in 1..Len(Chain)
  /\ IndexOrder \in Seq(Entries)
  /\ GenesisMembers \subseteq ToSet(IndexOrder) \X Address
  /\ MaxFaults \in Nat /\ MaxRestarts \in Nat /\ MaxExpiries \in Nat
  /\ QuietStart \in BOOLEAN

\* What the node answers, as far as it is looked at.
LogRecord     == [index : Nat, addr : Address, topic : STRING, arg : Address,
                  parties : SUBSET Address, ok : BOOLEAN]
ReceiptRecord == [tx : STRING, status : STRING, from : Address,
                  to : Address \union {NoAddress}, created : Address \union {NoAddress},
                  logs : Seq(LogRecord), call : STRING, parties : SUBSET Address, ok : BOOLEAN]

\* A receipt names the contract its transaction creates, reverted or not.
ASSUME ChainAssumption ==
  \A b \in 1..Len(Chain) : \A v \in 1..Len(Chain[b]) :
    /\ Chain[b][v] \in Seq(ReceiptRecord)
    /\ \A i \in 1..Len(Chain[b][v]) :
         Chain[b][v][i].to = NoAddress => Chain[b][v][i].created # NoAddress

VARIABLES head,     \* blocks of the chain so far
          canon,    \* the version of each block that is canonical now
          boot,     \* how far start up has come, the indexes still to be read
          floor,    \* the lower bound of the tracked blocks, 0 while it is unset
          task,     \* what each worker is doing; seen is history: the blocks
                    \* that were marked when it began
          done,     \* blocks marked as processed
          acked,    \* history: events whose publication was acknowledged
          budget    \* faults, restarts and expiries spent

chainVars == <<head, canon>>
startVars == <<boot, floor>>
vars == <<cache, natsVars, chainVars, startVars, task, done, acked, budget>>

(***************************************************************************)
(* The items of a block, in the order ProcessBlock visits them.            *)
(***************************************************************************)
Unrouted == [type |-> "none", decodes |-> FALSE, network |-> FALSE, effect |-> "none"]

\* A log: filtered by its contract, numbered within the block.
LogItem(r, l) ==
  [tx |-> r.tx, index |-> l.index, who |-> l.addr, ok |-> l.ok,
   contract |-> l.addr, parties |-> l.parties, arg |-> l.arg,
   handler |-> IF l.topic \in DOMAIN LogRoutes THEN LogRoutes[l.topic] ELSE Unrouted]

\* A contract creation, reverted or not: filtered by the sender, index 0.
CreationItem(r) ==
  [tx |-> r.tx, index |-> 0, who |-> r.from, ok |-> TRUE, contract |-> r.created,
   parties |-> {}, arg |-> r.created, handler |-> HandleContractCreation]

\* A reverted call: filtered by the contract called, index 0.
InputItem(r) ==
  [tx |-> r.tx, index |-> 0, who |-> r.to, ok |-> r.ok, contract |-> r.to,
   parties |-> r.parties, arg |-> NoAddress,
   handler |-> IF r.call \in DOMAIN InputRoutes THEN InputRoutes[r.call] ELSE Unrouted]

ItemsOf(r) ==
  CASE r.status = "success" ->
         [i \in 1..Len(r.logs) |-> LogItem(r, r.logs[i])]
           \o (IF r.created = NoAddress THEN <<>> ELSE <<CreationItem(r)>>)
    [] r.status = "failed" ->
         IF r.to = NoAddress THEN <<CreationItem(r)>> ELSE <<InputItem(r)>>
    [] OTHER -> <<>>

Block == 1..Len(Chain)

Items ==
  [b \in Block |-> [v \in 1..Len(Chain[b]) |->
     FlattenSeq([i \in 1..Len(Chain[b][v]) |-> ItemsOf(Chain[b][v][i])])]]

EventOf(item) == [tx |-> item.tx, index |-> item.index, type |-> item.handler.type]

\* The items of blocks, in whatever version.
ItemsIn(blocks) == UNION {UNION {ToSet(Items[b][v]) : v \in 1..Len(Chain[b])} : b \in blocks}

Event == {EventOf(item) : item \in ItemsIn(Block)}

(***************************************************************************)
(* The indexes on the chain, as eth_call sees them at a given head.        *)
(***************************************************************************)
\* What an item of a block does to <<index, address>>, when its emitter is
\* that index.
Adds(item, m)    == item.who = m[1] /\ item.handler = HandleIndexAddLog /\ item.arg = m[2]
Removes(item, m) == item.who = m[1] /\ item.handler = HandleIndexRemoveLog /\ item.arg = m[2]

\* The places of the canonical items of the blocks from lo to hi, and their order.
Places(lo, hi) == UNION {{b} \X DOMAIN Items[b][canon[b]] : b \in lo..hi}
ItemAt(p)      == Items[p[1]][canon[p[1]]][p[2]]
Before(p, q)   == \/ p[1] < q[1]
                  \/ p[1] = q[1] /\ p[2] < q[2]

\* Who is in which index of the registry after block h: who was in it before
\* block 1 or has been added, and has not been removed since.
MembersAt(h) ==
  {m \in ToSet(IndexOrder) \X Address :
     \/ m \in GenesisMembers /\ \A q \in Places(1, h) : ~Removes(ItemAt(q), m)
     \/ \E p \in Places(1, h) :
          Adds(ItemAt(p), m) /\ \A q \in Places(1, h) : Before(p, q) => ~Removes(ItemAt(q), m)}

MembersOf(index) == {m[2] : m \in {p \in MembersAt(head) : p[1] = index}}

(***************************************************************************)
(* The pipeline.                                                           *)
(***************************************************************************)
NoTask == [pc |-> "idle", block |-> 0, ver |-> 0, n |-> 1, seen |-> {}]

AtStart == [stage |-> "registry", unread |-> IndexOrder]

Init == /\ cache = {} /\ boot = AtStart /\ floor = 0
        /\ NatsInit
        /\ head = FirstHead /\ canon = [b \in Block |-> 1]
        /\ task = [w \in Worker |-> NoTask]
        /\ done = {}
        /\ acked = {}
        /\ budget = [fault |-> 0, restart |-> 0, expiry |-> 0]

TaskItems(w) == Items[task[w].block][task[w].ver]
Item(w) == TaskItems(w)[task[w].n]
AtItem(w, pc) == task[w].pc = pc /\ task[w].n \in DOMAIN TaskItems(w)
NextItem(w) == task' = [task EXCEPT ![w].pc = "filter", ![w].n = @ + 1]
GiveUp(w)   == task' = [task EXCEPT ![w] = NoTask]
Spend(what, max) == budget[what] < max /\ budget' = [budget EXCEPT ![what] = @ + 1]

(***************************************************************************)
(* The chain.                                                              *)
(***************************************************************************)
ChainMoves == QuietStart => floor # 0

Mine == /\ head < Len(Chain) /\ ChainMoves
        /\ head' = head + 1
        /\ UNCHANGED <<canon, cache, natsVars, startVars, task, done, acked, budget>>

\* A block and those above it are replaced: by their next versions, or by
\* blocks with the same receipts where there is none.
Reorg ==
  /\ ChainMoves
  /\ \E k \in 1..head :
       /\ canon[k] < Len(Chain[k])
       /\ canon' = [b \in Block |-> IF b \in k..head /\ canon[b] < Len(Chain[b])
                                   THEN canon[b] + 1 ELSE canon[b]]
  /\ UNCHANGED <<head, cache, natsVars, startVars, task, done, acked, budget>>

(***************************************************************************)
(* Start up: cache.New, then syncer.New.                                   *)
(***************************************************************************)
BootRegistry ==
  /\ boot.stage = "registry"
  /\ ReadRegistry
  /\ boot' = [boot EXCEPT !.stage = "indexes"]
  /\ UNCHANGED <<natsVars, chainVars, floor, task, done, acked, budget>>

\* The next index is read, as it is at the head of now.
BootIndex ==
  /\ boot.stage = "indexes" /\ boot.unread # <<>>
  /\ ReadIndex(Head(boot.unread), MembersOf(Head(boot.unread)))
  /\ boot' = [boot EXCEPT !.unread = Tail(@)]
  /\ UNCHANGED <<natsVars, chainVars, floor, task, done, acked, budget>>

BootLists ==
  /\ boot.stage = "indexes" /\ boot.unread = <<>>
  /\ ApplyLists
  /\ boot' = [boot EXCEPT !.stage = "bounds"]
  /\ UNCHANGED <<natsVars, chainVars, floor, task, done, acked, budget>>

\* syncer.New: an unset lower bound becomes the latest block.
BootBounds ==
  /\ boot.stage = "bounds"
  /\ floor' = IF floor = 0 THEN head ELSE floor
  /\ boot' = [boot EXCEPT !.stage = "up"]
  /\ UNCHANGED <<cache, natsVars, chainVars, task, done, acked, budget>>

(***************************************************************************)
(* A worker with a block.                                                  *)
(***************************************************************************)
TaskOf(b) == [pc |-> "filter", block |-> b, ver |-> canon[b], n |-> 1, seen |-> done]

\* A slip: a block the node has not mined yet is asked for.
BeginAhead(w) ==
  /\ boot.stage = "up" /\ task[w].pc = "idle"
  /\ \E b \in Block \cap (floor..(head + 1)) : task' = [task EXCEPT ![w] = TaskOf(b)]
  /\ UNCHANGED <<cache, natsVars, chainVars, startVars, done, acked, budget>>

\* A worker is given a tracked block, which may be in work or done already;
\* the receipts of the version that is canonical now are fetched.
Begin(w) ==
  /\ boot.stage = "up" /\ task[w].pc = "idle"
  /\ \E b \in floor..head : task' = [task EXCEPT ![w] = TaskOf(b)]
  /\ UNCHANGED <<cache, natsVars, chainVars, startVars, done, acked, budget>>

\* The cache is asked first: an item of an unknown address is passed over.
Filter(w) ==
  /\ AtItem(w, "filter")
  /\ IF Exists(Item(w).who)
     THEN task' = [task EXCEPT ![w].pc = "handle"]
     ELSE NextItem(w)
  /\ UNCHANGED <<cache, natsVars, chainVars, startVars, done, acked, budget>>

\* No route for the item, or not within the network.
Ignore(w) ==
  /\ AtItem(w, "handle")
  /\ \/ Item(w).handler = Unrouted
     \/ /\ Item(w).ok /\ Item(w).handler.network
        /\ ~ExistsNetwork(Item(w).contract, Item(w).parties)
  /\ NextItem(w)
  /\ UNCHANGED <<cache, natsVars, chainVars, startVars, done, acked, budget>>

\* The handler cannot decode the arguments: the whole block is given up.
DecodeError(w) ==
  /\ AtItem(w, "handle")
  /\ Item(w).handler.decodes /\ ~Item(w).ok
  /\ GiveUp(w)
  /\ UNCHANGED <<cache, natsVars, chainVars, startVars, done, acked, budget>>

\* The handler accepts the item and updates the cache.
Accept(w) ==
  /\ AtItem(w, "handle")
  /\ Item(w).handler # Unrouted
  /\ Item(w).handler.decodes => Item(w).ok
  /\ Item(w).handler.network => ExistsNetwork(Item(w).contract, Item(w).parties)
  /\ CASE Item(w).handler.effect = "add"    -> AddAddress(Item(w).arg)
       [] Item(w).handler.effect = "remove" -> RemoveAddress(Item(w).arg)
       [] OTHER                             -> UNCHANGED cache
  /\ task' = [task EXCEPT ![w].pc = "publish"]
  /\ UNCHANGED <<natsVars, chainVars, startVars, done, acked, budget>>

\* The event is published and acknowledged.
Publish(w) ==
  /\ AtItem(w, "publish")
  /\ Receive(EventOf(Item(w)))
  /\ acked' = acked \union {EventOf(Item(w))}
  /\ NextItem(w)
  /\ UNCHANGED <<cache, chainVars, startVars, done, budget>>

\* The event reaches the server, the acknowledgement does not come back.
PublishUnacked(w) ==
  /\ AtItem(w, "publish")
  /\ Spend("fault", MaxFaults)
  /\ Receive(EventOf(Item(w)))
  /\ GiveUp(w)
  /\ UNCHANGED <<cache, chainVars, startVars, done, acked>>

\* A slip: the block is marked although an item of it failed.
FailButMark(w) ==
  /\ task[w].pc # "idle"
  /\ Spend("fault", MaxFaults)
  /\ done' = done \union {task[w].block}
  /\ GiveUp(w)
  /\ UNCHANGED <<cache, natsVars, chainVars, startVars, acked>>

\* A call to the node or to the server fails.
Fail(w) ==
  /\ task[w].pc # "idle"
  /\ Spend("fault", MaxFaults)
  /\ GiveUp(w)
  /\ UNCHANGED <<cache, natsVars, chainVars, startVars, done, acked>>

\* Every item went through: SetValue.
Finish(w) ==
  /\ task[w].pc = "filter" /\ task[w].n \notin DOMAIN TaskItems(w)
  /\ done' = done \union {task[w].block}
  /\ GiveUp(w)
  /\ UNCHANGED <<cache, natsVars, chainVars, startVars, acked, budget>>

\* The process ends, by a failed bootstrap or otherwise, and starts again
\* with an empty cache.
Restart ==
  /\ Spend("restart", MaxRestarts)
  /\ cache' = {} /\ boot' = AtStart
  /\ task' = [w \in Worker |-> NoTask]
  /\ UNCHANGED <<natsVars, chainVars, floor, done, acked>>

WindowPasses ==
  /\ Spend("expiry", MaxExpiries)
  /\ Expire
  /\ UNCHANGED <<cache, chainVars, startVars, task, done, acked>>

Next == \/ Mine \/ Reorg
        \/ BootRegistry \/ BootIndex \/ BootLists \/ BootBounds
        \/ Restart \/ WindowPasses
        \/ \E w \in Worker : \/ Begin(w) \/ Filter(w) \/ Ignore(w) \/ DecodeError(w)
                             \/ Accept(w) \/ Publish(w) \/ PublishUnacked(w)
                             \/ Fail(w) \/ Finish(w)

Spec == Init /\ [][Next]_vars
=============================================================================
