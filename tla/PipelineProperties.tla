------------------------- MODULE PipelineProperties -------------------------
(***************************************************************************)
(* What should hold of the events that are published and of the cache that *)
(* filters them.                                                           *)
(***************************************************************************)
EXTENDS EventPipeline

(***************************************************************************)
(* The reference: blocks in chain order, one at a time, nothing failing.   *)
(***************************************************************************)
Accepted(known, item) ==
  /\ item.who \in known
  /\ item.handler # Unrouted
  /\ item.handler.decodes => item.ok
  /\ item.handler.network => item.contract \in known /\ item.parties \cap known # {}

\* What is known after an item.
After(known, item) ==
  IF ~Accepted(known, item) THEN known
  ELSE CASE item.handler.effect = "add"    -> known \union {item.arg}
         [] item.handler.effect = "remove" -> known \ {item.arg}
         [] OTHER                          -> known

\* What is known after the first n of some items.
Course(start, items) ==
  LET known[n \in 0..Len(items)] == IF n = 0 THEN start ELSE After(known[n - 1], items[n])
  IN  known

\* The cache that a bootstrap on a still chain ends with.
Bootstrapped(members) ==
  (Entries \union Watchlist \union {m[2] : m \in members}
     \union (UNION {Parts[m[2]] : m \in {p \in members : p[1] \in PoolIndexes /\ p[2] # ZeroAddress}}))
    \ (Blacklist \union {ZeroAddress})

\* What is known after each block, if those from low on are processed in the
\* given versions.
KnownFrom(start, low, version) ==
  LET known[b \in 0..Len(Chain)] ==
        IF b = 0 THEN start
        ELSE IF b < low THEN known[b - 1]
        ELSE Course(known[b - 1], Items[b][version[b]])[Len(Items[b][version[b]])]
  IN  known

KnownAfter == KnownFrom(Bootstrapped(MembersAt(floor)), floor, canon)

CanonicalItems(b) == Items[b][canon[b]]

\* The events of a block, and those the tracked blocks should bring forth.
EventsOfBlock(b) ==
  LET items == CanonicalItems(b)
      known == Course(KnownAfter[b - 1], items)
  IN  {EventOf(items[n]) : n \in {i \in 1..Len(items) : Accepted(known[i - 1], items[i])}}

Reference == UNION {EventsOfBlock(b) : b \in floor..head}

(***************************************************************************)
(* Types.                                                                  *)
(***************************************************************************)
\* Every variable has its type.
TypeOK ==
  /\ cache \subseteq Address
  /\ IsABag(stored) /\ BagToSet(stored) \subseteq Event
  /\ recent \subseteq {MsgID(e) : e \in Event}
  /\ head \in Block /\ canon \in [Block -> Nat]
  /\ \A b \in Block : canon[b] \in 1..Len(Chain[b])
  /\ boot \in [stage : {"registry", "indexes", "bounds", "up"}, unread : Seq(Entries)]
  /\ floor \in 0..head
  /\ task \in [Worker -> [pc : {"idle", "filter", "handle", "publish"},
                          block : 0..head, ver : Nat, n : Nat \ {0}, seen : SUBSET done]]
  /\ done \subseteq 1..head /\ acked \subseteq Event
  /\ budget \in [fault : 0..MaxFaults, restart : 0..MaxRestarts, expiry : 0..MaxExpiries]

(***************************************************************************)
(* Safety.                                                                 *)
(***************************************************************************)
Settled == boot.stage = "up" /\ done = floor..head /\ \A w \in Worker : task[w].pc = "idle"

\* Every event the reference publishes for the processed blocks is in the
\* stream, once all blocks of the chain so far are processed.
NothingLost == Settled => Reference \subseteq BagToSet(stored)

\* An acknowledged event is in the stream, as the event it is.
NoneSuppressed == acked \subseteq BagToSet(stored)

\* No other event of the chain has the MsgID of e.
Alone(e) == \A f \in Event : MsgID(f) = MsgID(e) => f = e

\* No two events of the chain share a MsgID.
DistinctIDs == \A e \in Event : Alone(e)

\* Sets of addresses that hold what start up reads and what their own members
\* add.  The least of them bounds the cache: what others emit is never looked at.
Closed(S) ==
  /\ Entries \union Watchlist \union {m[2] : m \in GenesisMembers} \subseteq S
  /\ \A a \in S : Parts[a] \subseteq S
  /\ \A i \in ItemsIn(Block) : i.who \in S /\ i.handler.effect = "add" => i.arg \in S

Reach == UNION {{a} : a \in {x \in Address : \A S \in SUBSET Address : Closed(S) => x \in S}}

\* Addresses that none of those, index or not, removes in any version of any
\* block, and those of them that no list takes out of the cache.
NeverRemoved ==
  Address \ {i.arg : i \in {j \in ItemsIn(Block) : j.who \in Reach /\ j.handler.effect = "remove"}}
Kept == NeverRemoved \ (Blacklist \union {ZeroAddress})

\* What some item puts into an index and none takes out of it.
LastingAdditions ==
  {<<i.who, i.arg>> : i \in {j \in ItemsIn(Block) : j.handler = HandleIndexAddLog}}
    \cap ((ToSet(IndexOrder) \cap Kept) \X Kept)

\* What every version of one of the given blocks puts into an index.
AddedAnyway(blocks) ==
  {m \in LastingAdditions :
     \E b \in blocks : \A v \in 1..Len(Chain[b]) : \E i \in ToSet(Items[b][v]) : Adds(i, m)}

LastingMembers == {m \in GenesisMembers : m[2] \in NeverRemoved}

\* What bootstrap finds in the indexes of the genesis, and an address that the
\* processed blocks put into an index, is cached while the service is up unless
\* some block takes it out: whatever the order, the retries, the replaced
\* blocks, and the restarts that fill the cache anew while the chain goes on.
IndexedAddressesCached ==
  boot.stage = "up" =>
    Kept \cap (Bootstrapped(LastingMembers) \union {m[2] : m \in AddedAnyway(done)})
      \subseteq cache

\* What the reading of m's index finds.
Found(m) == {m[2]} \union (IF m[1] \in PoolIndexes THEN Parts[m[2]] ELSE {})

\* An item that puts a lasting member into an index has done so.
Noted(item) ==
  \A m \in (ToSet(IndexOrder) \cap Kept) \X Kept : Adds(item, m) => m[2] \in cache

\* Why it holds.  The indexes read so far have left what they surely held in
\* the cache, and so have the blocks processed before they were read.
ReadSoFar ==
  /\ boot.stage = "registry" => boot.unread = IndexOrder
  /\ boot.stage # "registry" =>
       /\ Kept \cap Entries \subseteq cache
       /\ \A m \in LastingMembers :
            m[1] \notin ToSet(boot.unread) /\ m[2] # ZeroAddress => Kept \cap Found(m) \subseteq cache
       /\ \A m \in AddedAnyway(done) : m[1] \notin ToSet(boot.unread) => m[2] \in cache

ListsApplied ==
  boot.stage \in {"bounds", "up"} => boot.unread = <<>> /\ Kept \cap Watchlist \subseteq cache

\* The items of a block in work that have been passed are noted.
Passed(t) ==
  t.pc # "idle" =>
    /\ boot.stage = "up"
    /\ \A i \in DOMAIN Items[t.block][t.ver] :
         (i < t.n \/ (i = t.n /\ t.pc = "publish")) => Noted(Items[t.block][t.ver][i])

PassedNoted == \A w \in Worker : Passed(task[w])

CacheInv == ReadSoFar /\ ListsApplied /\ PassedNoted

(***************************************************************************)
(* What leaves an index for good, and what is published for sure.          *)
(***************************************************************************)
\* Members of an index that stays in the cache, which nothing that can come
\* into the cache adds again, and which no other index and no list names.
FinalMembers ==
  {m \in (ToSet(IndexOrder) \cap Kept) \X (Address \ (Entries \union Watchlist)) :
     /\ \A p \in Address : m[2] \notin Parts[p]
     /\ \A g \in GenesisMembers : g[2] = m[2] => g = m
     /\ \A i \in ItemsIn(Block) :
          i.who \in Reach /\ i.handler.effect = "add" => i.arg # m[2]}

\* What every version of one of the given blocks takes out of its index.
RemovedAnyway(blocks) ==
  {m \in FinalMembers :
     \E b \in blocks : \A v \in 1..Len(Chain[b]) : \E i \in ToSet(Items[b][v]) : Removes(i, m)}

\* An address that a processed block took out of its index for good is not
\* cached, during start up or later: whatever other workers do, attempts that
\* fail, and restarts that fill the cache anew while the chain goes on.
RemovedAddressesGone == cache \cap {m[2] : m \in RemovedAnyway(done)} = {}

\* Why it holds: no worker has passed such a removal with the address cached.
Erased(item) == \A m \in FinalMembers : Removes(item, m) => m[2] \notin cache

ErasedSoFar(t) ==
  t.pc # "idle" =>
    \A i \in DOMAIN Items[t.block][t.ver] :
      (i < t.n \/ (i = t.n /\ t.pc = "publish")) => Erased(Items[t.block][t.ver][i])

PassedErased == \A w \in Worker : ErasedSoFar(task[w])

\* What is cached for sure when a worker comes to item n of its block: what
\* start up finds, what the blocks marked when it began have added, and what
\* the items before n add.
Sure(marked, items, n) ==
  Kept \cap (Bootstrapped(LastingMembers) \union {m[2] : m \in AddedAnyway(marked)}
              \union {m[2] : m \in {p \in LastingAdditions : \E j \in 1..(n - 1) : Adds(items[j], p)}})

\* The event of item n is in the stream, if it must be.
Delivered(marked, items, n) ==
  Accepted(Sure(marked, items, n), items[n]) /\ Alone(EventOf(items[n]))
    => EventOf(items[n]) \in BagToSet(stored)

\* A block is marked only when the stream has every event that its version
\* must bring forth: those of emitters and parties that are surely cached.
\* This is so for blocks in any order, several workers, failed attempts that
\* leave the cache half updated, lost acknowledgements and restarts.
SureEventsDelivered ==
  [][\A b \in done' \ done : \E w \in Worker :
       /\ task[w].block = b
       /\ \A n \in DOMAIN TaskItems(w) : Delivered(task[w].seen, TaskItems(w), n)]_vars

\* Why it holds: so far, of the items that a worker has passed.
DeliveredSoFar(t) ==
  t.pc # "idle" =>
    \A n \in DOMAIN Items[t.block][t.ver] : n < t.n => Delivered(t.seen, Items[t.block][t.ver], n)

PassedDelivered == \A w \in Worker : DeliveredSoFar(task[w])

(***************************************************************************)
(* What documentation says of the cache and of deduplication.              *)
(***************************************************************************)
\* Addresses an index adds in some version of some block.
Listed == {i.arg : i \in {j \in ItemsIn(Block) : j.who \in ToSet(IndexOrder)
                                              /\ j.handler = HandleIndexAddLog}}

\* Addresses that are or come to be in an index, and that nothing else names.
Followed == ({m[2] : m \in GenesisMembers} \union Listed) \ (Entries \union Watchlist \union Blacklist)

\* README.md: "The cache will auto-update based on any additions/removals from
\* all indexes."  Of the addresses the indexes ever held, those they hold now
\* are cached, and only those.
CacheFollowsIndexes ==
  Settled => \A a \in Followed : a \in cache <=> \E m \in MembersAt(head) : m[2] = a

\* README.md: at start up the cache is built "with all relevant ... addresses"
\* and then auto-updates: it never lacks what a restart would put into it.
CacheCoversBootstrap == Settled => Bootstrapped(MembersAt(head)) \subseteq cache

\* The events of one type that version v of block b holds for a transaction.
Occurrences(tx, type, b, v) ==
  {i \in 1..Len(Items[b][v]) : Items[b][v][i].tx = tx /\ Items[b][v][i].handler.type = type}

\* README.md: "It applies deduplication at the NATS level": for each kind of
\* event of a transaction the stream holds at most as many messages as some
\* version of its block has such events, wherever its logs are numbered.
NoSurplus ==
  \A k \in {[tx |-> e.tx, type |-> e.type] : e \in Event} :
    LET messages == {e \in Event : e.tx = k.tx /\ e.type = k.type}
    IN  \E b \in Block : \E v \in 1..Len(Chain[b]) :
           BagCardinality([e \in messages \cap BagToSet(stored) |-> stored[e]])
             <= Cardinality(Occurrences(k.tx, k.type, b, v))
=============================================================================
