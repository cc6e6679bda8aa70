----------------------------- MODULE Processor -----------------------------
(***************************************************************************)
(* src/internal/processor: what a worker does with one block.  It fetches  *)
(* the block and its receipts, publishes the events of the receipts one by *)
(* one, and marks the block once every one of them was acknowledged.  Any  *)
(* error abandons the block: the pool logs it and nothing else.            *)
(***************************************************************************)
EXTENDS Environment, BlockDB, WorkerPool

CONSTANTS Worker,       \* the goroutines of the pool
          EventCount,   \* the relevant events of a block
          Undecodable   \* blocks whose last event no handler can decode

ASSUME ProcessorAssumption ==
  /\ EventCount \in Nat \ {0}
  /\ Undecodable \subseteq Block

VARIABLES job,      \* what each worker is doing
          stream    \* the messages JetStream has stored, one per MsgID

procVars == <<job, stream>>

Event == Block \X Version \X (1..EventCount)

Idle == [pc |-> "idle", block |-> 0, ver |-> 0, next |-> 1]

ProcessorInit == job = [w \in Worker |-> Idle] /\ stream = {}

\* The first n events of version v of block b are in the stream.
Sent(b, v, n) == \A i \in 1..n : <<b, v, i>> \in stream

\* A worker takes the oldest task; ProcessBlock starts fetching.
Take(w) ==
  /\ job[w].pc = "idle"
  /\ queue # <<>>
  /\ job' = [job EXCEPT ![w] = [Idle EXCEPT !.pc = "fetch",
                                            !.block = Head(queue).block]]
  /\ queue' = Tail(queue)
  /\ UNCHANGED <<open, stream, envVars, dbVars>>

\* GetBlock and GetReceipts answer, by number: with whatever is canonical now.
\* The first gives only the time of the block, the second all the events.
Fetch(w) ==
  /\ job[w].pc = "fetch"
  /\ job[w].block <= head
  /\ job' = [job EXCEPT ![w].pc = "send", ![w].ver = canon[job[w].block]]
  /\ UNCHANGED <<stream, envVars, dbVars, poolVars>>

\* The replica that is asked does not have the block yet: either call reports
\* "not found".
NotYet(w) ==
  /\ job[w].pc = "fetch"
  /\ job[w].block > head - RpcLag
  /\ job' = [job EXCEPT ![w] = Idle]
  /\ UNCHANGED <<stream, envVars, dbVars, poolVars>>

\* The next event of the block cannot be decoded by its handler.
Stuck(w) == job[w].block \in Undecodable /\ job[w].next = EventCount

\* One event is published: JetStream stores it, or drops a MsgID it knows.
Publish(w) == stream' = stream \union {<<job[w].block, job[w].ver, job[w].next>>}

\* Slip: the loop over the events runs once too often.
CanSendPastEnd(w) == job[w].pc = "send" /\ job[w].next <= EventCount + 1 /\ ~Stuck(w)

CanSend(w) == /\ job[w].pc = "send"
              /\ job[w].next <= EventCount
              /\ ~Stuck(w)

Send(w) ==
  /\ CanSend(w)
  /\ Publish(w)
  /\ job' = [job EXCEPT ![w].next = @ + 1]
  /\ UNCHANGED <<envVars, dbVars, poolVars>>

\* Stored, but the acknowledgement is lost: the publisher reports an error.
SendUnacked(w) ==
  /\ CanSend(w)
  /\ Publish(w)
  /\ job' = [job EXCEPT ![w] = Idle]
  /\ Fault
  /\ UNCHANGED <<head, canon, dbVars, poolVars>>

\* A handler returns a decoding error, now and on every later attempt.
Undecoded(w) ==
  /\ job[w].pc = "send"
  /\ Stuck(w)
  /\ job' = [job EXCEPT ![w] = Idle]
  /\ UNCHANGED <<stream, envVars, dbVars, poolVars>>

\* Slip: the block is marked before its last event is published.
MarkOneShort(w) ==
  /\ job[w].pc = "send"
  /\ job[w].next >= EventCount
  /\ SetValue(job[w].block)
  /\ job' = [job EXCEPT ![w] = Idle]
  /\ UNCHANGED <<lower, upper, dbOpen, stream, envVars, poolVars>>

\* Every receipt went through: the block is marked as processed.
Mark(w) ==
  /\ job[w].pc = "send"
  /\ job[w].next > EventCount
  /\ SetValue(job[w].block)
  /\ job' = [job EXCEPT ![w] = Idle]
  /\ UNCHANGED <<lower, upper, dbOpen, stream, envVars, poolVars>>

\* A call to the node, to JetStream or to the database fails.
Fail(w) ==
  /\ job[w].pc # "idle"
  /\ Fault
  /\ job' = [job EXCEPT ![w] = Idle]
  /\ UNCHANGED <<head, canon, stream, dbVars, poolVars>>

WorkerStep(w) == \/ Take(w) \/ Fetch(w) \/ NotYet(w)
                 \/ Send(w) \/ Undecoded(w) \/ Mark(w)

WorkerFault(w) == SendUnacked(w) \/ Fail(w)

AllIdle == \A w \in Worker : job[w].pc = "idle"
=============================================================================
