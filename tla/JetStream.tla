----------------------------- MODULE JetStream -----------------------------
(***************************************************************************)
(* src/internal/pub and the NATS server behind it.  The server is external *)
(* and modelled from the stream configuration: it drops a message whose    *)
(* MsgID it has seen within the duplicate window, and acknowledges it all  *)
(* the same.                                                               *)
(***************************************************************************)
EXTENDS Bags

VARIABLES stored,   \* the messages in the stream, with their multiplicity
          recent    \* the MsgIDs the duplicate window still covers

natsVars == <<stored, recent>>

NatsInit == stored = EmptyBag /\ recent = {}

\* A slip: one MsgID for all the events of a transaction.
MsgIDOfTx(e) == <<e.tx>>

\* Send: the MsgID is the transaction and the event's index, nothing else.
MsgID(e) == <<e.tx, e.index>>

\* The server receives the message.
Receive(e) ==
  IF MsgID(e) \in recent
  THEN UNCHANGED natsVars
  ELSE /\ stored' = stored (+) SetToBag({e})
       /\ recent' = recent \union {MsgID(e)}

\* duplicateWindow passes since a message was stored.
Expire == /\ \E id \in recent : recent' = recent \ {id}
          /\ UNCHANGED stored
=============================================================================
