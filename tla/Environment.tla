---------------------------- MODULE Environment ----------------------------
(***************************************************************************)
(* The EVM node the tracker follows.  It is not code of the repository: it *)
(* is modelled from how src/internal/chain and src/internal/syncer use it. *)
(* The node grows the chain, may replace its newest blocks, and answers    *)
(* "latest block" from a replica that lags by at most RpcLag blocks.  The  *)
(* module also holds the budget of faults (crashes, dropped connections,   *)
(* failed calls) that a behaviour may contain.                             *)
(***************************************************************************)
EXTENDS Integers

CONSTANTS MaxBlock,     \* bound: the highest block the chain reaches
          MaxReorg,     \* bound: how often one block may be replaced
          MaxDepth,     \* how many blocks one reorganisation replaces at most
          FirstHead,    \* the newest block when the tracker is first started
          RpcLag,       \* how far the HTTP endpoint may be behind the head
          MaxFaults     \* bound: faults in one behaviour

ASSUME EnvironmentAssumption ==
  /\ MaxBlock \in Nat /\ MaxReorg \in Nat /\ RpcLag \in Nat /\ MaxFaults \in Nat
  /\ MaxDepth \in Nat \ {0}
  /\ FirstHead \in 0..MaxBlock

Block   == 0..MaxBlock
Version == 0..MaxReorg      \* the successive contents of a block number

VARIABLES head,     \* the newest block of the canonical chain
          canon,    \* the canonical version of each block
          faults    \* faults spent so far

envVars == <<head, canon, faults>>

EnvTypeOK == /\ head \in Block
             /\ canon \in [Block -> Version]
             /\ faults \in 0..MaxFaults

EnvInit == /\ head = FirstHead
           /\ canon = [b \in Block |-> 0]
           /\ faults = 0

\* A new block extends the chain.
Mine == /\ head < MaxBlock
        /\ head' = head + 1
        /\ UNCHANGED canon

\* A reorganisation replaces the blocks from k on by as many others.
Reorg(k) == /\ k <= head /\ head - k < MaxDepth
            /\ \A b \in k..head : canon[b] < MaxReorg
            /\ canon' = [b \in Block |-> IF b \in k..head THEN canon[b] + 1 ELSE canon[b]]
            /\ UNCHANGED head

\* What eth_blockNumber may answer.
LatestAnswers == {h \in 0..head : head - h <= RpcLag}

\* One fault is taken from the budget.
Fault == /\ faults < MaxFaults
         /\ faults' = faults + 1
=============================================================================
