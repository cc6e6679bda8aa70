-------------------------- MODULE MCEventPipeline --------------------------
(***************************************************************************)
(* Finite instances of the event pipeline: a few addresses and short       *)
(* chains, each made for one question.                                     *)
(***************************************************************************)
EXTENDS PipelineProperties

CONSTANTS zero,                             \* the zero address
          accounts, tokens, pools,          \* the indexes of a registry
          alice, bob, carol,                \* accounts
          token, pool, quoter, fresh,       \* contracts
          basket,                           \* the token index of the pool
          nobody                            \* the nil address

AllAddresses == {zero, accounts, tokens, pools, alice, bob, carol,
                 token, pool, quoter, fresh, basket}
Indexes      == {accounts, tokens, pools}
ReadingOrder == <<accounts, tokens, pools>>
Pools        == {pools}
PoolParts    == [a \in AllAddresses |-> IF a = pool THEN {quoter, basket} ELSE {}]
Known        == {<<accounts, alice>>}
KnownToken   == {<<accounts, alice>>, <<tokens, token>>}
KnownPool    == {<<accounts, alice>>, <<accounts, carol>>, <<pools, pool>>}
KnownBasket  == {<<accounts, alice>>, <<tokens, token>>, <<pools, pool>>}
NoAddresses  == {}
Watched      == {bob}
Barred       == {pool}

Log(i, addr, topic, arg, parties) ==
  [index |-> i, addr |-> addr, topic |-> topic, arg |-> arg, parties |-> parties, ok |-> TRUE]
BadLog(i, addr, topic) == [Log(i, addr, topic, zero, {}) EXCEPT !.ok = FALSE]

Receipt(tx, status, from, to, logs) ==
  [tx |-> tx, status |-> status, from |-> from, to |-> to, created |-> nobody,
   logs |-> logs, call |-> "none", parties |-> {}, ok |-> TRUE]
Success(tx, logs)         == Receipt(tx, "success", alice, token, logs)
Created(tx, contract, logs) ==
  [Receipt(tx, "success", alice, nobody, logs) EXCEPT !.created = contract]
FailedCreation(tx, contract) ==
  [Receipt(tx, "failed", alice, nobody, <<>>) EXCEPT !.created = contract]
FailedCall(tx, to, call, parties) ==
  [Receipt(tx, "failed", alice, to, <<>>) EXCEPT !.call = call, !.parties = parties]

\* Most chains start with a block without receipts, at which the tracker is
\* first started.  A block that is never replaced has one version.
Once(receipts) == <<receipts>>
Quiet == Once(<<>>)

\* A token joins the index and is used.
Growth ==
  << Quiet,
     Once(<<Success("t1", <<Log(0, tokens, "AddressAdded", token, {})>>)>>),
     Once(<<Success("t2", <<Log(0, token, "Transfer", zero, {alice, bob}),
                            Log(1, token, "Unknown", zero, {})>>)>>) >>

\* The same in one block, in which a call is reverted as well, and the account
\* leaves its index.
Whirl ==
  << Quiet,
     Once(<<Success("t1", <<Log(0, tokens, "AddressAdded", token, {}),
                            Log(1, token, "Transfer", zero, {alice, bob})>>),
            FailedCall("t2", token, "transfer", {alice}),
            FailedCreation("t3", fresh),
            Success("t4", <<Log(2, accounts, "AddressRemoved", alice, {}),
                            Log(3, token, "Transfer", zero, {alice}),
                            Log(4, token, "Mint", zero, {})>>)>>) >>

\* A token joins the index, at whose block the tracker is first started; then
\* comes a block no handler can decode, which another one without that log may
\* replace; then a new contract, which is no index and removes an address that
\* it does not list, and an account that leaves its index.
Mixed ==
  << Once(<<Success("t1", <<Log(0, tokens, "AddressAdded", token, {})>>)>>),
     << <<Success("t2", <<Log(0, token, "Transfer", zero, {alice, carol}),
                            BadLog(1, tokens, "AddressAdded")>>)>>,
        <<Success("t2", <<Log(0, token, "Transfer", zero, {alice, carol})>>)>> >>,
     Once(<<Created("t3", fresh, <<Log(1, fresh, "AddressRemoved", bob, {})>>),
            Success("t4", <<Log(2, accounts, "AddressRemoved", carol, {})>>)>>) >>

\* The constructor of a new contract makes a known token emit the first log
\* of the block.
Constructor ==
  << Quiet,
     Once(<<Created("t1", fresh, <<Log(0, token, "Mint", zero, {})>>),
            Success("t2", <<Log(1, token, "Burn", zero, {})>>)>>),
     Once(<<Success("t3", <<Log(0, token, "Transfer", zero, {alice})>>)>>) >>

\* A pool no longer takes a token that is still in the index of tokens.
Unlisted ==
  << Quiet,
     Once(<<Success("t1", <<Log(0, basket, "AddressRemoved", token, {})>>)>>) >>

\* An account joins the index, and another block follows.
NewAccount ==
  << Quiet,
     Once(<<Success("t1", <<Log(0, accounts, "AddressAdded", bob, {})>>)>>),
     Quiet >>

\* Two transactions of a block come in the other order when it is replaced.
Swapped ==
  << Quiet,
     << <<Success("t1", <<Log(0, token, "Transfer", zero, {alice})>>),
          Success("t2", <<Log(1, token, "Transfer", zero, {alice, bob})>>)>>,
        <<Success("t2", <<Log(0, token, "Transfer", zero, {alice, bob})>>),
          Success("t1", <<Log(1, token, "Transfer", zero, {alice})>>)>> >> >>

\* The workers are alike.
Alike == Permutations(Worker)
=============================================================================
