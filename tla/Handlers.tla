------------------------------ MODULE Handlers ------------------------------
(***************************************************************************)
(* src/internal/handler and the routes of src/cmd/service/router.go.  What *)
(* tells the handlers apart is kept: the type of the event they publish,   *)
(* whether its arguments are decoded first, whether the event must stay    *)
(* within the network of cached addresses, and what the handler does to    *)
(* the cache before it publishes.  The payload is left out.                *)
(***************************************************************************)

\* A handler that decodes the arguments and publishes an event of type t.
Publishes(t) == [type |-> t, decodes |-> TRUE, network |-> FALSE, effect |-> "none"]

\* The same for a call without arguments: nothing can fail to decode.
PublishesUndecoded(t) == [Publishes(t) EXCEPT !.decodes = FALSE]

\* Published only when the contract and one of the two parties are cached.
PublishesInNetwork(t) == [Publishes(t) EXCEPT !.network = TRUE]

\* Published after the cache has been updated with the address at hand.
PublishesAfter(op, t) == [Publishes(t) EXCEPT !.effect = op]

HandleContractCreation == [PublishesAfter("add", "CONTRACT_CREATION") EXCEPT !.decodes = FALSE]

\* A slip: the removal is published and the cache left as it is.
HandleIndexRemoveLogUncached == Publishes("INDEX_REMOVE")

\* Handlers of event logs.
HandleFaucetGiveLog            == Publishes("FAUCET_GIVE")
HandleIndexAddLog              == PublishesAfter("add", "INDEX_ADD")
HandleIndexRemoveLog           == PublishesAfter("remove", "INDEX_REMOVE")
HandleOwnershipLog             == Publishes("OWNERSHIP_TRANSFERRED")
HandlePoolDepositLog           == Publishes("POOL_DEPOSIT")
HandlePoolSwapLog              == Publishes("POOL_SWAP")
HandleQuoterPriceUpdateLog     == Publishes("QUOTER_PRICE_INDEX_UPDATED")
HandleSealStateChangeLog       == Publishes("SEAL_STATE_CHANGE")
HandleTokenBurnLog             == Publishes("TOKEN_BURN")
HandleTokenMintLog             == Publishes("TOKEN_MINT")
HandleCustodialRegistrationLog == Publishes("CUSTODIAL_REGISTRATION")
HandleTokenTransferLog         == PublishesInNetwork("TOKEN_TRANSFER")
HandleTokenApproveLog          == PublishesInNetwork("TOKEN_APPROVE")
HandleTokenTransferFromLog     == PublishesInNetwork("TOKEN_TRANSFER")
HandleQuoterUpdatedLog         == Publishes("QUOTER_UPDATED")

\* Handlers of the input data of reverted calls, by the function called.
HandleFaucetGiveInputData ==
  [giveTo |-> Publishes("FAUCET_GIVE"), gimme |-> PublishesUndecoded("FAUCET_GIVE")]
HandleIndexAddInputData              == Publishes("INDEX_ADD")
HandleIndexRemoveInputData           == Publishes("INDEX_REMOVE")
HandleOwnershipInputData             == Publishes("OWNERSHIP_TRANSFERRED")
HandlePoolDepositInputData           == Publishes("POOL_DEPOSIT")
HandlePoolSwapInputData              == Publishes("POOL_SWAP")
HandleQuoterPriceUpdateInputdata     == Publishes("QUOTER_PRICE_INDEX_UPDATED")
HandleSealStateChangeInputData       == Publishes("SEAL_STATE_CHANGE")
HandleTokenBurnInputData             == Publishes("TOKEN_BURN")
HandleTokenMintInputData             == Publishes("TOKEN_MINT")
HandleCustodialRegistrationInputData == Publishes("CUSTODIAL_REGISTRATION")
HandleTokenTransferInputData         == PublishesInNetwork("TOKEN_TRANSFER")
HandleTokenApproveInputData          == PublishesInNetwork("TOKEN_APPROVE")
HandleQuoterUpdatedInputData         == Publishes("QUOTER_UPDATED")

\* Event signature (first topic) to handler.
LogRoutes ==
  [Give                 |-> HandleFaucetGiveLog,
   AddressAdded         |-> HandleIndexAddLog,
   AddressRemoved       |-> HandleIndexRemoveLog,
   OwnershipTransferred |-> HandleOwnershipLog,
   Deposit              |-> HandlePoolDepositLog,
   Swap                 |-> HandlePoolSwapLog,
   PriceIndexUpdated    |-> HandleQuoterPriceUpdateLog,
   SealStateChange      |-> HandleSealStateChangeLog,
   Burn                 |-> HandleTokenBurnLog,
   Mint                 |-> HandleTokenMintLog,
   NewRegistration      |-> HandleCustodialRegistrationLog,
   Transfer             |-> HandleTokenTransferLog,
   Approval             |-> HandleTokenApproveLog,
   TransferFrom         |-> HandleTokenTransferFromLog,
   QuoterUpdated        |-> HandleQuoterUpdatedLog]

\* Function selector to handler, in two parts: a later registration replaces
\* an earlier one of the same selector, as register(address) shows.
FirstInputRoutes ==
  [giveTo              |-> HandleFaucetGiveInputData.giveTo,
   gimme               |-> HandleFaucetGiveInputData.gimme,
   add                 |-> HandleIndexAddInputData,
   register            |-> HandleIndexAddInputData,
   remove              |-> HandleIndexRemoveInputData,
   transferOwnership   |-> HandleOwnershipInputData,
   deposit             |-> HandlePoolDepositInputData,
   withdraw            |-> HandlePoolSwapInputData,
   setPriceIndexValue  |-> HandleQuoterPriceUpdateInputdata,
   seal                |-> HandleSealStateChangeInputData,
   burn                |-> HandleTokenBurnInputData,
   mintTo              |-> HandleTokenMintInputData]

LaterInputRoutes ==
  [register            |-> HandleCustodialRegistrationInputData,
   transfer            |-> HandleTokenTransferInputData,
   transferFrom        |-> HandleTokenTransferInputData,
   approve             |-> HandleTokenApproveInputData,
   setQuoter           |-> HandleQuoterUpdatedInputData]

InputRoutes ==
  [f \in DOMAIN FirstInputRoutes \union DOMAIN LaterInputRoutes |->
     IF f \in DOMAIN LaterInputRoutes THEN LaterInputRoutes[f] ELSE FirstInputRoutes[f]]
=============================================================================
