-------------------------- MODULE MCBuyerSellerEscrow --------------------------
(***************************************************************************)
(* Small instances of BuyerSellerEscrow.                                   *)
(***************************************************************************)
EXTENDS BuyerSellerEscrow, TLC

CONSTANTS buyer, seller, good, foreign

\* Terms somebody may propose; all but one combination is refused.
MCTerms == [buyer : {buyer}, seller : {buyer, seller, Elsewhere},
            refund_daa_score : {0, 1, 9}, max_fee : {0, 2, 99}]

TN10Node    == [network |-> "testnet-10", is_synced |-> TRUE, has_utxo_index |-> TRUE]
Unindexed   == [TN10Node EXCEPT !.has_utxo_index = FALSE]
Unsynced    == [TN10Node EXCEPT !.is_synced = FALSE]
OtherNet    == [TN10Node EXCEPT !.network = "other"]

Plain(amount) == [amount |-> amount, ours |-> TRUE, covenant |-> FALSE, coinbase |-> FALSE]

RefundTx  == [outpoint |-> good, extraInput |-> FALSE, value |-> 4, script |-> buyer,
              extraOutput |-> FALSE, lockTime |-> 1, final |-> FALSE]
ReleaseTx == [RefundTx EXCEPT !.script = seller, !.lockTime = 0, !.final = TRUE]

-----------------------------------------------------------------------------
(* EscrowAgreement: what wallets may sign, planned or not; no observation. *)

AgreementEntry     == good :> Plain(5)
AgreementEndpoints == {Unindexed}

\* What the tests of the escrow try by hand: an early or a timestamp lock time, a
\* final sequence, a redirected or short payout, another input or output.
AgreementHandBuilt ==
    {[RefundTx EXCEPT !.lockTime = 0],
     [RefundTx EXCEPT !.lockTime = 6],
     [RefundTx EXCEPT !.final = TRUE],
     [RefundTx EXCEPT !.value = 2],
     [RefundTx EXCEPT !.extraInput = TRUE, !.value = 9],
     [ReleaseTx EXCEPT !.script = buyer],
     [ReleaseTx EXCEPT !.script = Elsewhere],
     [ReleaseTx EXCEPT !.extraOutput = TRUE, !.value = 3],
     [ReleaseTx EXCEPT !.lockTime = 1, !.final = FALSE]}

-----------------------------------------------------------------------------
(* EscrowFunding: outpoints the builder must take or refuse.               *)

\* The least and the most that can be spent, what the cap swallows, what is too
\* large for a script number, and three kinds the tool does not touch.
FundingEntry ==
    "good" :> Plain(3) @@ "most" :> Plain(12) @@ "small" :> Plain(2) @@ "huge" :> Plain(13) @@
    "covenant" :> [Plain(5) EXCEPT !.covenant = TRUE] @@
    "coinbase" :> [Plain(5) EXCEPT !.coinbase = TRUE] @@
    "stranger" :> [Plain(5) EXCEPT !.ours = FALSE]

FundingHandBuilt ==
    {[RefundTx EXCEPT !.outpoint = op, !.value = FundingEntry[op].amount - 1] :
        op \in {"good", "most", "small", "huge", "covenant", "coinbase"}}

-----------------------------------------------------------------------------
(* EscrowObserve: the tool against a connection that moves between nodes.  *)

ObserveEntry     == good :> Plain(5) @@ foreign :> Plain(5)
ObserveEndpoints == {TN10Node, OtherNet, Unsynced, Unindexed}

\* Another network knows only its own outpoint; a confused node repeats a row, or
\* lists what is spent or was never funded.
ObserveRows == {(good :> 0 @@ foreign :> 1), (good :> 2 @@ foreign :> 0),
                (good :> 1 @@ foreign :> 0)}

-----------------------------------------------------------------------------
(* EscrowRecovery: the buyer alone, against reorgs and provider changes.   *)

RecoveryRows == {(good :> 0), (good :> 2)}

=============================================================================
