------------------------------ MODULE EscrowRules ------------------------------
(***************************************************************************)
(* The rules of the two-party escrow: which terms are accepted, which      *)
(* transactions the builder plans for them, which witnesses it assembles,  *)
(* and which transactions the redeem script and the node's finality rule   *)
(* let through.  Pure operators only: the state machine that uses them is  *)
(* BuyerSellerEscrow.  An operator whose name ends in _Slip is a mistake   *)
(* that could be made in the definition after it; the mutation runs put it *)
(* in that definition's place to see a property fail.                      *)
(*                                                                         *)
(* A key stands for an x-only public key and for the pay-to-address script *)
(* derived from it.  An outpoint determines its UTXO entry (a transaction  *)
(* id commits to the outputs), so the entries are a constant function.     *)
(***************************************************************************)
EXTENDS Integers, Sequences

CONSTANTS
    Keys,               \* valid x-only Schnorr public keys
    Elsewhere,          \* any other script an output may pay to
    Outpoints,          \* outpoints that TN10 may hold at the escrow address
    ForeignOutpoints,   \* outpoints that only some other network knows
    Entry,              \* the UTXO entry behind each outpoint
    LockTimeThreshold,  \* LOCK_TIME_THRESHOLD: below it a lock time is a DAA score
    I64Max              \* i64::MAX, the largest script number

AllOutpoints == Outpoints \cup ForeignOutpoints

UtxoEntry == [amount : Nat, ours : BOOLEAN, covenant : BOOLEAN, coinbase : BOOLEAN]

ASSUME OutpointAssumption == Outpoints \cap ForeignOutpoints = {}
ASSUME EntryAssumption    == Entry \in [AllOutpoints -> UtxoEntry]
ASSUME ScriptAssumption   == Elsewhere \notin Keys
ASSUME WidthAssumption    == LockTimeThreshold \in Nat /\ I64Max \in Nat

Paths == {"release", "refund"}

(***************************************************************************)
(* A transaction, reduced to what the redeem script and the node look at:  *)
(* the escrow input, whether there is another input, output 0, whether     *)
(* there is another output, the lock time, and whether the escrow input's  *)
(* sequence is u64::MAX (final).                                           *)
(***************************************************************************)
Tx == [outpoint : AllOutpoints, extraInput : BOOLEAN,
       value : Nat, script : Keys \cup {Elsewhere}, extraOutput : BOOLEAN,
       lockTime : Nat, final : BOOLEAN]

(***************************************************************************)
(* BuyerSellerEscrow::new: the terms it accepts.                           *)
(***************************************************************************)
EscrowTerms == [buyer : Keys, seller : Keys, refund_daa_score : Nat, max_fee : Nat]

\* Keys are not parsed.
TermsAccepted_Slip(t) ==
    /\ t.buyer # t.seller
    /\ t.refund_daa_score # 0 /\ t.refund_daa_score < LockTimeThreshold
    /\ t.max_fee # 0 /\ t.max_fee <= I64Max

TermsAccepted(t) ==
    /\ t \in EscrowTerms
    /\ t.buyer # t.seller
    /\ t.refund_daa_score # 0
    /\ t.refund_daa_score < LockTimeThreshold
    /\ t.max_fee # 0
    /\ t.max_fee <= I64Max

(***************************************************************************)
(* The builder.                                                            *)
(***************************************************************************)
Payout(t, path) == IF path = "release" THEN t.seller ELSE t.buyer

SignerCount(path) == IF path = "release" THEN 2 ELSE 1

\* The width of script numbers is forgotten.
UtxoUsable_Slip(e) == e.ours /\ ~e.covenant /\ ~e.coinbase

\* Guards of the pure constructor: the UTXO it will spend and the fee it takes.
UtxoUsable(e) ==
    /\ e.ours
    /\ ~e.covenant
    /\ ~e.coinbase
    /\ e.amount <= I64Max

\* The cap is compared with what is left after the fee.
FeeUsable_Slip(t, e, fee) ==
    fee # 0 /\ fee <= t.max_fee /\ e.amount - fee > t.max_fee

FeeUsable(t, e, fee) ==
    /\ fee # 0
    /\ fee <= t.max_fee
    /\ e.amount > t.max_fee

\* unsigned_spend, of an escrow on TN10: any other network is refused before.
SpendAccepted(t, op, fee, computeBudget) ==
    /\ UtxoUsable(Entry[op])
    /\ FeeUsable(t, Entry[op], fee)
    /\ computeBudget # 0

\* The refund keeps the final sequence of the release.
UnsignedSpend_Slip(t, op, path, fee) ==
    [outpoint |-> op, extraInput |-> FALSE, value |-> Entry[op].amount - fee,
     script |-> Payout(t, path), extraOutput |-> FALSE,
     lockTime |-> IF path = "refund" THEN t.refund_daa_score ELSE 0, final |-> TRUE]

\* The transaction it builds: one input, one output, the whole remainder paid.
UnsignedSpend(t, op, path, fee) ==
    [outpoint    |-> op,
     extraInput  |-> FALSE,
     value       |-> Entry[op].amount - fee,
     script      |-> Payout(t, path),
     extraOutput |-> FALSE,
     lockTime    |-> IF path = "refund" THEN t.refund_daa_score ELSE 0,
     final       |-> path = "release"]

(***************************************************************************)
(* Signatures.  A wallet signs a transaction with a key and a hash type.   *)
(* SIGHASH_ALL commits to the whole transaction; SIGHASH_NONE leaves the   *)
(* outputs open.                                                           *)
(***************************************************************************)
HashTypes == {"all", "none"}

Signature == [key : Keys, tx : Tx, hash : HashTypes]

InputPart(tx) == <<tx.outpoint, tx.extraInput, tx.lockTime, tx.final>>

SignatureValid(sig, key, tx) ==
    /\ sig.key = key
    /\ IF sig.hash = "all" THEN sig.tx = tx ELSE InputPart(sig.tx) = InputPart(tx)

\* The hash type byte is not looked at.
SignatureScriptAccepted_Slip(path, sigs) == Len(sigs) = SignerCount(path)

\* signature_script: the witnesses it agrees to encode for a path.
SignatureScriptAccepted(path, sigs) ==
    /\ Len(sigs) = SignerCount(path)
    /\ \A i \in DOMAIN sigs : sigs[i].hash = "all"

(***************************************************************************)
(* The redeem script: OP_IF release OP_ELSE refund OP_ENDIF.               *)
(***************************************************************************)
Authorised(t, path, tx, sigs) ==
    /\ Len(sigs) = SignerCount(path)
    /\ SignatureValid(sigs[1], t.buyer, tx)
    /\ path = "release" => SignatureValid(sigs[2], t.seller, tx)

\* DAA scores and timestamps are compared as plain numbers.
LockTimeVerified_Slip(required, tx) == required <= tx.lockTime /\ ~tx.final

\* OP_CHECKLOCKTIMEVERIFY on an operand below the threshold.
LockTimeVerified(required, tx) ==
    /\ tx.lockTime < LockTimeThreshold <=> required < LockTimeThreshold
    /\ required <= tx.lockTime
    /\ ~tx.final

\* `require output_count == 1` is missing.
ShapeHolds_Slip(tx) == ~tx.extraInput

ShapeHolds(tx) == ~tx.extraInput /\ ~tx.extraOutput

ValueHolds(t, tx) ==
    /\ Entry[tx.outpoint].amount <= I64Max
    /\ Entry[tx.outpoint].amount > t.max_fee
    /\ tx.value >= Entry[tx.outpoint].amount - t.max_fee

\* `require output(0).script == seller` is missing.
ReleaseBranch_Slip(t, tx, sigs) ==
    Authorised(t, "release", tx, sigs) /\ ShapeHolds(tx) /\ ValueHolds(t, tx)

ReleaseBranch(t, tx, sigs) ==
    /\ Authorised(t, "release", tx, sigs)
    /\ ShapeHolds(tx)
    /\ ValueHolds(t, tx)
    /\ tx.script = t.seller

RefundBranch(t, tx, sigs) ==
    /\ Authorised(t, "refund", tx, sigs)
    /\ LockTimeVerified(t.refund_daa_score, tx)
    /\ ShapeHolds(tx)
    /\ ValueHolds(t, tx)
    /\ tx.script = t.buyer

RedeemScript(t, path, tx, sigs) ==
    IF path = "release" THEN ReleaseBranch(t, tx, sigs) ELSE RefundBranch(t, tx, sigs)

(***************************************************************************)
(* The node's own rules: a transaction creates no value, and it is final   *)
(* at a DAA score.  A lock time at or above the threshold is a timestamp;  *)
(* the worst case is taken, that the wall clock has already passed it.     *)
(***************************************************************************)
NoInflation(tx) == tx.extraInput \/ tx.value <= Entry[tx.outpoint].amount

IsFinalAt(tx, score) ==
    \/ tx.lockTime = 0
    \/ tx.final
    \/ tx.lockTime >= LockTimeThreshold
    \/ tx.lockTime < score

(***************************************************************************)
(* What a node reports of itself, and the gate every RPC sequence passes.  *)
(***************************************************************************)
ServerInfo == [network : {"testnet-10", "other"}, is_synced : BOOLEAN,
               has_utxo_index : BOOLEAN]

ValidateNode(info) ==
    /\ info.network = "testnet-10"
    /\ info.is_synced
    /\ info.has_utxo_index

=============================================================================
