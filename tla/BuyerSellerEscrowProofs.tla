------------------------ MODULE BuyerSellerEscrowProofs ------------------------
(***************************************************************************)
(* Machine-checked proofs about BuyerSellerEscrow, for every value of its  *)
(* constants: type correctness, the safety of settlements, that every      *)
(* planned transaction can be spent, and that the escrow as built          *)
(* implements EscrowPromise.                                               *)
(***************************************************************************)
EXTENDS BuyerSellerEscrow, TLAPS

-----------------------------------------------------------------------------
(* Lemmas about the operators the model is built from.                     *)

\* What the builder makes from accepted terms, outpoint and fee is a transaction.
LEMMA UnsignedSpendType ==
    ASSUME NEW t \in EscrowTerms, NEW op \in AllOutpoints, NEW path \in Paths,
           NEW fee \in Nat, UtxoUsable(Entry[op]), FeeUsable(t, Entry[op], fee)
    PROVE  UnsignedSpend(t, op, path, fee) \in Tx
<1>1. Entry[op].amount \in Nat
  BY EntryAssumption DEF UtxoEntry
<1>2. Entry[op].amount - fee \in Nat
  BY <1>1 DEF FeeUsable, EscrowTerms
<1>3. Payout(t, path) \in Keys \cup {Elsewhere}
  BY DEF Payout, EscrowTerms
<1>4. (IF path = "refund" THEN t.refund_daa_score ELSE 0) \in Nat
  BY DEF EscrowTerms
<1> QED
  BY <1>2, <1>3, <1>4 DEF UnsignedSpend, Tx

-----------------------------------------------------------------------------
(* Type correctness.                                                       *)

\* Every reachable state of the escrow system is well typed.
THEOREM TypeCorrect == Spec => []TypeOK
<1>1. Init => TypeOK
  <2> SUFFICES ASSUME Init PROVE TypeOK
    OBVIOUS
  <2>1. terms \in EscrowTerms
    BY DEF Init, TermsAccepted
  <2>2. node \in ServerInfo
    BY EndpointAssumption DEF Init
  <2>3. NoRows \in [AllOutpoints -> 0 .. 2]
    BY DEF NoRows
  <2>4. obs \in Observation
    BY <2>2, <2>3 DEF Init, NoObservation, Observation, Steps
  <2> QED
    BY <2>1, <2>2, <2>4 DEF Init, TypeOK, NoHistory
<1>2. TypeOK /\ [Next]_vars => TypeOK'
  <2> SUFFICES ASSUME TypeOK, [Next]_vars PROVE TypeOK'
    OBVIOUS
  <2> USE DEF TypeOK
  <2>0. NoObservation(node) \in Observation
    BY DEF NoObservation, NoRows, Observation, Steps
  <2>1. CASE Tick
    BY <2>1 DEF Tick, obsVars
  <2>2. ASSUME NEW op \in Outpoints, Fund(op) PROVE TypeOK'
    BY <2>2 DEF Fund, obsVars
  <2>3. ASSUME NEW op \in Outpoints, AcceptSpend(op) PROVE TypeOK'
    <3>1. PICK tx \in KnownTxs, path \in Paths,
               w \in Witnesses : Accept(tx, path, w)
      BY <2>3 DEF AcceptSpend
    <3>2. tx \in Tx
      BY <3>1, HandBuiltAssumption DEF KnownTxs, Plan
    <3> QED
      BY <3>1, <3>2 DEF Accept, Acceptance, obsVars
  <2>4. ASSUME NEW a \in accepted, Reorg(a) PROVE TypeOK'
    BY <2>4 DEF Reorg, obsVars
  <2>5. ASSUME NEW info \in Endpoints, SwitchNode(info) \/ Reconnect(info) PROVE TypeOK'
    <3>1. history' \in [moves : 0 .. 2, trusted : BOOLEAN]
      BY <2>5 DEF SwitchNode, Reconnect, CountMove
    <3> QED
      BY <2>5, <3>1, EndpointAssumption DEF SwitchNode, Reconnect, chainVars
  <2>6. CASE ObserveServerInfo
    BY <2>0, <2>6 DEF ObserveServerInfo, NoHistory, NoObservation, Observation, Steps,
                      chainVars, nodeVars
  <2>7. CASE ObserveUtxos
    <3>1. LiveRows \in [AllOutpoints -> 0 .. 2]
      BY DEF LiveRows
    <3>2. PICK rows \in RowsAnswered : obs' = [obs EXCEPT !.step = "fees", !.rows = rows]
      BY <2>7 DEF ObserveUtxos
    <3>3. rows \in [AllOutpoints -> 0 .. 2]
      BY <3>1, <3>2, RowsAssumption DEF RowsAnswered
    <3>4. obs' \in Observation
      BY <3>2, <3>3 DEF Observation, Steps
    <3>5. ValidateNode(node) \in BOOLEAN
      BY DEF ValidateNode, ServerInfo
    <3> QED
      BY <2>7, <3>4, <3>5 DEF ObserveUtxos, chainVars, nodeVars
  <2>8. CASE ObserveFeeEstimate
    BY <2>8 DEF ObserveFeeEstimate, Observation, Steps, chainVars, nodeVars
  <2>9. CASE ObserveRecheck
    BY <2>9 DEF ObserveRecheck, Observation, Steps, chainVars, nodeVars
  <2>10. CASE ObserveFails
    BY <2>0, <2>10 DEF ObserveFails, NoHistory, chainVars, nodeVars
  <2>11. ASSUME NEW op \in AllOutpoints, NEW path \in Paths, NEW fee \in Fees,
                NEW budget \in ComputeBudgets,
                PlanObserved(op, path, fee, budget) \/ PlanOffline(op, path, fee, budget)
         PROVE TypeOK'
    <3>1. UnsignedSpend(terms, op, path, fee) \in Tx
      BY <2>11, UnsignedSpendType, CallerAssumption
         DEF PlanObserved, PlanOffline, SpendAccepted
    <3> DEFINE planned(o) == [tx |-> UnsignedSpend(terms, op, path, fee),
                              path |-> path, observed |-> o]
    <3>2. planned(TRUE) \in Plan /\ planned(FALSE) \in Plan
      BY <3>1 DEF Plan
    <3>3. plans' = plans \cup {planned(TRUE)} \/ plans' = plans \cup {planned(FALSE)}
      BY <2>11 DEF PlanObserved, PlanOffline
    <3> HIDE DEF planned
    <3>4. plans' \subseteq Plan
      BY <3>2, <3>3
    <3> QED
      BY <2>11, <3>4 DEF PlanObserved, PlanOffline, chainVars, nodeVars, obsVars
  <2>12. ASSUME NEW key \in Keys, NEW tx \in KnownTxs,
                SignPlanned(key, tx) \/ \E hash \in HashTypes : SignUnprompted(key, tx, hash)
         PROVE TypeOK'
    <3>1. tx \in Tx
      BY HandBuiltAssumption DEF KnownTxs, Plan
    <3>2. sigs' \subseteq Signature
      BY <2>12, <3>1 DEF SignPlanned, SignUnprompted, Signature, HashTypes
    <3> QED
      BY <2>12, <3>2 DEF SignPlanned, SignUnprompted, chainVars, nodeVars, obsVars
  <2>13. CASE UNCHANGED vars
    BY <2>13 DEF vars
  <2> QED
    BY <2>1, <2>2, <2>3, <2>4, <2>5, <2>6, <2>7, <2>8, <2>9, <2>10, <2>11, <2>12, <2>13
       DEF Next, Chain, Connection, Observe, PlanSpend, Sign
<1> QED
  BY <1>1, <1>2, PTL DEF Spec

-----------------------------------------------------------------------------
(* Settlement.                                                             *)

\* A witness that the tool's encoder agrees to and that opens a branch consists of
\* SIGHASH_ALL signatures on the very transaction: the buyer's on either branch,
\* the seller's too on the release branch.
LEMMA WitnessSigned ==
    ASSUME TypeOK, NEW tx \in Tx, NEW path \in Paths,
           NEW w \in Witnesses,
           SignatureScriptAccepted(path, w), RedeemScript(terms, path, tx, w)
    PROVE  /\ Signed(terms.buyer, tx)
           /\ path = "release" => Signed(terms.seller, tx)
<1>1. Authorised(terms, path, tx, w)
  BY DEF RedeemScript, ReleaseBranch, RefundBranch, Paths
<1>2. ASSUME NEW s \in sigs, NEW key \in Keys, s.hash = "all", SignatureValid(s, key, tx)
      PROVE  Signed(key, tx)
  <2>1. s \in Signature
    BY DEF TypeOK
  <2>2. s.key = key /\ s.tx = tx
    BY <1>2 DEF SignatureValid
  <2>3. s = [key |-> key, tx |-> tx, hash |-> "all"]
    BY <1>2, <2>1, <2>2 DEF Signature
  <2> QED
    BY <2>3 DEF Signed
<1>3. terms.buyer \in Keys /\ terms.seller \in Keys
  BY DEF TypeOK, EscrowTerms
<1>4. CASE \E s \in sigs : w = <<s>>
  <2>1. PICK s \in sigs : w = <<s>>
    BY <1>4
  <2>2. path # "release"
    BY <2>1 DEF SignatureScriptAccepted, SignerCount
  <2>3. s.hash = "all" /\ SignatureValid(s, terms.buyer, tx)
    BY <1>1, <2>1 DEF SignatureScriptAccepted, Authorised
  <2> QED
    BY <1>2, <1>3, <2>2, <2>3
<1>5. CASE \E s \in sigs, r \in sigs : w = <<s, r>>
  <2>1. PICK s \in sigs, r \in sigs : w = <<s, r>>
    BY <1>5
  <2>2. s.hash = "all" /\ r.hash = "all"
    BY <2>1 DEF SignatureScriptAccepted
  <2>3. SignatureValid(s, terms.buyer, tx)
    BY <1>1, <2>1 DEF Authorised
  <2>4. path = "release" => SignatureValid(r, terms.seller, tx)
    BY <1>1, <2>1 DEF Authorised
  <2> QED
    BY <1>2, <1>3, <2>2, <2>3, <2>4
<1> QED
  BY <1>4, <1>5 DEF Witnesses

\* What acceptance establishes about the transaction: it settles its outpoint by
\* the terms.
Settles(tx, score) ==
    LET amount == Entry[tx.outpoint].amount IN
        /\ Signed(terms.buyer, tx)
        /\ \/ tx.script = terms.buyer /\ score > terms.refund_daa_score
           \/ tx.script = terms.seller /\ Signed(terms.seller, tx)
        /\ ~tx.extraInput /\ ~tx.extraOutput
        /\ tx.value <= amount /\ amount - tx.value <= terms.max_fee
        /\ amount > terms.max_fee /\ amount <= I64Max
        /\ Entry[tx.outpoint].ours

\* Only outpoints at the escrow address are funded.
FundedOurs == \A op \in funded : Entry[op].ours

LEMMA AcceptSettles ==
    ASSUME TypeOK, TermsAccepted(terms), FundedOurs, NEW tx \in Tx, NEW path \in Paths,
           NEW w \in Witnesses, Accept(tx, path, w)
    PROVE  Settles(tx, daa)
<1> DEFINE amount == Entry[tx.outpoint].amount
<1>1. amount \in Nat /\ tx.value \in Nat /\ tx.lockTime \in Nat
  BY EntryAssumption DEF Tx, UtxoEntry
<1>2. terms.max_fee \in Nat /\ terms.refund_daa_score \in Nat /\ daa \in Nat
  BY DEF TypeOK, EscrowTerms
<1>3. ShapeHolds(tx) /\ ValueHolds(terms, tx)
  BY DEF Accept, RedeemScript, ReleaseBranch, RefundBranch
<1>4. /\ ~tx.extraInput /\ ~tx.extraOutput
      /\ tx.value <= amount /\ amount - tx.value <= terms.max_fee
      /\ amount > terms.max_fee /\ amount <= I64Max
      /\ Entry[tx.outpoint].ours
  BY <1>1, <1>2, <1>3 DEF ShapeHolds, ValueHolds, NoInflation, Accept, FundedOurs, Unspent
<1>5. /\ Signed(terms.buyer, tx)
      /\ path = "release" => Signed(terms.seller, tx)
  BY WitnessSigned DEF Accept
<1>6. CASE path = "release"
  <2>1. tx.script = terms.seller
    BY <1>6 DEF Accept, RedeemScript, ReleaseBranch
  <2> QED
    BY <1>4, <1>5, <1>6, <2>1 DEF Settles
<1>7. CASE path = "refund"
  <2>1. tx.script = terms.buyer /\ LockTimeVerified(terms.refund_daa_score, tx)
    BY <1>7 DEF Accept, RedeemScript, RefundBranch
  <2>2. terms.refund_daa_score # 0 /\ terms.refund_daa_score < LockTimeThreshold
    BY DEF TermsAccepted
  <2>3. IsFinalAt(tx, daa)
    BY DEF Accept
  <2>4. daa > terms.refund_daa_score
    BY <1>1, <1>2, <2>1, <2>2, <2>3, WidthAssumption DEF LockTimeVerified, IsFinalAt
  <2> QED
    BY <1>4, <1>5, <2>1, <2>4 DEF Settles
<1> QED
  BY <1>6, <1>7 DEF Paths

AcceptedSettle == \A a \in accepted : Settles(a.tx, a.score)

SettlementInv == TypeOK /\ TermsAccepted(terms) /\ FundedOurs /\ AcceptedSettle

\* The part of the state on which settlements depend only grows: terms stay, no
\* signature is ever withdrawn, and what is funded is an outpoint of the escrow.
LEMMA StepFrame ==
    ASSUME TypeOK, [Next]_vars
    PROVE  /\ terms' = terms
           /\ sigs \subseteq sigs'
           /\ funded' = funded \/ \E op \in Outpoints : Entry[op].ours /\ funded' = funded \cup {op}
           /\ \/ accepted' \subseteq accepted
              \/ \E op \in Outpoints : AcceptSpend(op)
<1> USE DEF chainVars, nodeVars, obsVars
<1>1. CASE Chain
  <2>1. CASE Tick
    BY <2>1 DEF Tick
  <2>2. ASSUME NEW op \in Outpoints, Fund(op)
        PROVE  terms' = terms /\ sigs' = sigs /\ accepted' = accepted /\ Entry[op].ours /\ funded' = funded \cup {op}
    BY <2>2 DEF Fund
  <2>3. ASSUME NEW op \in Outpoints, AcceptSpend(op)
        PROVE  terms' = terms /\ sigs' = sigs /\ funded' = funded
    BY <2>3 DEF AcceptSpend, Accept
  <2>4. ASSUME NEW a \in accepted, Reorg(a)
        PROVE  terms' = terms /\ sigs' = sigs /\ funded' = funded /\ accepted' \subseteq accepted
    BY <2>4 DEF Reorg
  <2> QED
    BY <1>1, <2>1, <2>2, <2>3, <2>4 DEF Chain
<1>2. CASE Connection
  BY <1>2 DEF Connection, SwitchNode, Reconnect
<1>3. CASE Observe
  BY <1>3 DEF Observe, ObserveServerInfo, ObserveUtxos, ObserveFeeEstimate,
              ObserveRecheck, ObserveFails
<1>4. CASE PlanSpend
  BY <1>4 DEF PlanSpend, PlanObserved, PlanOffline
<1>5. CASE Sign
  BY <1>5 DEF Sign, SignPlanned, SignUnprompted
<1>6. CASE UNCHANGED vars
  BY <1>6 DEF vars
<1> QED
  BY <1>1, <1>2, <1>3, <1>4, <1>5, <1>6 DEF Next

LEMMA SettlementInductive == Spec => []SettlementInv
<1>1. Init => TermsAccepted(terms) /\ FundedOurs /\ AcceptedSettle
  BY DEF Init, AcceptedSettle, FundedOurs
<1>2. ASSUME TypeOK, SettlementInv, [Next]_vars
      PROVE  TermsAccepted(terms)' /\ FundedOurs' /\ AcceptedSettle'
  <2>1. terms' = terms /\ sigs \subseteq sigs'
    BY <1>2, StepFrame
  <2>2. TermsAccepted(terms)'
    BY <1>2, <2>1 DEF SettlementInv, TermsAccepted
  <2>3. ASSUME NEW tx, NEW score, Settles(tx, score) PROVE Settles(tx, score)'
    BY <2>1, <2>3 DEF Settles, Signed
  <2>4. ASSUME accepted' \subseteq accepted PROVE AcceptedSettle'
    BY <1>2, <2>3, <2>4 DEF SettlementInv, AcceptedSettle
  <2>5. ASSUME NEW op \in Outpoints, AcceptSpend(op) PROVE AcceptedSettle'
    <3>1. PICK tx \in KnownTxs, path \in Paths, w \in Witnesses : Accept(tx, path, w)
      BY <2>5 DEF AcceptSpend
    <3>2. tx \in Tx
      BY <1>2, <3>1, HandBuiltAssumption DEF KnownTxs, Plan, TypeOK
    <3>3. Settles(tx, daa)
      BY <1>2, <3>1, <3>2, AcceptSettles DEF SettlementInv
    <3>4. accepted' = accepted \cup {[tx |-> tx, score |-> daa]}
      BY <3>1 DEF Accept
    <3> QED
      BY <1>2, <2>3, <3>3, <3>4 DEF SettlementInv, AcceptedSettle
  <2>6. FundedOurs'
    BY <1>2, StepFrame DEF SettlementInv, FundedOurs
  <2> QED
    BY <1>2, <2>2, <2>4, <2>5, <2>6, StepFrame
<1> QED
  BY <1>1, <1>2, TypeCorrect, PTL DEF Spec, SettlementInv

\* Money leaves the escrow only for a party entitled to it, and only on the exact
\* signatures that party's path asks for.
THEOREM PaidByAgreementHolds == Spec => []PaidByAgreement
<1>1. SettlementInv => PaidByAgreement
  BY DEF SettlementInv, AcceptedSettle, Settles, PaidByAgreement
<1> QED
  BY <1>1, SettlementInductive, PTL

\* No refund is accepted before the deadline has passed.
THEOREM NoEarlyRefundHolds == Spec => []NoEarlyRefund
<1>1. SettlementInv => NoEarlyRefund
  BY DEF SettlementInv, AcceptedSettle, Settles, NoEarlyRefund, TermsAccepted
<1> QED
  BY <1>1, SettlementInductive, PTL

\* No settlement costs the recipient more than the agreed fee cap.
THEOREM FeeWithinCapHolds == Spec => []FeeWithinCap
<1>1. SettlementInv => FeeWithinCap
  BY DEF SettlementInv, AcceptedSettle, Settles, FeeWithinCap
<1> QED
  BY <1>1, SettlementInductive, PTL

\* Whatever settles the escrow, the tool would have settled it as well: it refuses no
\* amount that the script lets out, and its refund waits no longer.
THEOREM ToolDoesAsWellHolds == Spec => []ToolDoesAsWell
<1>1. ASSUME SettlementInv PROVE ToolDoesAsWell
  <2>1. SUFFICES ASSUME NEW a \in accepted,
                        ~Entry[a.tx.outpoint].covenant, ~Entry[a.tx.outpoint].coinbase,
                        Entry[a.tx.outpoint].amount - a.tx.value # 0
                 PROVE  LET op == a.tx.outpoint  fee == Entry[op].amount - a.tx.value
                        IN  /\ SpendAccepted(terms, op, fee, 1)
                            /\ \E path \in Paths :
                                    LET tx == UnsignedSpend(terms, op, path, fee)
                                    IN  tx.script = a.tx.script /\ IsFinalAt(tx, a.score)
    BY DEF ToolDoesAsWell
  <2> DEFINE op  == a.tx.outpoint
             fee == Entry[op].amount - a.tx.value
             built(path) == UnsignedSpend(terms, op, path, fee)
  <2>2. Settles(a.tx, a.score)
    BY <1>1 DEF SettlementInv, AcceptedSettle
  <2>3. SpendAccepted(terms, op, fee, 1)
    BY <2>1, <2>2 DEF Settles, SpendAccepted, UtxoUsable, FeeUsable
  <2>4. CASE a.tx.script = terms.buyer /\ a.score > terms.refund_daa_score
    <3>1. terms.refund_daa_score \in Nat /\ a.score \in Nat
      BY <1>1 DEF SettlementInv, TypeOK, EscrowTerms, Acceptance
    <3>2. built("refund").lockTime < a.score /\ built("refund").script = a.tx.script
      BY <2>4, <3>1 DEF UnsignedSpend, Payout
    <3> QED BY <2>3, <3>2 DEF Paths, IsFinalAt
  <2>5. CASE a.tx.script = terms.seller
    <3>1. built("release").lockTime = 0 /\ built("release").script = a.tx.script
      BY <2>5 DEF UnsignedSpend, Payout
    <3> QED BY <2>3, <3>1 DEF Paths, IsFinalAt
  <2> QED BY <2>2, <2>4, <2>5 DEF Settles
<1> QED
  BY <1>1, SettlementInductive, PTL

-----------------------------------------------------------------------------
(* Planned transactions.                                                   *)

\* All that a required signer is asked for: SIGHASH_ALL on the planned transaction.
FullSignature(key, tx) == [key |-> key, tx |-> tx, hash |-> "all"]

FullWitness(path, tx) ==
    IF path = "release"
    THEN <<FullSignature(terms.buyer, tx), FullSignature(terms.seller, tx)>>
    ELSE <<FullSignature(terms.buyer, tx)>>

\* A witness assembled from exactly the required signatures is encoded, and its
\* signatures verify.
LEMMA FullWitnessAuthorises ==
    ASSUME NEW path \in Paths, NEW tx
    PROVE  /\ SignatureScriptAccepted(path, FullWitness(path, tx))
           /\ Authorised(terms, path, tx, FullWitness(path, tx))
<1>1. CASE path = "release"
  BY <1>1 DEF SignatureScriptAccepted, Authorised, SignatureValid, SignerCount, FullWitness,
              FullSignature
<1>2. CASE path = "refund"
  BY <1>2 DEF SignatureScriptAccepted, Authorised, SignatureValid, SignerCount, FullWitness,
              FullSignature
<1> QED
  BY <1>1, <1>2 DEF Paths

\* What the builder makes satisfies the branch of the redeem script it was made for
\* once the required signers have signed it.
LEMMA BuiltIsRedeemable ==
    ASSUME TypeOK, TermsAccepted(terms), NEW op \in AllOutpoints, NEW path \in Paths,
           NEW fee \in Nat, UtxoUsable(Entry[op]), FeeUsable(terms, Entry[op], fee),
           NEW tx, tx = UnsignedSpend(terms, op, path, fee)
    PROVE  /\ RedeemScript(terms, path, tx, FullWitness(path, tx))
           /\ NoInflation(tx)
<1> DEFINE amount == Entry[op].amount
<1>1. amount \in Nat /\ terms.max_fee \in Nat /\ terms.refund_daa_score \in Nat
  BY EntryAssumption DEF UtxoEntry, TypeOK, EscrowTerms
<1>2. /\ tx.outpoint = op /\ tx.value = amount - fee
      /\ ~tx.extraInput /\ ~tx.extraOutput
      /\ tx.script = Payout(terms, path)
      /\ tx.final <=> path = "release"
      /\ path = "refund" => tx.lockTime = terms.refund_daa_score
  BY DEF UnsignedSpend
<1>3. Authorised(terms, path, tx, FullWitness(path, tx))
  BY FullWitnessAuthorises
<1>4. ShapeHolds(tx) /\ ValueHolds(terms, tx) /\ NoInflation(tx)
  BY <1>1, <1>2 DEF ShapeHolds, ValueHolds, NoInflation, UtxoUsable, FeeUsable
<1>5. CASE path = "release"
  BY <1>2, <1>3, <1>4, <1>5 DEF RedeemScript, ReleaseBranch, Payout
<1>6. CASE path = "refund"
  <2>1. LockTimeVerified(terms.refund_daa_score, tx)
    BY <1>1, <1>2, <1>6 DEF LockTimeVerified
  <2> QED
    BY <1>2, <1>3, <1>4, <1>6, <2>1 DEF RedeemScript, RefundBranch, Payout
<1> QED
  BY <1>4, <1>5, <1>6 DEF Paths

\* Every plan is what the builder makes of a usable outpoint and fee.
PlanBuilt(plan) ==
    \E op \in AllOutpoints, fee \in Fees :
        /\ plan.tx = UnsignedSpend(terms, op, plan.path, fee)
        /\ UtxoUsable(Entry[op])
        /\ FeeUsable(terms, Entry[op], fee)

\* A refund planned from an observation is past the deadline, and stays past it.
PlanDue(plan) ==
    plan.observed /\ plan.path = "refund" => terms.refund_daa_score < daa

\* The score of an observation is never ahead of the chain's.
PlansInv ==
    /\ \A plan \in plans : PlanBuilt(plan) /\ PlanDue(plan)
    /\ obs.score <= daa

\* The score only grows, and only a planning step hands out a plan.
LEMMA PlanFrame ==
    ASSUME TypeOK, [Next]_vars
    PROVE  /\ daa' \in Nat /\ daa <= daa'
           /\ obs'.score = 0 \/ obs'.score = daa \/ obs'.score = obs.score
           /\ \/ plans' = plans
              \/ \E op \in AllOutpoints, path \in Paths, fee \in Fees,
                    budget \in ComputeBudgets :
                    \/ PlanObserved(op, path, fee, budget)
                    \/ PlanOffline(op, path, fee, budget)
<1> USE DEF chainVars, nodeVars, obsVars
<1>0. daa \in Nat /\ obs \in Observation
  BY DEF TypeOK
<1>1. CASE Chain
  BY <1>0, <1>1 DEF Chain, Tick, Fund, AcceptSpend, Accept, Reorg
<1>2. CASE Connection
  BY <1>0, <1>2 DEF Connection, SwitchNode, Reconnect
<1>3. CASE Observe
  <2>1. daa' = daa /\ plans' = plans
    BY <1>3 DEF Observe, ObserveServerInfo, ObserveUtxos, ObserveFeeEstimate,
                ObserveRecheck, ObserveFails
  <2>2. CASE ObserveServerInfo
    BY <1>0, <2>1, <2>2 DEF ObserveServerInfo, NoObservation
  <2>3. CASE ObserveUtxos
    <3>1. PICK rows : obs' = [obs EXCEPT !.step = "fees", !.rows = rows]
      BY <2>3 DEF ObserveUtxos
    <3>2. obs'.score = obs.score
      BY <1>0, <3>1 DEF Observation
    <3> QED
      BY <1>0, <2>1, <3>2
  <2>4. CASE ObserveFeeEstimate
    BY <1>0, <2>1, <2>4 DEF ObserveFeeEstimate, Observation
  <2>5. CASE ObserveRecheck
    BY <1>0, <2>1, <2>5 DEF ObserveRecheck, Observation
  <2>6. CASE ObserveFails
    BY <1>0, <2>1, <2>6 DEF ObserveFails, NoObservation
  <2> QED
    BY <1>3, <2>2, <2>3, <2>4, <2>5, <2>6 DEF Observe
<1>4. CASE PlanSpend
  BY <1>0, <1>4 DEF PlanSpend, PlanObserved, PlanOffline
<1>5. CASE Sign
  BY <1>0, <1>5 DEF Sign, SignPlanned, SignUnprompted
<1>6. CASE UNCHANGED vars
  BY <1>0, <1>6 DEF vars
<1> QED
  BY <1>1, <1>2, <1>3, <1>4, <1>5, <1>6 DEF Next

LEMMA PlansInductive == Spec => []PlansInv
<1>1. Init => PlansInv
  BY DEF Init, PlansInv, NoObservation
<1>2. ASSUME TypeOK, PlansInv, [Next]_vars PROVE PlansInv'
  <2>0. /\ daa \in Nat /\ daa' \in Nat /\ daa <= daa' /\ obs.score \in Nat
        /\ terms.refund_daa_score \in Nat
    BY <1>2, PlanFrame DEF TypeOK, Observation, EscrowTerms
  <2>1. terms' = terms
    BY <1>2, StepFrame
  <2>2. obs'.score <= daa'
    BY <1>2, <2>0, PlanFrame DEF PlansInv
  <2>3. ASSUME NEW plan, PlanBuilt(plan) PROVE PlanBuilt(plan)'
    BY <2>1, <2>3 DEF PlanBuilt
  <2>4. ASSUME NEW plan, PlanDue(plan) PROVE PlanDue(plan)'
    BY <2>0, <2>1, <2>4 DEF PlanDue
  <2>5. CASE plans' = plans
    BY <1>2, <2>2, <2>3, <2>4, <2>5 DEF PlansInv
  <2>6. ASSUME NEW op \in AllOutpoints, NEW path \in Paths, NEW fee \in Fees,
               NEW budget \in ComputeBudgets,
               PlanObserved(op, path, fee, budget) \/ PlanOffline(op, path, fee, budget)
        PROVE  PlansInv'
    <3> DEFINE new(o) == [tx |-> UnsignedSpend(terms, op, path, fee),
                          path |-> path, observed |-> o]
    <3>1. UtxoUsable(Entry[op]) /\ FeeUsable(terms, Entry[op], fee)
      BY <2>6 DEF PlanObserved, PlanOffline, SpendAccepted
    <3>2. PlanBuilt(new(TRUE)) /\ PlanBuilt(new(FALSE))
      BY <3>1 DEF PlanBuilt
    <3>3. PlanDue(new(FALSE))
      BY DEF PlanDue
    <3>4. CASE PlanObserved(op, path, fee, budget)
      <4>1. PlanDue(new(TRUE))
        BY <1>2, <2>0, <3>4 DEF PlanObserved, PlanDue, PlansInv
      <4>2. plans' = plans \cup {new(TRUE)}
        BY <3>4 DEF PlanObserved
      <4> HIDE DEF new
      <4> QED
        BY <1>2, <2>2, <2>3, <2>4, <3>2, <4>1, <4>2 DEF PlansInv
    <3>5. CASE PlanOffline(op, path, fee, budget)
      <4>1. plans' = plans \cup {new(FALSE)}
        BY <3>5 DEF PlanOffline
      <4> HIDE DEF new
      <4> QED
        BY <1>2, <2>2, <2>3, <2>4, <3>2, <3>3, <4>1 DEF PlansInv
    <3> QED
      BY <2>6, <3>4, <3>5
  <2> QED
    BY <1>2, <2>5, <2>6, PlanFrame
<1> QED
  BY <1>1, <1>2, TypeCorrect, PTL DEF Spec

\* Whatever the tool hands out, from whatever it was told of the UTXO, the redeem
\* script accepts once signed; and a plan made from an observation is final on the
\* chain, however stale the observation.
THEOREM PlansAreSpendableHolds == Spec => []PlansAreSpendable
<1>1. ASSUME SettlementInv, PlansInv PROVE PlansAreSpendable
  <2> SUFFICES ASSUME NEW plan \in plans
               PROVE  /\ SignatureScriptAccepted(plan.path, FullWitness(plan.path, plan.tx))
                      /\ RedeemScript(terms, plan.path, plan.tx,
                                      FullWitness(plan.path, plan.tx))
                      /\ NoInflation(plan.tx)
                      /\ plan.observed => IsFinalAt(plan.tx, daa)
    BY DEF PlansAreSpendable, FullWitness, FullSignature
  <2>1. plan.path \in Paths /\ TypeOK /\ TermsAccepted(terms)
    BY <1>1 DEF SettlementInv, TypeOK, Plan
  <2>2. PICK op \in AllOutpoints, fee \in Fees :
            /\ plan.tx = UnsignedSpend(terms, op, plan.path, fee)
            /\ UtxoUsable(Entry[op])
            /\ FeeUsable(terms, Entry[op], fee)
    BY <1>1 DEF PlansInv, PlanBuilt
  <2>3. fee \in Nat
    BY CallerAssumption
  <2>4. /\ RedeemScript(terms, plan.path, plan.tx, FullWitness(plan.path, plan.tx))
        /\ NoInflation(plan.tx)
    BY <2>1, <2>2, <2>3, BuiltIsRedeemable
  <2>5. SignatureScriptAccepted(plan.path, FullWitness(plan.path, plan.tx))
    BY <2>1, FullWitnessAuthorises
  <2>6. ASSUME plan.observed PROVE IsFinalAt(plan.tx, daa)
    <3>1. CASE plan.path = "release"
      BY <2>2, <3>1 DEF UnsignedSpend, IsFinalAt
    <3>2. CASE plan.path = "refund"
      <4>1. terms.refund_daa_score < daa
        BY <1>1, <2>6, <3>2 DEF PlansInv, PlanDue
      <4> QED
        BY <2>2, <3>2, <4>1 DEF UnsignedSpend, IsFinalAt
    <3> QED
      BY <2>1, <3>1, <3>2 DEF Paths
  <2> QED
    BY <2>4, <2>5, <2>6
<1> QED
  BY <1>1, SettlementInductive, PlansInductive, PTL

-----------------------------------------------------------------------------
(* The recheck of an observation.                                          *)

\* What the reads so far owe to which node: the connection has not moved since a node
\* that passed, or it has; and if untrusted rows came after the only move, the node that
\* fails the gate is still there.
RecheckInv ==
    /\ obs.step \in {"idle", "utxos"} => history.trusted
    /\ obs.step = "utxos" /\ history.moves = 0 => ValidateNode(node)
    /\ obs.step \in {"fees", "recheck"} /\ ~history.trusted =>
          history.moves >= 2 \/ (history.moves = 1 /\ ~ValidateNode(node))
    /\ RecheckCatchesOneMove

LEMMA RecheckInvStep == TypeOK /\ RecheckInv /\ [Next]_vars => RecheckInv'
<1> SUFFICES ASSUME TypeOK, RecheckInv, [Next]_vars PROVE RecheckInv'
  OBVIOUS
<1> USE DEF obsVars, nodeVars
<1>1. /\ obs = [step |-> obs.step, rows |-> obs.rows, score |-> obs.score, info |-> obs.info]
      /\ obs.step \in Steps
      /\ history = [moves |-> history.moves, trusted |-> history.trusted]
      /\ history.moves \in 0 .. 2 /\ history.trusted \in BOOLEAN
  BY DEF TypeOK, Observation
<1>2. CASE UNCHANGED <<obsVars, nodeVars>>
  BY <1>2 DEF RecheckInv, RecheckCatchesOneMove, ValidateNode
<1>3. ASSUME NEW info, SwitchNode(info) \/ Reconnect(info) PROVE RecheckInv'
  <2>1. obs' = obs
    BY <1>3 DEF SwitchNode, Reconnect
  <2>2. CountMove
    BY <1>3 DEF SwitchNode, Reconnect
  <2>3. CASE obs.step \in {"utxos", "fees", "recheck"}
    <3>1. CASE history.moves < 2
      <4>1. history'.moves = history.moves + 1 /\ history'.trusted = history.trusted
        BY <1>1, <2>2, <2>3, <3>1 DEF CountMove
      <4>2. history.moves = 0 => history.trusted \/ obs.step \notin {"fees", "recheck"}
        BY DEF RecheckInv
      <4>3. history.moves = 1 => history'.moves >= 2
        BY <4>1
      <4>4. history'.moves # 0
        BY <1>1, <4>1
      <4> QED
        BY <1>1, <2>1, <2>3, <3>1, <4>1, <4>2, <4>3, <4>4 DEF RecheckInv, RecheckCatchesOneMove
    <3>2. CASE history.moves = 2
      <4>1. history' = history
        BY <2>2, <3>2 DEF CountMove
      <4> QED
        BY <2>1, <2>3, <3>2, <4>1 DEF RecheckInv, RecheckCatchesOneMove
    <3> QED
      BY <1>1, <3>1, <3>2
  <2>4. CASE obs.step \in {"idle", "ready"}
    BY <2>1, <2>2, <2>4 DEF CountMove, RecheckInv, RecheckCatchesOneMove
  <2> QED
    BY <1>1, <2>3, <2>4 DEF Steps
<1>4. CASE ObserveServerInfo
  BY <1>4 DEF ObserveServerInfo, NoObservation, NoHistory, RecheckInv, RecheckCatchesOneMove, ValidateNode
<1>5. CASE ObserveUtxos
  <2>1. obs'.step = "fees" /\ node' = node
    BY <1>1, <1>5 DEF ObserveUtxos
  <2>2. history'.moves = history.moves /\ history'.trusted = ValidateNode(node)
    BY <1>1, <1>5 DEF ObserveUtxos
  <2>3. ValidateNode(node)' = ValidateNode(node)
    BY <2>1 DEF ValidateNode
  <2> QED
    BY <1>1, <1>5, <2>1, <2>2, <2>3 DEF ObserveUtxos, RecheckInv, RecheckCatchesOneMove
<1>6. CASE ObserveFeeEstimate
  BY <1>1, <1>6 DEF ObserveFeeEstimate, RecheckInv, RecheckCatchesOneMove, ValidateNode
<1>7. CASE ObserveRecheck
  BY <1>1, <1>7 DEF ObserveRecheck, RecheckInv, RecheckCatchesOneMove, ValidateNode
<1>8. CASE ObserveFails
  BY <1>8 DEF ObserveFails, NoObservation, NoHistory, RecheckInv, RecheckCatchesOneMove
<1>9. CASE Chain
  BY <1>2, <1>9 DEF Chain, Tick, Fund, AcceptSpend, Accept, Reorg
<1>10. CASE PlanSpend \/ Sign
  BY <1>2, <1>10 DEF PlanSpend, PlanObserved, PlanOffline, Sign, SignPlanned, SignUnprompted
<1>11. CASE UNCHANGED vars
  BY <1>2, <1>11 DEF vars
<1> QED
  BY <1>3, <1>4, <1>5, <1>6, <1>7, <1>8, <1>9, <1>10, <1>11 DEF Next, Connection, Observe

\* validate_node after the reads: rows from a node that fails the gate are kept only if
\* the connection moved at least twice within the observation, wherever to.
THEOREM RecheckCatchesOneMoveHolds == Spec => []RecheckCatchesOneMove
<1>1. Init => RecheckInv
  BY DEF Init, NoObservation, NoHistory, RecheckInv, RecheckCatchesOneMove
<1>2. RecheckInv => RecheckCatchesOneMove
  BY DEF RecheckInv
<1> QED
  BY <1>1, <1>2, RecheckInvStep, TypeCorrect, PTL DEF Spec

-----------------------------------------------------------------------------
(* The promise: every step of BuyerSellerEscrow is a step of EscrowPromise *)
(* or leaves it alone, for all keys, outpoints, amounts, terms and bounds. *)

\* Money is spent where it was funded, and no outpoint twice at a time.
OneEach(f, acc) ==
    /\ \A a \in acc : a.tx.outpoint \in f
    /\ \A a, b \in acc : a.tx.outpoint = b.tx.outpoint => a = b

PromiseInv == SettlementInv /\ OneEach(funded, accepted)

-----------------------------------------------------------------------------
(* The mapping, as a function of what it is worked out from.               *)

SpentIn(acc) == {a.tx.outpoint : a \in acc}

OutcomeIn(f, acc, seller, op) ==
    CASE op \notin f -> "unfunded"
      [] op \in f \ SpentIn(acc) -> "locked"
      [] \E a \in acc : a.tx.outpoint = op /\ a.tx.script = seller -> "released"
      [] OTHER -> "refunded"

PaidIn(acc, op) ==
    IF op \in SpentIn(acc) THEN (CHOOSE a \in acc : a.tx.outpoint = op).tx.value ELSE 0

Settlement(f, acc, seller) == [op \in Outpoints |-> OutcomeIn(f, acc, seller, op)]
PaidOuts(acc) == [op \in Outpoints |-> PaidIn(acc, op)]

Agreed(ss) == {<<s.key, s.tx.outpoint, s.tx.script>> :
                 s \in {s \in ss : s.hash = "all" /\ s.tx.outpoint \in Outpoints}}

LEMMA UnspentOutcome ==
    ASSUME NEW f, NEW acc, NEW seller, NEW op, OneEach(f, acc)
    PROVE  /\ op \notin f => OutcomeIn(f, acc, seller, op) = "unfunded"
           /\ op \in f /\ op \notin SpentIn(acc) => OutcomeIn(f, acc, seller, op) = "locked"
           /\ op \notin SpentIn(acc) => PaidIn(acc, op) = 0
<1>1. op \notin f => OutcomeIn(f, acc, seller, op) = "unfunded"
  BY DEF OutcomeIn, OneEach, SpentIn
<1>2. op \in f /\ op \notin SpentIn(acc) => OutcomeIn(f, acc, seller, op) = "locked"
  BY DEF OutcomeIn, OneEach, SpentIn
<1>3. op \notin SpentIn(acc) => PaidIn(acc, op) = 0
  BY DEF PaidIn
<1> QED
  BY <1>1, <1>2, <1>3

LEMMA SpentOutcome ==
    ASSUME NEW f, NEW acc, NEW seller, NEW a \in acc, NEW op, OneEach(f, acc), a.tx.outpoint = op
    PROVE  /\ OutcomeIn(f, acc, seller, op) = IF a.tx.script = seller THEN "released" ELSE "refunded"
           /\ PaidIn(acc, op) = a.tx.value
<1>1. op \in f /\ op \in SpentIn(acc)
  BY DEF OneEach, SpentIn
<1>2. (\E b \in acc : b.tx.outpoint = op /\ b.tx.script = seller) <=> a.tx.script = seller
  BY DEF OneEach
<1>3. (CHOOSE b \in acc : b.tx.outpoint = op) = a
  BY DEF OneEach
<1>4. OutcomeIn(f, acc, seller, op) = IF a.tx.script = seller THEN "released" ELSE "refunded"
  BY <1>1, <1>2 DEF OutcomeIn
<1> QED
  BY <1>1, <1>3, <1>4 DEF PaidIn

\* The mapping is the one of BuyerSellerEscrow.
LEMMA Mapping ==
    /\ [op \in Outpoints |-> Outcome(op)] = Settlement(funded, accepted, terms.seller)
    /\ [op \in Outpoints |-> PaidOut(op)] = PaidOuts(accepted)
    /\ {<<s.key, s.tx.outpoint, s.tx.script>> :
          s \in {s \in sigs : s.hash = "all" /\ s.tx.outpoint \in Outpoints}} = Agreed(sigs)
    /\ ([op \in Outpoints |-> Outcome(op)])' = Settlement(funded', accepted', terms'.seller)
    /\ ([op \in Outpoints |-> PaidOut(op)])' = PaidOuts(accepted')
    /\ ({<<s.key, s.tx.outpoint, s.tx.script>> :
          s \in {s \in sigs : s.hash = "all" /\ s.tx.outpoint \in Outpoints}})' = Agreed(sigs')
BY DEF Outcome, PaidOut, Settlement, PaidOuts, Agreed, OutcomeIn, PaidIn, Unspent, Spent, SpentIn

-----------------------------------------------------------------------------
(* Acceptances.                                                            *)

\* One more acceptance, of money that is there and unspent.
LEMMA OneMore ==
    ASSUME NEW f, NEW acc, NEW seller, NEW a, OneEach(f, acc),
           a.tx.outpoint \in Outpoints, a.tx.outpoint \in f, a.tx.outpoint \notin SpentIn(acc)
    PROVE  LET op == a.tx.outpoint IN
           /\ OneEach(f, acc \cup {a})
           /\ Settlement(f, acc, seller)[op] = "locked"
           /\ Settlement(f, acc \cup {a}, seller) =
                [Settlement(f, acc, seller) EXCEPT
                    ![op] = IF a.tx.script = seller THEN "released" ELSE "refunded"]
           /\ PaidOuts(acc \cup {a}) = [PaidOuts(acc) EXCEPT ![op] = a.tx.value]
<1> DEFINE op == a.tx.outpoint
           more == acc \cup {a}
<1>1. OneEach(f, more)
  BY DEF OneEach, SpentIn
<1>2. ASSUME NEW o \in Outpoints
      PROVE  /\ OutcomeIn(f, more, seller, o) =
                  IF o = op THEN IF a.tx.script = seller THEN "released" ELSE "refunded"
                            ELSE OutcomeIn(f, acc, seller, o)
             /\ PaidIn(more, o) = IF o = op THEN a.tx.value ELSE PaidIn(acc, o)
  <2>1. CASE o = op
    <3>1. a \in more
      OBVIOUS
    <3> HIDE DEF more
    <3>2. /\ OutcomeIn(f, more, seller, op) = IF a.tx.script = seller THEN "released" ELSE "refunded"
          /\ PaidIn(more, op) = a.tx.value
      BY <1>1, <3>1, SpentOutcome
    <3> QED
      BY <2>1, <3>2
  <2>2. CASE o # op /\ o \in SpentIn(acc)
    <3>1. PICK b \in acc : b.tx.outpoint = o
      BY <2>2 DEF SpentIn
    <3>2. b \in more
      OBVIOUS
    <3> HIDE DEF more
    <3>3. /\ OutcomeIn(f, more, seller, o) = IF b.tx.script = seller THEN "released" ELSE "refunded"
          /\ PaidIn(more, o) = b.tx.value
      BY <1>1, <3>1, <3>2, SpentOutcome
    <3>4. /\ OutcomeIn(f, acc, seller, o) = IF b.tx.script = seller THEN "released" ELSE "refunded"
          /\ PaidIn(acc, o) = b.tx.value
      BY <3>1, SpentOutcome
    <3> QED
      BY <2>2, <3>3, <3>4
  <2>3. CASE o # op /\ o \notin SpentIn(acc)
    <3>1. o \notin SpentIn(more)
      BY <2>3 DEF SpentIn
    <3> QED
      BY <1>1, <2>3, <3>1, UnspentOutcome
  <2> QED
    BY <2>1, <2>2, <2>3
<1>3. Settlement(f, acc, seller)[op] = "locked"
  BY UnspentOutcome DEF Settlement
<1> QED
  BY <1>1, <1>2, <1>3 DEF Settlement, PaidOuts

\* One acceptance less.
LEMMA OneLess ==
    ASSUME NEW f, NEW acc, NEW seller, NEW a \in acc, OneEach(f, acc), a.tx.outpoint \in Outpoints
    PROVE  LET op == a.tx.outpoint IN
           /\ OneEach(f, acc \ {a})
           /\ Settlement(f, acc, seller)[op] \in {"released", "refunded"}
           /\ Settlement(f, acc \ {a}, seller) = [Settlement(f, acc, seller) EXCEPT ![op] = "locked"]
           /\ PaidOuts(acc \ {a}) = [PaidOuts(acc) EXCEPT ![op] = 0]
<1> DEFINE op == a.tx.outpoint
           less == acc \ {a}
<1>1. OneEach(f, less)
  BY DEF OneEach
<1>2. op \in f /\ op \notin SpentIn(less)
  BY DEF OneEach, SpentIn
<1>3. ASSUME NEW o \in Outpoints
      PROVE  /\ OutcomeIn(f, less, seller, o) = IF o = op THEN "locked" ELSE OutcomeIn(f, acc, seller, o)
             /\ PaidIn(less, o) = IF o = op THEN 0 ELSE PaidIn(acc, o)
  <2>1. CASE o = op
    BY <1>1, <1>2, <2>1, UnspentOutcome
  <2>2. CASE o # op /\ o \in SpentIn(acc)
    <3>1. PICK b \in less : b.tx.outpoint = o
      BY <2>2 DEF SpentIn
    <3>2. /\ OutcomeIn(f, less, seller, o) = IF b.tx.script = seller THEN "released" ELSE "refunded"
          /\ PaidIn(less, o) = b.tx.value
      BY <1>1, <3>1, SpentOutcome
    <3>3. /\ OutcomeIn(f, acc, seller, o) = IF b.tx.script = seller THEN "released" ELSE "refunded"
          /\ PaidIn(acc, o) = b.tx.value
      BY <3>1, SpentOutcome
    <3> QED
      BY <2>2, <3>2, <3>3
  <2>3. CASE o # op /\ o \notin SpentIn(acc)
    <3>1. o \notin SpentIn(less)
      BY <2>3 DEF SpentIn
    <3>2. o \in f => OutcomeIn(f, less, seller, o) = "locked" /\ OutcomeIn(f, acc, seller, o) = "locked"
      BY <1>1, <2>3, <3>1, UnspentOutcome
    <3>3. o \notin f => OutcomeIn(f, less, seller, o) = "unfunded" /\ OutcomeIn(f, acc, seller, o) = "unfunded"
      BY <1>1, UnspentOutcome
    <3> QED
      BY <1>1, <2>3, <3>1, <3>2, <3>3, UnspentOutcome
  <2> QED
    BY <2>1, <2>2, <2>3
<1>4. Settlement(f, acc, seller)[op] \in {"released", "refunded"}
  BY SpentOutcome DEF Settlement
<1> QED
  BY <1>1, <1>3, <1>4 DEF Settlement, PaidOuts

\* Money arrives at an outpoint that had none.
LEMMA OneFunded ==
    ASSUME NEW f, NEW acc, NEW seller, NEW op \in Outpoints, OneEach(f, acc), op \notin f
    PROVE  /\ OneEach(f \cup {op}, acc)
           /\ Settlement(f, acc, seller)[op] = "unfunded"
           /\ Settlement(f \cup {op}, acc, seller) = [Settlement(f, acc, seller) EXCEPT ![op] = "locked"]
<1> DEFINE more == f \cup {op}
<1>1. OneEach(more, acc)
  BY DEF OneEach
<1>2. op \notin SpentIn(acc)
  BY DEF OneEach, SpentIn
<1>3. ASSUME NEW o \in Outpoints
      PROVE  OutcomeIn(more, acc, seller, o) = IF o = op THEN "locked" ELSE OutcomeIn(f, acc, seller, o)
  <2>1. CASE o = op
    BY <1>1, <1>2, <2>1, UnspentOutcome
  <2>2. CASE o # op /\ o \in SpentIn(acc)
    <3>1. PICK b \in acc : b.tx.outpoint = o
      BY <2>2 DEF SpentIn
    <3>2. /\ OutcomeIn(more, acc, seller, o) = IF b.tx.script = seller THEN "released" ELSE "refunded"
          /\ PaidIn(acc, o) = b.tx.value
      BY <1>1, <3>1, SpentOutcome
    <3>3. /\ OutcomeIn(f, acc, seller, o) = IF b.tx.script = seller THEN "released" ELSE "refunded"
          /\ PaidIn(acc, o) = b.tx.value
      BY <3>1, SpentOutcome
    <3> QED
      BY <2>2, <3>2, <3>3
  <2>3. CASE o # op /\ o \notin SpentIn(acc)
    <3>1. o \in f => OutcomeIn(more, acc, seller, o) = "locked" /\ OutcomeIn(f, acc, seller, o) = "locked"
      BY <1>1, <2>3, UnspentOutcome
    <3>2. o \notin f => OutcomeIn(more, acc, seller, o) = "unfunded" /\ OutcomeIn(f, acc, seller, o) = "unfunded"
      BY <1>1, <2>3, UnspentOutcome
    <3> QED
      BY <2>3, <3>1, <3>2
  <2> QED
    BY <2>1, <2>2, <2>3
<1>4. Settlement(f, acc, seller)[op] = "unfunded"
  BY UnspentOutcome DEF Settlement
<1> QED
  BY <1>1, <1>3, <1>4 DEF Settlement

-----------------------------------------------------------------------------
(* Steps.                                                                  *)

\* Who agreed to what only grows with the signatures on whole transactions.
LEMMA OneSigned ==
    ASSUME NEW ss, NEW s
    PROVE  Agreed(ss \cup {s}) =
             IF s.hash = "all" /\ s.tx.outpoint \in Outpoints
             THEN Agreed(ss) \cup {<<s.key, s.tx.outpoint, s.tx.script>>}
             ELSE Agreed(ss)
BY DEF Agreed

LEMMA SignedAgrees ==
    ASSUME NEW key, NEW tx, Signed(key, tx), tx.outpoint \in Outpoints
    PROVE  <<key, tx.outpoint, tx.script>> \in Agreed(sigs)
<1> DEFINE s == [key |-> key, tx |-> tx, hash |-> "all"]
<1>1. s \in sigs
  BY DEF Signed
<1>2. s.key = key /\ s.tx = tx /\ s.hash = "all"
  OBVIOUS
<1> HIDE DEF s
<1> QED
  BY <1>1, <1>2 DEF Agreed

\* What none of the promise's values is worked out from may change freely.
LEMMA Stutters ==
    ASSUME UNCHANGED <<terms, daa, funded, accepted, sigs>>
    PROVE  UNCHANGED Promise!vars
BY Mapping DEF Promise!vars

LEMMA TickAdvances == Tick => Promise!Next
BY Mapping DEF Tick, Promise!Next, Promise!Advance

LEMMA FundLocks ==
    ASSUME PromiseInv, NEW op \in Outpoints, Fund(op)
    PROVE  Promise!Next /\ OneEach(funded', accepted')
<1>1. /\ funded' = funded \cup {op} /\ op \notin funded
      /\ accepted' = accepted /\ terms' = terms /\ daa' = daa /\ sigs' = sigs
  BY DEF Fund
<1>2. /\ OneEach(funded', accepted')
      /\ Settlement(funded, accepted, terms.seller)[op] = "unfunded"
      /\ Settlement(funded', accepted', terms'.seller) =
           [Settlement(funded, accepted, terms.seller) EXCEPT ![op] = "locked"]
  BY <1>1, OneFunded DEF PromiseInv
<1>3. Promise!Lock(op)
  BY <1>1, <1>2, Mapping DEF Promise!Lock
<1> QED
  BY <1>2, <1>3 DEF Promise!Next

LEMMA AcceptanceSettles ==
    ASSUME PromiseInv, NEW op \in Outpoints, AcceptSpend(op)
    PROVE  Promise!Next /\ OneEach(funded', accepted')
<1>1. PICK tx \in KnownTxs, path \in Paths, w \in Witnesses : tx.outpoint = op /\ Accept(tx, path, w)
  BY DEF AcceptSpend
<1>2. tx \in Tx
  BY <1>1, HandBuiltAssumption DEF KnownTxs, Plan, TypeOK, PromiseInv, SettlementInv
<1>3. Settles(tx, daa)
  BY <1>1, <1>2, AcceptSettles DEF PromiseInv, SettlementInv
<1> DEFINE a == [tx |-> tx, score |-> daa]
<1>4. /\ accepted' = accepted \cup {a} /\ a.tx = tx
      /\ funded' = funded /\ terms' = terms /\ daa' = daa /\ sigs' = sigs
      /\ op \in funded /\ op \notin SpentIn(accepted)
  BY <1>1 DEF Accept, Unspent, Spent, SpentIn
<1> HIDE DEF a
<1>5. /\ OneEach(funded', accepted')
      /\ Settlement(funded, accepted, terms.seller)[op] = "locked"
      /\ Settlement(funded', accepted', terms'.seller) =
           [Settlement(funded, accepted, terms.seller) EXCEPT
               ![op] = IF tx.script = terms.seller THEN "released" ELSE "refunded"]
      /\ PaidOuts(accepted') = [PaidOuts(accepted) EXCEPT ![op] = tx.value]
  BY <1>1, <1>4, OneMore DEF PromiseInv
<1>6. tx.value \in Promise!FairValues(op)
  <2>1. /\ tx.value \in Nat /\ Entry[op].amount \in Nat /\ terms.max_fee \in Nat
    BY <1>2, EntryAssumption DEF Tx, UtxoEntry, PromiseInv, SettlementInv, TypeOK, EscrowTerms, AllOutpoints
  <2>2. tx.value <= Entry[op].amount /\ Entry[op].amount - tx.value <= terms.max_fee
    BY <1>1, <1>3 DEF Settles
  <2> QED
    BY <2>1, <2>2 DEF Promise!FairValues
<1>7. Signed(terms.buyer, tx) /\ (tx.script = terms.seller => Signed(terms.seller, tx))
  BY <1>3 DEF Settles, PromiseInv, SettlementInv, TermsAccepted
<1>8. CASE tx.script = terms.seller
  <2>1. /\ <<terms.buyer, op, terms.seller>> \in Agreed(sigs)
        /\ <<terms.seller, op, terms.seller>> \in Agreed(sigs)
    BY <1>1, <1>7, <1>8, SignedAgrees
  <2>2. Promise!Release(op, tx.value)
    BY <1>4, <1>5, <1>8, <2>1, Mapping DEF Promise!Release, Promise!Settle
  <2> QED
    BY <1>5, <1>6, <2>2 DEF Promise!Next
<1>9. CASE tx.script # terms.seller
  <2>1. tx.script = terms.buyer /\ daa > terms.refund_daa_score
    BY <1>3, <1>9 DEF Settles
  <2>2. <<terms.buyer, op, terms.buyer>> \in Agreed(sigs)
    BY <1>1, <1>7, <2>1, SignedAgrees
  <2>3. Promise!Refund(op, tx.value)
    BY <1>4, <1>5, <1>9, <2>1, <2>2, Mapping DEF Promise!Refund, Promise!Settle
  <2> QED
    BY <1>5, <1>6, <2>3 DEF Promise!Next
<1> QED
  BY <1>8, <1>9

LEMMA ReorgReverts ==
    ASSUME PromiseInv, NEW a \in accepted, Reorg(a)
    PROVE  Promise!Next /\ OneEach(funded', accepted')
<1>1. /\ accepted' = accepted \ {a}
      /\ funded' = funded /\ terms' = terms /\ daa' = daa /\ sigs' = sigs
  BY DEF Reorg
<1>2. a.tx.outpoint \in Outpoints
  BY DEF PromiseInv, OneEach, SettlementInv, TypeOK
<1> DEFINE op == a.tx.outpoint
<1>3. /\ OneEach(funded', accepted')
      /\ Settlement(funded, accepted, terms.seller)[op] \in {"released", "refunded"}
      /\ Settlement(funded', accepted', terms'.seller) =
           [Settlement(funded, accepted, terms.seller) EXCEPT ![op] = "locked"]
      /\ PaidOuts(accepted') = [PaidOuts(accepted) EXCEPT ![op] = 0]
  BY <1>1, <1>2, OneLess DEF PromiseInv
<1>4. Promise!Revert(op)
  BY <1>1, <1>3, Mapping DEF Promise!Revert
<1> QED
  BY <1>2, <1>3, <1>4 DEF Promise!Next

LEMMA SigningAgrees ==
    ASSUME TypeOK, NEW key \in Keys, NEW tx \in KnownTxs,
           SignPlanned(key, tx) \/ \E hash \in HashTypes : SignUnprompted(key, tx, hash)
    PROVE  [Promise!Next]_Promise!vars
<1>1. UNCHANGED <<terms, daa, funded, accepted>>
  BY DEF SignPlanned, SignUnprompted, chainVars
<1>2. PICK hash \in HashTypes : sigs' = sigs \cup {[key |-> key, tx |-> tx, hash |-> hash]}
  BY DEF SignPlanned, SignUnprompted, HashTypes
<1>3. tx.script \in Keys \cup {Elsewhere}
  BY HandBuiltAssumption DEF KnownTxs, Plan, TypeOK, Tx
<1>4. CASE hash = "all" /\ tx.outpoint \in Outpoints
  <2>1. Agreed(sigs') = Agreed(sigs) \cup {<<key, tx.outpoint, tx.script>>}
    BY <1>2, <1>4, OneSigned
  <2>2. Promise!Agree(key, tx.outpoint, tx.script)
    BY <1>1, <2>1, Mapping DEF Promise!Agree
  <2> QED
    BY <1>3, <1>4, <2>2 DEF Promise!Next, Promise!Recipients
<1>5. CASE ~(hash = "all" /\ tx.outpoint \in Outpoints)
  <2>1. Agreed(sigs') = Agreed(sigs)
    BY <1>2, <1>5, OneSigned
  <2> QED
    BY <1>1, <2>1, Mapping DEF Promise!vars
<1> QED
  BY <1>4, <1>5

LEMMA StepKeepsPromise ==
    ASSUME PromiseInv, [Next]_vars
    PROVE  [Promise!Next]_Promise!vars /\ OneEach(funded', accepted')
<1> USE DEF chainVars, nodeVars, obsVars
<1>1. ASSUME UNCHANGED <<terms, daa, funded, accepted, sigs>>
      PROVE  [Promise!Next]_Promise!vars /\ OneEach(funded', accepted')
  BY <1>1, Stutters DEF PromiseInv
<1>2. CASE Tick
  <2>1. funded' = funded /\ accepted' = accepted
    BY <1>2 DEF Tick
  <2> QED
    BY <1>2, <2>1, TickAdvances DEF PromiseInv
<1>3. ASSUME NEW op \in Outpoints, Fund(op) \/ AcceptSpend(op)
      PROVE  Promise!Next /\ OneEach(funded', accepted')
  BY <1>3, FundLocks, AcceptanceSettles
<1>4. ASSUME NEW a \in accepted, Reorg(a) PROVE Promise!Next /\ OneEach(funded', accepted')
  BY <1>4, ReorgReverts
<1>5. CASE Connection
  BY <1>1, <1>5 DEF Connection, SwitchNode, Reconnect
<1>6. CASE Observe
  BY <1>1, <1>6 DEF Observe, ObserveServerInfo, ObserveUtxos, ObserveFeeEstimate, ObserveRecheck, ObserveFails
<1>7. CASE PlanSpend
  BY <1>1, <1>7 DEF PlanSpend, PlanObserved, PlanOffline
<1>8. ASSUME NEW key \in Keys, NEW tx \in KnownTxs,
             SignPlanned(key, tx) \/ \E hash \in HashTypes : SignUnprompted(key, tx, hash)
      PROVE  [Promise!Next]_Promise!vars /\ OneEach(funded', accepted')
  <2>1. funded' = funded /\ accepted' = accepted
    BY <1>8 DEF SignPlanned, SignUnprompted
  <2> QED
    BY <1>8, <2>1, SigningAgrees DEF PromiseInv, SettlementInv
<1>9. CASE UNCHANGED vars
  BY <1>1, <1>9 DEF vars
<1> QED
  BY <1>2, <1>3, <1>4, <1>5, <1>6, <1>7, <1>8, <1>9 DEF Next, Chain, Sign

LEMMA InitPromises == Init => Promise!Init /\ OneEach(funded, accepted)
<1> SUFFICES ASSUME Init PROVE Promise!Init /\ OneEach(funded, accepted)
  OBVIOUS
<1>1. funded = {} /\ accepted = {} /\ sigs = {} /\ daa = 0 /\ TermsAccepted(terms)
  BY DEF Init
<1>2. OneEach(funded, accepted)
  BY <1>1 DEF OneEach
<1>3. /\ Settlement(funded, accepted, terms.seller) = [op \in Outpoints |-> "unfunded"]
      /\ PaidOuts(accepted) = [op \in Outpoints |-> 0]
      /\ Agreed(sigs) = {}
  BY <1>1, <1>2, UnspentOutcome DEF Settlement, PaidOuts, Agreed, SpentIn
<1>4. terms.buyer \in Keys /\ terms.seller \in Keys \ {terms.buyer}
  BY <1>1 DEF TermsAccepted, EscrowTerms
<1> QED
  BY <1>1, <1>2, <1>3, <1>4, Mapping DEF Promise!Init

\* Whatever the tool plans, the wallets sign, anybody submits and the DAG reverses: the
\* escrow as built keeps the abstract promise.
THEOREM PromiseKeptHolds == Spec => PromiseKept
<1>1. Init => Promise!Init /\ OneEach(funded, accepted)
  BY InitPromises
<1>2. SettlementInv /\ OneEach(funded, accepted) /\ [Next]_vars =>
         [Promise!Next]_Promise!vars /\ OneEach(funded, accepted)'
  BY StepKeepsPromise DEF PromiseInv, OneEach
<1> QED
  BY <1>1, <1>2, SettlementInductive, PTL DEF Spec, PromiseKept, Promise!Spec

=============================================================================
