------------------------- MODULE TestnetHarnessProofs -------------------------
(***************************************************************************)
(* Machine-checked proofs about TestnetHarness, for any number of runs,    *)
(* coins and amounts, any depth, any number of polls, and without a bound  *)
(* on time, faults or changes of network other than that it is a number.   *)
(***************************************************************************)
EXTENDS TestnetHarness, Foundations

USE AmountAssumption, ScoreAssumption, BoundAssumption

-----------------------------------------------------------------------------
(* Types.                                                                  *)

LEMMA UtxoTyped ==
    ASSUME TypeOK
    PROVE  /\ Utxo \subseteq Outpoints /\ WalletUtxo \subseteq Outpoints
           /\ OnChain \subseteq TxIds
           /\ {Coin(c) : c \in Foreign} \subseteq Outpoints
<1>1. OnChain \subseteq TxIds
  BY DEF OnChain, TypeOK
<1>2. Created(OnChain) \subseteq Outpoints
  BY <1>1 DEF Created, Output, Outpoints
<1>3. \A c \in Coins \cup Foreign : Coin(c) \in Outpoints
  BY DEF Coin, Output, Outpoints
<1> QED
  BY <1>1, <1>2, <1>3 DEF Utxo, WalletUtxo

\* What is worked out from rows is made of rows.
LEMMA DraftsTyped ==
    ASSUME NEW inputs, NEW rest, NEW d \in Drafts(inputs, rest)
    PROVE  d.inputs = inputs /\ d.change \in Nat /\ d = [inputs |-> d.inputs, change |-> d.change]
BY DEF Drafts

LEMMA LockDraftsTyped ==
    ASSUME NEW rows, NEW lock \in LockDrafts(rows)
    PROVE  /\ lock.inputs \subseteq rows /\ lock.change \in Nat
           /\ lock = [inputs |-> lock.inputs, change |-> lock.change]
<1> DEFINE value == [op \in rows |-> Amount(op)]
<1>1. PICK T \in SelectFunding(value, rows, LockAmount + FundingMargin) :
         lock \in Drafts(T, Total(value, T) - LockAmount)
  BY DEF LockDrafts
<1>2. T \subseteq rows
  BY DEF SelectFunding
<1> QED
  BY <1>1, <1>2, DraftsTyped

LEMMA SpendDraftsTyped ==
    ASSUME NEW r, NEW rows, NEW lock, NEW spend \in SpendDrafts(r, rows, lock)
    PROVE  /\ spend.inputs \subseteq FeeFunding(r, rows, lock) \cup {LockedOutput(r)}
           /\ spend.change \in Nat
           /\ spend = [inputs |-> spend.inputs, change |-> spend.change]
<1> DEFINE funding == FeeFunding(r, rows, lock)
           value == [op \in funding |-> IF op.tx = <<r, "lock">> THEN lock.change ELSE Amount(op)]
<1>1. PICK T \in SelectFunding(value, funding, FundingMargin) :
         spend \in Drafts(T \cup {LockedOutput(r)}, Total(value, T))
  BY DEF SpendDrafts
<1>2. T \subseteq funding
  BY DEF SelectFunding
<1>3. spend.inputs = T \cup {LockedOutput(r)}
  BY <1>1, DraftsTyped
<1>4. spend.change \in Nat /\ spend = [inputs |-> spend.inputs, change |-> spend.change]
  BY <1>1, DraftsTyped
<1> HIDE DEF value
<1> QED
  BY <1>2, <1>3, <1>4

LEMMA BuiltTyped ==
    ASSUME NEW r \in Runs, NEW rows \in SUBSET Outpoints, NEW b \in Built(r, rows)
    PROVE  b \in [Kinds -> Draft]
<1>1. PICK lock \in LockDrafts(rows) : \E spend \in SpendDrafts(r, rows, lock) : b = [lock |-> lock, spend |-> spend]
  BY DEF Built
<1>2. PICK spend \in SpendDrafts(r, rows, lock) : b = [lock |-> lock, spend |-> spend]
  BY <1>1
<1>3. lock \in Draft
  BY LockDraftsTyped DEF Draft
<1>4. Output(<<r, "lock">>, 1) \in Outpoints /\ LockedOutput(r) \in Outpoints
  BY DEF Outpoints, Output, LockedOutput, TxIds, Kinds
<1>5. FeeFunding(r, rows, lock) \subseteq Outpoints
  BY <1>4 DEF FeeFunding
<1>6. spend \in Draft
  BY <1>4, <1>5, SpendDraftsTyped DEF Draft
<1> QED
  BY <1>2, <1>3, <1>6 DEF Kinds

LEMMA TypeInit == Init => TypeOK
BY DEF Init, TypeOK, Steps, Ends, Kinds, Draft

LEMMA NodeTypes == TypeOK /\ NodeStep => TypeOK'
<1> SUFFICES ASSUME TypeOK, NodeStep PROVE TypeOK'
  OBVIOUS
<1> USE DEF runVars, past, Fault
<1>1. CASE Tick
  BY <1>1 DEF Tick, TypeOK
<1>2. ASSUME NEW tx \in TxIds, AcceptTx(tx) PROVE TypeOK'
  BY <1>2 DEF AcceptTx, TypeOK
<1>3. ASSUME NEW tx \in TxIds, Evict(tx) PROVE TypeOK'
  BY <1>3 DEF Evict, TypeOK
<1>4. ASSUME NEW tx \in TxIds, Reorg(tx) PROVE TypeOK'
  <2>1. Dependents(tx, OnChain) \subseteq TxIds
    BY UtxoTyped DEF Dependents
  <2> QED
    BY <1>4, <2>1 DEF Reorg, TypeOK
<1>5. ASSUME NEW op \in WalletUtxo, SpendElsewhere(op) PROVE TypeOK'
  <2>1. op \in Outpoints
    BY UtxoTyped
  <2> QED
    BY <1>5, <2>1 DEF SpendElsewhere, TypeOK
<1>6. CASE MoveConnection
  BY <1>6 DEF MoveConnection, TypeOK
<1> QED
  BY <1>1, <1>2, <1>3, <1>4, <1>5, <1>6 DEF NodeStep

\* Where the runs are, and how they ended.
ControlOK == /\ pc \in [Runs -> [tx : Kinds \cup {"none"}, step : Steps]]
             /\ outcome \in [Runs -> Ends]

LEMMA ControlTyped ==
    ASSUME TypeOK, NEW r \in Runs
    PROVE  /\ pc[r].tx \in Kinds \cup {"none"} /\ pc[r].step \in Steps
           /\ \A tx \in Kinds \cup {"none"}, step \in Steps :
                Goto(r, tx, step) /\ UNCHANGED outcome => ControlOK'
           /\ \A step \in Steps : Continue(r, step) /\ UNCHANGED outcome => ControlOK'
           /\ \A how \in Ends : End(r, how) => ControlOK'
           /\ \A error \in Ends : Fail(r, error) => ControlOK'
<1>1. pc[r].tx \in Kinds \cup {"none"} /\ pc[r].step \in Steps
  BY DEF TypeOK
<1>2. ASSUME NEW tx \in Kinds \cup {"none"}, NEW step \in Steps, Goto(r, tx, step)
      PROVE  pc' \in [Runs -> [tx : Kinds \cup {"none"}, step : Steps]]
  BY <1>2 DEF TypeOK, Goto
<1>3. ASSUME NEW how \in Ends, End(r, how) PROVE ControlOK'
  <2>1. "ended" \in Steps
    BY DEF Steps
  <2> QED
    BY <1>1, <1>2, <1>3, <2>1 DEF End, TypeOK, ControlOK
<1>4. ASSUME NEW error \in Ends, Fail(r, error) PROVE ControlOK'
  BY <1>3, <1>4 DEF Fail, Ends
<1>5. ASSUME NEW step \in Steps, Continue(r, step) PROVE pc' \in [Runs -> [tx : Kinds \cup {"none"}, step : Steps]]
  BY <1>1, <1>2, <1>5 DEF Continue
<1>6. UNCHANGED outcome => outcome' \in [Runs -> Ends]
  BY DEF TypeOK
<1> QED
  BY <1>1, <1>2, <1>3, <1>4, <1>5, <1>6 DEF ControlOK

\* A run that has come to a submission is busy with a transaction, and one that has
\* begun a poll has attempts left.
Placed(r) == /\ pc[r].step \in {"submit", "mempool", "info", "target", "rows"} => pc[r].tx # "none"
             /\ pc[r].step \in {"target", "rows"} => attempts[r] > 0

PlaceInv == \A r \in Runs : Placed(r)

LEMMA RunTypes ==
    ASSUME TypeOK, PlaceInv, NEW r \in Runs, RunStep(r) \/ RpcFails(r)
    PROVE  TypeOK'
<1> USE DEF nodeVars, past, Fault
<1>1. /\ "assert" \in Steps /\ "fetch" \in Steps /\ "submit" \in Steps /\ "mempool" \in Steps
      /\ "info" \in Steps /\ "target" \in Steps /\ "rows" \in Steps
      /\ "Gated" \in Ends /\ "Pass" \in Ends /\ "Rpc" \in Ends /\ "NetworkMismatch" \in Ends
      /\ "InsufficientFunds" \in Ends /\ "Tx" \in Ends
      /\ "lock" \in Kinds /\ "spend" \in Kinds
  BY DEF Steps, Ends, Kinds
<1>2. CASE AssertTarget(r)
  <2>1. ControlOK'
    BY <1>1, <1>2, ControlTyped DEF AssertTarget
  <2> QED
    BY <1>2, <2>1 DEF AssertTarget, TypeOK, ControlOK
<1>3. CASE FetchAndBuild(r)
  <2> DEFINE rows == {op \in IF OnTarget THEN WalletUtxo ELSE {Coin(c) : c \in Foreign} : op.tx \notin Coinbase}
  <2>1. rows \in SUBSET Outpoints
    BY UtxoTyped
  <2>2. built' \in [Runs -> [Kinds -> Draft]]
    <3>1. CASE built' = built
      BY <3>1 DEF TypeOK
    <3>2. ASSUME NEW b \in Built(r, rows), built' = [built EXCEPT ![r] = b]
          PROVE  built' \in [Runs -> [Kinds -> Draft]]
      <4>1. b \in [Kinds -> Draft]
        BY <2>1, BuiltTyped
      <4> QED
        BY <3>2, <4>1 DEF TypeOK
    <3> QED
      BY <1>3, <3>1, <3>2 DEF FetchAndBuild
  <2>3. ControlOK'
    BY <1>1, <1>3, ControlTyped DEF FetchAndBuild
  <2> QED
    BY <1>3, <2>2, <2>3 DEF FetchAndBuild, TypeOK, ControlOK
<1>4. CASE Submit(r)
  <2>1. ControlOK'
    BY <1>1, <1>4, ControlTyped DEF Submit
  <2>2. attempts' \in [Runs -> 0 .. PollAttempts]
    <3>1. attempts' = attempts \/ attempts' = [attempts EXCEPT ![r] = PollAttempts]
      BY <1>4 DEF Submit
    <3>2. attempts \in [Runs -> 0 .. PollAttempts] /\ PollAttempts \in 0 .. PollAttempts
      BY DEF TypeOK
    <3> QED
      BY <3>1, <3>2
  <2>3. mempool' \subseteq TxIds /\ submitted' \subseteq TxIds
    <3>1. <<r, pc[r].tx>> \in TxIds
      BY <1>4, ControlTyped DEF Submit, At, PlaceInv, Placed, TxIds
    <3> QED
      BY <1>4, <3>1 DEF Submit, TypeOK
  <2> QED
    BY <1>4, <2>1, <2>2, <2>3 DEF Submit, TypeOK, ControlOK
<1>5. CASE PollMempool(r)
  <2>1. ControlOK'
    <3>1. UNCHANGED <<pc, outcome>> => ControlOK'
      BY DEF TypeOK, ControlOK
    <3> QED
      BY <1>1, <1>5, <3>1, ControlTyped DEF PollMempool
  <2>2. attempts' \in [Runs -> 0 .. PollAttempts]
    BY <1>5, SMTT(30) DEF PollMempool, TypeOK
  <2> QED
    BY <1>5, <2>1, <2>2 DEF PollMempool, TypeOK, ControlOK
<1>6. CASE LeaveMempool(r)
  <2>1. ControlOK'
    BY <1>1, <1>6, ControlTyped DEF LeaveMempool
  <2>2. attempts' \in [Runs -> 0 .. PollAttempts]
    <3>1. attempts' = attempts \/ attempts' = [attempts EXCEPT ![r] = PollAttempts]
      BY <1>6 DEF LeaveMempool
    <3>2. attempts \in [Runs -> 0 .. PollAttempts] /\ PollAttempts \in 0 .. PollAttempts
      BY DEF TypeOK
    <3> QED
      BY <3>1, <3>2
  <2> QED
    BY <1>6, <2>1, <2>2 DEF LeaveMempool, TypeOK, ControlOK
<1>7. CASE PollInfo(r)
  <2>1. ControlOK'
    BY <1>1, <1>7, ControlTyped DEF PollInfo
  <2>2. seen' \in [Runs -> Nat]
    BY <1>7 DEF PollInfo, TypeOK
  <2> QED
    BY <1>7, <2>1, <2>2 DEF PollInfo, TypeOK, ControlOK
<1>8. CASE PollTarget(r)
  <2>1. ControlOK'
    BY <1>1, <1>8, ControlTyped DEF PollTarget
  <2> QED
    BY <1>8, <2>1 DEF PollTarget, TypeOK, ControlOK
<1>9. CASE PollRows(r)
  <2> DEFINE deep == {score \in ScoresShown(<<r, pc[r].tx>>) : Depth(seen[r], score) >= DepthRequired(pc[r].tx)}
  <2>1. ControlOK'
    BY <1>1, <1>9, ControlTyped DEF PollRows
  <2>2. At(r, "rows") /\ (attempts' = attempts \/ attempts' = [attempts EXCEPT ![r] = @ - 1])
    BY <1>9 DEF PollRows
  <2>3. attempts' \in [Runs -> 0 .. PollAttempts]
    <3>1. attempts \in [Runs -> 0 .. PollAttempts] /\ attempts[r] > 0
      BY <2>2 DEF TypeOK, PlaceInv, Placed, At
    <3>2. attempts[r] - 1 \in 0 .. PollAttempts
      BY <3>1
    <3> QED
      BY <2>2, <3>1, <3>2
  <2>4. observed' \in [Runs -> [Kinds -> Nat \cup {None}]]
    <3>1. deep \subseteq Nat
      BY DEF ScoresShown, TypeOK
    <3>2. ASSUME NEW score \in deep, observed' = [observed EXCEPT ![r][pc[r].tx] = score]
          PROVE  observed' \in [Runs -> [Kinds -> Nat \cup {None}]]
      BY <3>1, <3>2 DEF TypeOK
    <3>3. observed' = observed => observed' \in [Runs -> [Kinds -> Nat \cup {None}]]
      BY DEF TypeOK
    <3> QED
      BY <1>9, <3>2, <3>3 DEF PollRows
  <2> QED
    BY <1>9, <2>1, <2>3, <2>4 DEF PollRows, TypeOK, ControlOK
<1>10. CASE RpcFails(r)
  <2>1. ControlOK'
    BY <1>1, <1>10, ControlTyped DEF RpcFails
  <2>2. mempool' \subseteq TxIds
    <3>1. At(r, "submit") => <<r, pc[r].tx>> \in TxIds
      BY ControlTyped DEF At, PlaceInv, Placed, TxIds
    <3> QED
      BY <1>10, <3>1 DEF RpcFails, TypeOK
  <2> QED
    BY <1>10, <2>1, <2>2 DEF RpcFails, TypeOK, ControlOK
<1> QED
  BY <1>2, <1>3, <1>4, <1>5, <1>6, <1>7, <1>8, <1>9, <1>10 DEF RunStep

\* The two ways a poll of the index goes.
Unseen(r) == /\ pc' = [pc EXCEPT ![r] = [tx |-> pc[r].tx, step |-> "info"]]
             /\ attempts' = [attempts EXCEPT ![r] = attempts[r] - 1]
             /\ UNCHANGED <<observed, outcome>>

Saw(r, score) ==
    LET kind == pc[r].tx
    IN  /\ observed' = [observed EXCEPT ![r] = [observed[r] EXCEPT ![kind] = score]]
        /\ IF kind = "lock"
           THEN pc' = [pc EXCEPT ![r] = [tx |-> "spend", step |-> "assert"]] /\ UNCHANGED outcome
           ELSE /\ pc' = [pc EXCEPT ![r] = [tx |-> kind, step |-> "ended"]]
                /\ outcome' = [outcome EXCEPT ![r] = "Pass"]
        /\ UNCHANGED attempts

LEMMA PollRowsGoes ==
    ASSUME NEW r, PollRows(r)
    PROVE  /\ pc[r].step = "rows"
           /\ UNCHANGED <<seen, built, nodeVars, broadcast, submitted, past>>
           /\ \/ Unseen(r)
              \/ \E score \in ScoresShown(<<r, pc[r].tx>>) :
                    Depth(seen[r], score) >= DepthRequired(pc[r].tx) /\ Saw(r, score)
BY DEF PollRows, Unseen, Saw, Goto, Continue, End, At

\* A step of one run leaves what belongs to the others.
LEMMA OthersKeep ==
    ASSUME TypeOK, NEW r \in Runs, RunStep(r) \/ RpcFails(r), NEW q \in Runs \ {r}
    PROVE  /\ pc'[q] = pc[q] /\ outcome'[q] = outcome[q] /\ attempts'[q] = attempts[q]
           /\ seen'[q] = seen[q] /\ built'[q] = built[q] /\ observed'[q] = observed[q]
<1> USE DEF Goto, Continue, End, Fail, TypeOK
<1>1. CASE AssertTarget(r) BY <1>1 DEF AssertTarget
<1>2. CASE FetchAndBuild(r)
  <2>1. built' = built \/ \E b : built' = [built EXCEPT ![r] = b]
    BY <1>2 DEF FetchAndBuild
  <2>2. built'[q] = built[q]
    BY <2>1
  <2> QED
    BY <1>2, <2>2 DEF FetchAndBuild
<1>3. CASE Submit(r) BY <1>3 DEF Submit
<1>4. CASE PollMempool(r) BY <1>4 DEF PollMempool
<1>5. CASE LeaveMempool(r) BY <1>5 DEF LeaveMempool
<1>6. CASE PollInfo(r) BY <1>6 DEF PollInfo
<1>7. CASE PollTarget(r) BY <1>7 DEF PollTarget
<1>8. CASE PollRows(r)
  <2>1. CASE Unseen(r)
    BY <1>8, <2>1, PollRowsGoes DEF Unseen
  <2>2. ASSUME NEW score, Saw(r, score)
        PROVE  /\ pc'[q] = pc[q] /\ outcome'[q] = outcome[q] /\ attempts'[q] = attempts[q]
               /\ observed'[q] = observed[q]
    BY <2>2 DEF Saw
  <2> QED
    BY <1>8, <2>1, <2>2, PollRowsGoes
<1>9. CASE RpcFails(r) BY <1>9 DEF RpcFails
<1> QED
  BY <1>1, <1>2, <1>3, <1>4, <1>5, <1>6, <1>7, <1>8, <1>9 DEF RunStep

LEMMA PlaceInvStep ==
    ASSUME TypeOK, PlaceInv, NEW r \in Runs, RunStep(r) \/ RpcFails(r)
    PROVE  PlaceInv'
<1> USE DEF Placed
<1>1. ASSUME NEW q \in Runs \ {r} PROVE pc'[q] = pc[q] /\ attempts'[q] = attempts[q]
  BY OthersKeep
<1>2. Placed(r)
  BY DEF PlaceInv
<1>3. ASSUME AssertTarget(r) PROVE Placed(r)'
  BY <1>3 DEF Goto, Continue, End, Fail, TypeOK, AssertTarget
<1>4. ASSUME FetchAndBuild(r) PROVE Placed(r)'
  BY <1>4 DEF Goto, Continue, End, Fail, TypeOK, FetchAndBuild
<1>5. ASSUME Submit(r) PROVE Placed(r)'
  BY <1>2, <1>5 DEF Goto, Continue, End, Fail, TypeOK, Submit, At
<1>6. ASSUME PollMempool(r) PROVE Placed(r)'
  BY <1>2, <1>6 DEF Goto, Continue, End, Fail, TypeOK, PollMempool, At
<1>7. ASSUME LeaveMempool(r) PROVE Placed(r)'
  BY <1>2, <1>7 DEF Goto, Continue, End, Fail, TypeOK, LeaveMempool, At
<1>8. ASSUME PollInfo(r) PROVE Placed(r)'
  <2>1. attempts[r] \in 0 .. PollAttempts
    BY DEF TypeOK
  <2> QED
    BY <1>2, <1>8, <2>1 DEF Goto, Continue, End, Fail, TypeOK, PollInfo, At
<1>9. ASSUME PollTarget(r) PROVE Placed(r)'
  BY <1>2, <1>9 DEF Goto, Continue, End, Fail, TypeOK, PollTarget, At
<1>10. ASSUME PollRows(r) PROVE Placed(r)'
  BY <1>2, <1>10 DEF Goto, Continue, End, Fail, TypeOK, PollRows, At
<1>11. ASSUME RpcFails(r) PROVE Placed(r)'
  BY <1>11 DEF Goto, Continue, End, Fail, TypeOK, RpcFails
<1>12. Placed(r)'
  BY <1>3, <1>4, <1>5, <1>6, <1>7, <1>8, <1>9, <1>10, <1>11 DEF RunStep
<1> QED
  BY <1>1, <1>12 DEF PlaceInv

-----------------------------------------------------------------------------
(* What a run has done.                                                    *)

Accepted(r, kind, score) == [tx |-> <<r, kind>>, score |-> score] \in ever

\* A run that has a transaction to send broadcasts; one that has gone on to its spend
\* saw its lock accepted; the spend's waits come after the node has taken it; and an
\* outcome is final.
RunInv(r) ==
    /\ outcome[r] # "running" => pc[r].step = "ended"
    /\ pc[r].tx # "none" => r \in broadcast
    /\ pc[r].tx = "spend" => Accepted(r, "lock", observed[r].lock)
    /\ pc[r].tx = "spend" /\ pc[r].step \in {"mempool", "info", "target", "rows"} => <<r, "spend">> \in submitted
    /\ observed[r].spend # None => Accepted(r, "spend", observed[r].spend)
    /\ outcome[r] = "Pass" => pc[r].tx = "spend" /\ <<r, "spend">> \in submitted
    /\ outcome[r] = "Gated" => r \notin broadcast

\* The node knows of no transaction of a run that does not broadcast.
NodeInv == \A tx \in mempool \cup OnChain : tx[1] \in broadcast

ProofInv == TypeOK /\ PlaceInv /\ NodeInv /\ \A r \in Runs : RunInv(r)

LEMMA ProofInvInit == Init => ProofInv
<1> SUFFICES ASSUME Init PROVE ProofInv
  OBVIOUS
<1>1. PlaceInv /\ NodeInv /\ \A r \in Runs : RunInv(r)
  BY DEF Init, PlaceInv, Placed, NodeInv, OnChain, RunInv, Kinds
<1> QED
  BY <1>1, TypeInit DEF ProofInv

\* The node and other users leave the runs alone and forget no acceptance.
LEMMA NodeProofInv ==
    ASSUME ProofInv, NodeStep
    PROVE  ProofInv'
<1>1. UNCHANGED <<runVars, submitted>> /\ ever \subseteq ever'
  BY DEF NodeStep, Tick, AcceptTx, Evict, Reorg, SpendElsewhere, MoveConnection, past
<1>2. (mempool \cup OnChain)' \subseteq mempool \cup OnChain
  BY DEF NodeStep, Tick, AcceptTx, Evict, Reorg, SpendElsewhere, MoveConnection, OnChain, Dependents
<1>3. NodeInv'
  BY <1>1, <1>2 DEF NodeInv, ProofInv, runVars
<1>4. \A r \in Runs : RunInv(r)'
  BY <1>1 DEF ProofInv, RunInv, runVars, Accepted
<1>5. PlaceInv'
  BY <1>1 DEF ProofInv, PlaceInv, Placed, runVars
<1> QED
  BY <1>3, <1>4, <1>5, NodeTypes DEF ProofInv

LEMMA ActorRunInv ==
    ASSUME ProofInv, NEW r \in Runs, RunStep(r) \/ RpcFails(r)
    PROVE  RunInv(r)'
<1>1. TypeOK /\ Placed(r) /\ RunInv(r)
  BY DEF ProofInv, PlaceInv
<1> USE <1>1 DEF Goto, Continue, End, Fail, Observing, At, TypeOK, Placed, RunInv, Accepted, past
<1>2. CASE AssertTarget(r)
  BY <1>2 DEF AssertTarget
<1>3. CASE FetchAndBuild(r)
  BY <1>3 DEF FetchAndBuild
<1>4. CASE Submit(r)
  BY <1>4 DEF Submit
<1>5. CASE PollMempool(r)
  BY <1>5 DEF PollMempool
<1>6. CASE LeaveMempool(r)
  BY <1>6 DEF LeaveMempool
<1>7. CASE PollInfo(r)
  BY <1>7 DEF PollInfo
<1>8. CASE PollTarget(r)
  BY <1>8 DEF PollTarget
<1>9. CASE PollRows(r)
  <2> DEFINE kind == pc[r].tx
  <2>1. /\ pc[r].step = "rows" /\ kind \in Kinds /\ kind # "none"
        /\ UNCHANGED <<ever, submitted, broadcast>>
    BY <1>9, PollRowsGoes DEF Kinds
  <2>2. CASE Unseen(r)
    BY <2>1, <2>2 DEF Unseen
  <2>3. ASSUME NEW score \in ScoresShown(<<r, kind>>), Saw(r, score)
        PROVE  RunInv(r)'
    <3>1. Accepted(r, kind, score)
      <4>1. PICK a \in chain : a.tx = <<r, kind>> /\ a.score = score
        BY DEF ScoresShown
      <4>2. a \in ever /\ a = [tx |-> a.tx, score |-> a.score]
        BY <1>1
      <4> QED
        BY <4>1, <4>2
    <3>2. /\ observed'[r][kind] = score
          /\ \A k \in Kinds \ {kind} : observed'[r][k] = observed[r][k]
      BY <2>1, <2>3, <1>1 DEF Saw
    <3>3. CASE kind = "lock"
      <4>1. pc'[r] = [tx |-> "spend", step |-> "assert"] /\ outcome'[r] = outcome[r]
        BY <2>3, <3>3, <1>1 DEF Saw
      <4>2. observed'[r].lock = score /\ observed'[r].spend = observed[r].spend
        BY <3>2, <3>3 DEF Kinds
      <4> QED
        BY <1>1, <2>1, <3>1, <3>3, <4>1, <4>2
    <3>4. CASE kind = "spend"
      <4>1. pc'[r] = [tx |-> "spend", step |-> "ended"] /\ outcome'[r] = "Pass"
        BY <2>3, <3>4, <1>1 DEF Saw
      <4>2. observed'[r].spend = score /\ observed'[r].lock = observed[r].lock
        BY <3>2, <3>4 DEF Kinds
      <4> QED
        BY <1>1, <2>1, <3>1, <3>4, <4>1, <4>2
    <3> QED
      BY <2>1, <3>3, <3>4 DEF Kinds
  <2> QED
    BY <1>9, <2>2, <2>3, PollRowsGoes
<1>10. CASE RpcFails(r)
  BY <1>10 DEF RpcFails
<1> QED
  BY <1>2, <1>3, <1>4, <1>5, <1>6, <1>7, <1>8, <1>9, <1>10 DEF RunStep

\* What every step of a run does to the record of the node.
LEMMA RunHistory ==
    ASSUME NEW r \in Runs, RunStep(r) \/ RpcFails(r)
    PROVE  /\ UNCHANGED <<broadcast, chain, ever, daa, net, taken, moves>>
           /\ submitted \subseteq submitted'
           /\ mempool' = mempool \/ (pc[r].step = "submit" /\ mempool' = mempool \cup {<<r, pc[r].tx>>})
BY DEF RunStep, AssertTarget, FetchAndBuild, Submit, PollMempool, LeaveMempool, PollInfo, PollTarget,
       PollRows, RpcFails, At, nodeVars, past

LEMMA RunProofInv ==
    ASSUME ProofInv, NEW r \in Runs, RunStep(r) \/ RpcFails(r)
    PROVE  ProofInv'
<1>1. TypeOK' /\ PlaceInv'
  BY RunTypes, PlaceInvStep DEF ProofInv
<1>2. NodeInv'
  <2>1. pc[r].step = "submit" => r \in broadcast
    BY DEF ProofInv, PlaceInv, Placed, RunInv
  <2> QED
    BY <2>1, RunHistory DEF ProofInv, NodeInv, OnChain
<1>3. ASSUME NEW q \in Runs PROVE RunInv(q)'
  <2>1. CASE q = r
    BY <2>1, ActorRunInv
  <2>2. CASE q # r
    <3>1. RunInv(q) /\ TypeOK
      BY DEF ProofInv
    <3>2. pc'[q] = pc[q] /\ outcome'[q] = outcome[q] /\ observed'[q] = observed[q]
      BY <2>2, <3>1, OthersKeep
    <3> QED
      BY <3>1, <3>2, RunHistory DEF RunInv, Accepted
  <2> QED
    BY <2>1, <2>2
<1> QED
  BY <1>1, <1>2, <1>3 DEF ProofInv

LEMMA ProofInvStep == ProofInv /\ [Next]_vars => ProofInv'
<1> SUFFICES ASSUME ProofInv, [Next]_vars PROVE ProofInv'
  OBVIOUS
<1>1. CASE NodeStep
  BY <1>1, NodeProofInv
<1>2. ASSUME NEW r \in Runs, RunStep(r) \/ RpcFails(r) PROVE ProofInv'
  BY <1>2, RunProofInv
<1>3. CASE UNCHANGED vars
  BY <1>3 DEF vars, ProofInv, TypeOK, PlaceInv, Placed, NodeInv, OnChain, RunInv, Accepted
<1> QED
  BY <1>1, <1>2, <1>3 DEF Next

LEMMA ProofInvHolds == Spec => []ProofInv
BY ProofInvInit, ProofInvStep, PTL DEF Spec

\* Every value the harness keeps, and every value of the node, is one the code has.
THEOREM TypeOKHolds == Spec => []TypeOK
<1>1. ProofInv => TypeOK
  BY DEF ProofInv
<1> QED
  BY ProofInvHolds, <1>1, PTL

\* Whatever the chain, the connection and the other runs do: a proof that says PASS is
\* true of the chain there has been, and a run that may not broadcast sends nothing.
THEOREM ProofIsTrueHolds == Spec => []ProofIsTrue
<1>1. ProofInv => ProofIsTrue
  BY DEF ProofInv, ProofIsTrue, RunInv, NodeInv, Accepted
<1> QED
  BY ProofInvHolds, <1>1, PTL

-----------------------------------------------------------------------------
(* Waiting for depth.                                                      *)

\* The virtual score a poll has read is at most the present one, unless the connection
\* has been to the other network since and may be there still.
WaitInv ==
    /\ net = "other" => moves >= 1
    /\ \A a \in chain : a.score <= daa
    /\ \A r \in Runs : pc[r].step \in {"target", "rows"} => seen[r] <= daa \/ net = "other" \/ moves >= 2

LEMMA WaitInvStep == ProofInv /\ WaitInv /\ [Next]_vars => WaitInv'
<1> SUFFICES ASSUME ProofInv, WaitInv, [Next]_vars PROVE WaitInv'
  OBVIOUS
<1>1. TypeOK /\ TypeOK' /\ PlaceInv
  BY ProofInvStep DEF ProofInv
<1>2. /\ daa \in Nat /\ moves \in Nat /\ net \in {"target", "other"}
      /\ \A r \in Runs : seen[r] \in Nat
      /\ \A a \in chain : a.score \in Nat
  BY <1>1 DEF TypeOK
<1>3. CASE NodeStep
  <2> USE <1>2 DEF WaitInv, runVars, past
  <2>1. CASE Tick
    BY <2>1 DEF Tick
  <2>2. ASSUME NEW tx \in TxIds, AcceptTx(tx) PROVE WaitInv'
    BY <2>2 DEF AcceptTx
  <2>3. ASSUME NEW tx \in TxIds, Evict(tx) \/ Reorg(tx) PROVE WaitInv'
    BY <2>3 DEF Evict, Reorg
  <2>4. ASSUME NEW op \in WalletUtxo, SpendElsewhere(op) PROVE WaitInv'
    BY <2>4 DEF SpendElsewhere
  <2>5. CASE MoveConnection
    BY <2>5 DEF MoveConnection
  <2> QED
    BY <1>3, <2>1, <2>2, <2>3, <2>4, <2>5 DEF NodeStep
<1>4. ASSUME NEW r \in Runs, RunStep(r) \/ RpcFails(r) PROVE WaitInv'
  <2>1. UNCHANGED <<chain, daa, net, moves>>
    BY <1>4, RunHistory
  <2>2. ASSUME NEW q \in Runs, pc'[q].step \in {"target", "rows"}
        PROVE  (seen[q] <= daa \/ net = "other" \/ moves >= 2)'
    <3>1. CASE q # r
      BY <1>1, <1>4, <2>1, <2>2, <3>1, OthersKeep DEF WaitInv
    <3>2. CASE q = r /\ PollInfo(r)
      <4>1. seen'[r] = IF OnTarget THEN daa ELSE OtherDaa
        BY <1>1, <2>2, <3>2 DEF PollInfo, Fail, End, Goto, TypeOK
      <4> QED
        BY <1>2, <2>1, <3>2, <4>1 DEF OnTarget
    <3>3. CASE q = r /\ PollTarget(r)
      BY <1>1, <2>1, <2>2, <3>3 DEF WaitInv, PollTarget, At
    <3>4. CASE q = r /\ ~PollInfo(r) /\ ~PollTarget(r)
      <4> USE <1>1, <2>2, <3>4 DEF Goto, Continue, End, Fail, TypeOK
      <4>1. CASE AssertTarget(r) BY <4>1 DEF AssertTarget
      <4>2. CASE FetchAndBuild(r) BY <4>2 DEF FetchAndBuild
      <4>3. CASE Submit(r) BY <4>3 DEF Submit
      <4>4. CASE PollMempool(r) BY <4>4 DEF PollMempool, At
      <4>5. CASE LeaveMempool(r) BY <4>5 DEF LeaveMempool
      <4>6. CASE PollRows(r)
        <5>1. ~Unseen(r)
          BY DEF Unseen
        <5>2. ASSUME NEW score, Saw(r, score) PROVE FALSE
          BY <5>2 DEF Saw
        <5> QED
          BY <4>6, <5>1, <5>2, PollRowsGoes
      <4>7. CASE RpcFails(r) BY <4>7 DEF RpcFails
      <4> QED
        BY <1>4, <4>1, <4>2, <4>3, <4>4, <4>5, <4>6, <4>7 DEF RunStep
    <3> QED
      BY <3>1, <3>2, <3>3, <3>4
  <2> QED
    BY <2>1, <2>2 DEF WaitInv
<1>5. CASE UNCHANGED vars
  BY <1>5 DEF vars, WaitInv
<1> QED
  BY <1>3, <1>4, <1>5 DEF Next

LEMMA WaitInvHolds == Spec => [](ProofInv /\ WaitInv)
<1>1. Init => WaitInv
  BY DEF Init, WaitInv
<1> QED
  BY <1>1, ProofInvInit, ProofInvStep, WaitInvStep, PTL DEF Spec

\* wait_for_indexed_output: whatever the chain, the connection, the other runs and the
\* limits on polls, a run goes on to its spend only when the lock's output is as deep as
\* the contract declares, or when the connection has been away and back.
THEOREM WaitsForFinalityHolds == Spec => WaitsForFinality
<1>1. ASSUME ProofInv, WaitInv, [Next]_vars, NEW r \in Runs, pc[r].tx = "lock", pc'[r].tx = "spend"
      PROVE  \/ moves >= 2
             \/ \E a \in chain : a.tx = <<r, "lock">> /\ daa - a.score + 1 >= FinalityDepth
  <2>1. TypeOK
    BY <1>1 DEF ProofInv
  <2>2. PollRows(r)
    <3>1. ~(NodeStep \/ UNCHANGED vars)
      BY <1>1 DEF NodeStep, Tick, AcceptTx, Evict, Reorg, SpendElsewhere, MoveConnection, runVars, vars
    <3>2. RunStep(r) \/ RpcFails(r)
      BY <1>1, <2>1, <3>1, OthersKeep DEF Next
    <3> USE <1>1, <2>1 DEF Goto, Continue, End, Fail, TypeOK
    <3>3. ~AssertTarget(r) BY DEF AssertTarget
    <3>4. ~FetchAndBuild(r) BY DEF FetchAndBuild
    <3>5. ~Submit(r) BY DEF Submit
    <3>6. ~PollMempool(r) BY DEF PollMempool
    <3>7. ~LeaveMempool(r) BY DEF LeaveMempool
    <3>8. ~PollInfo(r) BY DEF PollInfo
    <3>9. ~PollTarget(r) BY DEF PollTarget
    <3>10. ~RpcFails(r) BY DEF RpcFails
    <3> QED
      BY <3>2, <3>3, <3>4, <3>5, <3>6, <3>7, <3>8, <3>9, <3>10 DEF RunStep
  <2>3. ~Unseen(r)
    BY <1>1, <2>1 DEF Unseen, TypeOK
  <2>4. PICK score \in ScoresShown(<<r, "lock">>) : Depth(seen[r], score) >= DepthRequired("lock")
    BY <1>1, <2>2, <2>3, PollRowsGoes
  <2>5. PICK a \in chain : a.tx = <<r, "lock">> /\ a.score = score /\ net = "target"
    BY <2>4 DEF ScoresShown, OnTarget
  <2>6. seen[r] <= daa \/ moves >= 2
    BY <1>1, <2>2, <2>5, PollRowsGoes DEF WaitInv
  <2>7. a.score <= daa /\ a.score \in Nat /\ daa \in Nat /\ seen[r] \in Nat
    BY <1>1, <2>1 DEF WaitInv, TypeOK
  <2> QED
    BY <2>4, <2>5, <2>6, <2>7 DEF Depth, DepthRequired
<1>2. ProofInv /\ WaitInv /\ [Next]_vars =>
        [\A r \in Runs :
            pc[r].tx = "lock" /\ pc'[r].tx = "spend" =>
               \/ moves >= 2
               \/ \E a \in chain :
                     /\ a.tx = <<r, "lock">>
                     /\ daa - a.score + 1 >= FinalityDepth]_vars
  BY <1>1
<1> QED
  BY <1>2, WaitInvHolds, PTL DEF Spec, WaitsForFinality

-----------------------------------------------------------------------------
(* A run that nothing disturbs.                                            *)

Alone(r) == moves = 0 /\ faults = 0 /\ \A other \in Runs \ {r} : <<other, "lock">> \notin submitted

\* A run fetches before it has a transaction, and sends its lock before its spend.
SentInv ==
    \A r \in Runs :
        /\ pc[r].step = "fetch" => pc[r].tx = "none"
        /\ pc[r].tx = "lock" /\ pc[r].step \in {"mempool", "info", "target", "rows"} => <<r, "lock">> \in submitted
        /\ pc[r].tx = "spend" => <<r, "lock">> \in submitted
        /\ <<r, "spend">> \in submitted => pc[r].tx = "spend"

WalletCoins == {Coin(c) : c \in Coins}

\* What a run built spends coins of the wallet, the spend other ones than the lock, and
\* the lock's outputs.
Planned(r) ==
    /\ Inputs(<<r, "lock">>) \subseteq WalletCoins
    /\ Inputs(<<r, "spend">>) \subseteq (WalletCoins \ Inputs(<<r, "lock">>)) \cup Created({<<r, "lock">>})

\* As long as a run is alone, the node has what it sent and nothing else, and the run
\* has not failed.
Clean(r) ==
    /\ taken = {}
    /\ mempool \cup OnChain \subseteq submitted
    /\ submitted \subseteq {<<r, "lock">>, <<r, "spend">>}
    /\ outcome[r] \notin {"Rpc", "NetworkMismatch"}
    /\ pc[r].tx = "none" => submitted = {}
    /\ pc[r].tx = "lock" /\ pc[r].step \in {"assert", "submit"} => submitted = {}
    /\ pc[r].tx = "spend" => <<r, "lock">> \in OnChain
    /\ pc[r].tx = "spend" /\ pc[r].step \in {"assert", "submit"} => <<r, "spend">> \notin submitted
    /\ pc[r].tx # "none" => Planned(r)

CleanInv == \A r \in Runs : Alone(r) => Clean(r)

\* The node adds to a run's record only what the run submits.
LEMMA SubmittedBySubmit ==
    ASSUME NEW r \in Runs, RunStep(r) \/ RpcFails(r)
    PROVE  \/ submitted' = submitted /\ (mempool' = mempool \/ faults' = faults + 1)
           \/ /\ Submit(r) /\ pc[r].step = "submit"
              /\ submitted' = submitted \cup {<<r, pc[r].tx>>} /\ mempool' = mempool \cup {<<r, pc[r].tx>>}
              /\ Continue(r, "mempool") /\ UNCHANGED outcome
BY DEF RunStep, AssertTarget, FetchAndBuild, Submit, PollMempool, LeaveMempool, PollInfo, PollTarget,
       PollRows, RpcFails, At, nodeVars, Fault

LEMMA SentInvStep ==
    ASSUME ProofInv, SentInv, [Next]_vars
    PROVE  SentInv'
<1> DEFINE Sent(r) ==
        /\ pc[r].step = "fetch" => pc[r].tx = "none"
        /\ pc[r].tx = "lock" /\ pc[r].step \in {"mempool", "info", "target", "rows"} => <<r, "lock">> \in submitted
        /\ pc[r].tx = "spend" => <<r, "lock">> \in submitted
        /\ <<r, "spend">> \in submitted => pc[r].tx = "spend"
<1>1. TypeOK /\ \A r \in Runs : Sent(r) /\ Placed(r)
  BY DEF ProofInv, SentInv, PlaceInv
<1>2. CASE NodeStep \/ UNCHANGED vars
  <2>1. UNCHANGED <<pc, submitted>>
    BY <1>2 DEF NodeStep, Tick, AcceptTx, Evict, Reorg, SpendElsewhere, MoveConnection, runVars, vars
  <2> QED
    BY <2>1 DEF SentInv
<1>3. ASSUME NEW r \in Runs, RunStep(r) \/ RpcFails(r), NEW q \in Runs PROVE Sent(q)'
  <2>1. CASE q # r
    <3>1. pc'[q] = pc[q]
      BY <1>1, <1>3, <2>1, OthersKeep
    <3>2. submitted \subseteq submitted' /\ (<<q, "spend">> \in submitted' => <<q, "spend">> \in submitted)
      BY <1>3, <2>1, SubmittedBySubmit
    <3> QED
      BY <1>1, <3>1, <3>2
  <2>2. Sent(r)'
    <3>1. Sent(r) /\ Placed(r) /\ TypeOK
      BY <1>1
    <3> USE <3>1 DEF Placed, At
    <3>2. CASE Submit(r)
      BY <3>2 DEF Submit, Goto, Continue, End, Fail, TypeOK
    <3>3. CASE PollRows(r)
      <4>1. pc[r].step = "rows" /\ submitted' = submitted /\ pc[r].tx \in Kinds
        BY <3>3, PollRowsGoes DEF TypeOK
      <4>2. CASE Unseen(r)
        BY <4>1, <4>2 DEF Unseen, TypeOK
      <4>3. ASSUME NEW score, Saw(r, score) PROVE Sent(r)'
        <5>1. \/ pc[r].tx = "lock" /\ pc'[r] = [tx |-> "spend", step |-> "assert"]
              \/ pc[r].tx = "spend" /\ pc'[r] = [tx |-> "spend", step |-> "ended"]
          BY <4>1, <4>3 DEF Saw, TypeOK, Kinds
        <5> QED
          BY <4>1, <5>1
      <4> QED
        BY <3>3, <4>2, <4>3, PollRowsGoes
    <3>4. CASE AssertTarget(r)
      BY <3>4 DEF AssertTarget, Goto, Continue, End, Fail, TypeOK
    <3>5. CASE FetchAndBuild(r)
      BY <3>5 DEF FetchAndBuild, Goto, Continue, End, Fail, TypeOK
    <3>6. CASE PollMempool(r)
      BY <3>6 DEF PollMempool, Goto, Continue, End, Fail, TypeOK
    <3>7. CASE LeaveMempool(r)
      BY <3>7 DEF LeaveMempool, Goto, Continue, End, Fail, TypeOK
    <3>8. CASE PollInfo(r)
      BY <3>8 DEF PollInfo, Goto, Continue, End, Fail, TypeOK
    <3>9. CASE PollTarget(r)
      BY <3>9 DEF PollTarget, Goto, Continue, End, Fail, TypeOK
    <3>10. CASE RpcFails(r)
      BY <3>10 DEF RpcFails, Goto, Continue, End, Fail, TypeOK
    <3> QED
      BY <1>3, <3>2, <3>3, <3>4, <3>5, <3>6, <3>7, <3>8, <3>9, <3>10 DEF RunStep
  <2> QED
    BY <2>1, <2>2
<1> QED
  BY <1>2, <1>3 DEF Next, SentInv

\* A contract's output is no coin the wallet started with.
LEMMA OwnOutputs ==
    ASSUME NEW r \in Runs, NEW i \in {0, 1}
    PROVE  Output(<<r, "lock">>, i) \notin WalletCoins
<1>1. <<r, "lock">> \notin Coins
  BY CoinAssumption
<1> QED
  BY <1>1 DEF Output, Coin, WalletCoins

\* What a run alone with the node has built, the node takes.
LEMMA PlannedIsTaken ==
    ASSUME NEW r \in Runs, Clean(r), pc[r].step = "submit", pc[r].tx \in Kinds
    PROVE  Takes(<<r, pc[r].tx>>)
<1> DEFINE lock == <<r, "lock">>
           spend == <<r, "spend">>
<1>1. CASE pc[r].tx = "lock"
  <2>1. mempool = {} /\ OnChain = {} /\ taken = {}
    BY <1>1 DEF Clean
  <2>2. Utxo = WalletCoins
    BY <2>1 DEF Utxo, WalletCoins, Created, Consumed
  <2>3. Consumed(mempool) = {}
    BY <2>1 DEF Consumed
  <2>4. Inputs(lock) \subseteq WalletCoins
    BY <1>1 DEF Clean, Planned
  <2> QED
    BY <1>1, <2>1, <2>2, <2>3, <2>4 DEF Takes
<1>2. CASE pc[r].tx = "spend"
  <2>1. OnChain = {lock} /\ mempool \subseteq {lock} /\ taken = {} /\ Planned(r)
    BY <1>2 DEF Clean
  <2> HIDE DEF lock, spend
  <2>2. Consumed(OnChain) = Inputs(lock) /\ Consumed(mempool) \subseteq Inputs(lock)
    BY <2>1 DEF Consumed
  <2>3. Utxo = (WalletCoins \cup Created({lock})) \ Inputs(lock)
    BY <2>1, <2>2 DEF Utxo, WalletCoins
  <2>4. Created({lock}) \cap Inputs(lock) = {}
    <3>1. Created({lock}) \subseteq {Output(lock, 0), Output(lock, 1)}
      BY DEF Created
    <3>2. Output(lock, 0) \notin WalletCoins /\ Output(lock, 1) \notin WalletCoins
      BY OwnOutputs DEF lock
    <3> QED
      BY <2>1, <3>1, <3>2 DEF Planned, lock
  <2>5. Inputs(spend) \subseteq (WalletCoins \ Inputs(lock)) \cup Created({lock})
    BY <2>1 DEF Planned, lock, spend
  <2>6. Inputs(spend) \subseteq (Utxo \cup Created(mempool)) \ Consumed(mempool)
    BY <2>2, <2>3, <2>4, <2>5
  <2>7. spend \notin mempool \cup OnChain
    BY <2>1 DEF lock, spend
  <2> QED
    BY <1>2, <2>6, <2>7 DEF Takes, spend
<1> QED
  BY <1>1, <1>2 DEF Kinds

\* What build_contract_run makes of the wallet's coins.
LEMMA BuiltIsPlanned ==
    ASSUME NEW r \in Runs, TypeOK, NEW rows \in SUBSET WalletCoins, NEW b \in Built(r, rows),
           built' = [built EXCEPT ![r] = b]
    PROVE  Planned(r)'
<1> DEFINE key == <<r, "lock">>
<1>1. PICK lock \in LockDrafts(rows) : \E spend \in SpendDrafts(r, rows, lock) : b = [lock |-> lock, spend |-> spend]
  BY DEF Built
<1>2. PICK spend \in SpendDrafts(r, rows, lock) : b = [lock |-> lock, spend |-> spend]
  BY <1>1
<1>3. built'[r] = b
  BY DEF TypeOK
<1>4. /\ Inputs(<<r, "lock">>)' = lock.inputs /\ Change(<<r, "lock">>)' = lock.change
      /\ Inputs(<<r, "spend">>)' = spend.inputs
  BY <1>2, <1>3 DEF Inputs, Change
<1>5. lock.inputs \subseteq rows /\ spend.inputs \subseteq FeeFunding(r, rows, lock) \cup {LockedOutput(r)}
  BY LockDraftsTyped, SpendDraftsTyped
<1>6. /\ LockedOutput(r) \in Created({key})'
      /\ lock.change > 0 => Output(key, 1) \in Created({key})'
  BY <1>4 DEF Created, LockedOutput
<1>7. spend.inputs \subseteq (rows \ lock.inputs) \cup Created({key})'
  BY <1>5, <1>6 DEF FeeFunding
<1> QED
  BY <1>4, <1>5, <1>7 DEF Planned, WalletCoins

\* The run's own steps.
LEMMA ActorClean ==
    ASSUME ProofInv, SentInv, NEW r \in Runs, Clean(r), OnTarget, RunStep(r)
    PROVE  Clean(r)'
<1>1. /\ TypeOK /\ Placed(r) /\ pc[r].tx \in Kinds \cup {"none"}
      /\ pc[r].step = "fetch" => pc[r].tx = "none"
  BY DEF ProofInv, PlaceInv, SentInv, TypeOK
<1>2. UNCHANGED <<chain, taken>>
  BY RunHistory
<1>3. built' = built => (Planned(r)' <=> Planned(r))
  BY DEF Planned, Inputs, Created, Change
<1> USE <1>1, <1>2 DEF At
<1>4. CASE AssertTarget(r)
  <2>1. /\ UNCHANGED <<mempool, submitted, outcome, built>>
        /\ pc'[r].tx = pc[r].tx /\ pc'[r].step \in {"fetch", "submit"} /\ pc[r].step = "assert"
    BY <1>4 DEF AssertTarget, Continue, Goto, TypeOK, nodeVars
  <2> QED
    BY <1>3, <2>1 DEF Clean, OnChain
<1>5. CASE FetchAndBuild(r)
  <2> DEFINE rows == {op \in WalletUtxo : op.tx \notin Coinbase}
  <2>1. pc[r].tx = "none" /\ submitted = {} /\ mempool = {} /\ OnChain = {}
    BY <1>5 DEF FetchAndBuild, Clean
  <2>2. rows \subseteq WalletCoins
    BY <2>1 DEF WalletUtxo, Utxo, Created, WalletCoins
  <2>3. UNCHANGED <<mempool, submitted>>
    BY <1>5 DEF FetchAndBuild, nodeVars
  <2>4. CASE pc'[r].tx = "none" /\ outcome'[r] \notin {"Rpc", "NetworkMismatch"}
    BY <2>1, <2>3, <2>4 DEF Clean, OnChain
  <2>5. ASSUME NEW b \in Built(r, rows), built' = [built EXCEPT ![r] = b],
               Goto(r, "lock", "assert"), UNCHANGED outcome
        PROVE  Clean(r)'
    <3>1. Planned(r)'
      BY <2>2, <2>5, BuiltIsPlanned
    <3>2. pc'[r] = [tx |-> "lock", step |-> "assert"]
      BY <2>5 DEF Goto, TypeOK
    <3> QED
      BY <2>1, <2>3, <2>5, <3>1, <3>2 DEF Clean, OnChain
  <2>6. \/ \E b \in Built(r, rows) : built' = [built EXCEPT ![r] = b] /\ Goto(r, "lock", "assert") /\ UNCHANGED outcome
        \/ End(r, "Gated") \/ Fail(r, "InsufficientFunds")
    BY <1>5 DEF FetchAndBuild
  <2>7. ASSUME End(r, "Gated") \/ Fail(r, "InsufficientFunds")
        PROVE  pc'[r].tx = "none" /\ outcome'[r] \notin {"Rpc", "NetworkMismatch"}
    BY <2>1, <2>7 DEF End, Fail, Goto, TypeOK
  <2> QED
    BY <2>4, <2>5, <2>6, <2>7
<1>6. CASE Submit(r)
  <2> DEFINE tx == <<r, pc[r].tx>>
  <2>1. pc[r].step = "submit" /\ pc[r].tx \in Kinds
    BY <1>6 DEF Submit, Placed
  <2>2. Takes(tx)
    BY <2>1, PlannedIsTaken
  <2>3. /\ mempool' = mempool \cup {tx} /\ submitted' = submitted \cup {tx}
        /\ pc' = [pc EXCEPT ![r] = [tx |-> pc[r].tx, step |-> "mempool"]] /\ UNCHANGED <<outcome, built>>
    BY <1>6, <2>2 DEF Submit, Continue, Goto
  <2>4. pc'[r] = [tx |-> pc[r].tx, step |-> "mempool"]
    BY <2>3 DEF TypeOK
  <2> QED
    BY <1>3, <2>1, <2>3, <2>4 DEF Clean, OnChain, Kinds
<1>7. CASE PollRows(r)
  <2>1. pc[r].step = "rows" /\ UNCHANGED <<mempool, submitted, built>> /\ pc[r].tx \in Kinds
    BY <1>7, PollRowsGoes DEF nodeVars, Placed
  <2>2. CASE Unseen(r)
    <3>1. pc'[r] = [tx |-> pc[r].tx, step |-> "info"] /\ outcome' = outcome
      BY <2>2 DEF Unseen, TypeOK
    <3> QED
      BY <1>3, <2>1, <3>1 DEF Clean, OnChain
  <2>3. ASSUME NEW score \in ScoresShown(<<r, pc[r].tx>>), Saw(r, score) PROVE Clean(r)'
    <3>1. <<r, pc[r].tx>> \in OnChain
      BY DEF ScoresShown, OnChain
    <3>2. CASE pc[r].tx = "lock"
      <4>1. pc'[r] = [tx |-> "spend", step |-> "assert"] /\ outcome' = outcome
        BY <2>3, <3>2 DEF Saw, TypeOK
      <4>2. <<r, "spend">> \notin submitted
        BY <3>2 DEF SentInv
      <4> QED
        BY <1>3, <2>1, <3>1, <3>2, <4>1, <4>2 DEF Clean, OnChain
    <3>3. CASE pc[r].tx = "spend"
      <4>1. pc'[r] = [tx |-> "spend", step |-> "ended"] /\ outcome'[r] = "Pass"
        BY <2>3, <3>3 DEF Saw, TypeOK
      <4> QED
        BY <1>3, <2>1, <3>1, <3>3, <4>1 DEF Clean, OnChain
    <3> QED
      BY <2>1, <3>2, <3>3 DEF Kinds
  <2> QED
    BY <1>7, <2>2, <2>3, PollRowsGoes
<1>8. CASE PollMempool(r) \/ LeaveMempool(r) \/ PollInfo(r) \/ PollTarget(r)
  <2>1. UNCHANGED <<mempool, submitted, built>>
    BY <1>8 DEF PollMempool, LeaveMempool, PollInfo, PollTarget, nodeVars
  <2>2. pc'[r].tx = pc[r].tx /\ pc'[r].step \notin {"assert", "submit"} /\ outcome'[r] \notin {"Rpc", "NetworkMismatch"}
    <3> USE DEF Clean, Continue, Goto, Fail, End, TypeOK
    <3>1. CASE PollMempool(r) BY <3>1 DEF PollMempool
    <3>2. CASE LeaveMempool(r) BY <3>2 DEF LeaveMempool
    <3>3. CASE PollInfo(r) BY <3>3 DEF PollInfo
    <3>4. CASE PollTarget(r) BY <3>4 DEF PollTarget
    <3> QED
      BY <1>8, <3>1, <3>2, <3>3, <3>4
  <2> QED
    BY <1>3, <2>1, <2>2 DEF Clean, OnChain
<1> QED
  BY <1>4, <1>5, <1>6, <1>7, <1>8 DEF RunStep

LEMMA CleanInvStep ==
    ASSUME ProofInv, SentInv, WaitInv, CleanInv, [Next]_vars
    PROVE  CleanInv'
<1> SUFFICES ASSUME NEW r \in Runs, Alone(r)' PROVE Clean(r)'
  BY DEF CleanInv
<1>1. TypeOK /\ moves \in Nat /\ faults \in Nat
  BY DEF ProofInv, TypeOK
<1>2. Clean(r) /\ built' = built /\ pc[r].tx # "none" => Planned(r)'
  BY DEF Clean, Planned, Inputs, Created, Change
<1>3. CASE NodeStep
  <2>1. Tick \/ \E tx \in TxIds : AcceptTx(tx)
    BY <1>1, <1>3 DEF NodeStep, Evict, Reorg, SpendElsewhere, MoveConnection, Fault, Alone
  <2>2. UNCHANGED <<runVars, submitted, taken, moves, faults>>
    BY <2>1 DEF Tick, AcceptTx, past
  <2>3. Clean(r)
    BY <2>2 DEF CleanInv, Alone
  <2>4. (mempool \cup OnChain)' \subseteq mempool \cup OnChain /\ OnChain \subseteq OnChain'
    BY <2>1 DEF Tick, AcceptTx, OnChain
  <2> QED
    BY <1>2, <2>2, <2>3, <2>4 DEF Clean, runVars
<1>4. ASSUME NEW q \in Runs, RunStep(q) \/ RpcFails(q) PROVE Clean(r)'
  <2>1. RunStep(q) /\ UNCHANGED <<moves, faults>>
    <3>1. ~RpcFails(q)
      BY <1>1 DEF RpcFails, Fault, Alone
    <3> QED
      BY <1>4, <3>1 DEF RunStep, AssertTarget, FetchAndBuild, Submit, PollMempool, LeaveMempool, PollInfo,
                        PollTarget, PollRows, past
  <2>2. Alone(r)
    BY <1>4, <2>1, RunHistory DEF Alone
  <2>3. Clean(r) /\ OnTarget
    BY <1>1, <2>2 DEF CleanInv, WaitInv, Alone, OnTarget, TypeOK
  <2>4. CASE q = r
    BY <2>1, <2>3, <2>4, ActorClean
  <2>5. CASE q # r
    <3>1. pc'[r] = pc[r] /\ outcome'[r] = outcome[r] /\ built'[r] = built[r]
      BY <1>1, <1>4, <2>5, OthersKeep
    <3>2. UNCHANGED <<submitted, mempool>>
      <4>1. pc[q].step = "submit" => pc[q].tx \in Kinds
        BY <1>1 DEF ProofInv, PlaceInv, Placed, TypeOK
      <4>2. <<q, "lock">> \notin submitted'
        BY <2>5 DEF Alone
      <4>3. pc[q].tx = "spend" => <<q, "lock">> \in submitted'
        BY <1>4, RunHistory DEF SentInv
      <4> QED
        BY <1>1, <1>4, <2>1, <4>1, <4>2, <4>3, SubmittedBySubmit DEF Kinds
    <3>3. UNCHANGED <<chain, taken>>
      BY <1>4, RunHistory
    <3>4. pc[r].tx # "none" => Planned(r)'
      BY <2>3, <3>1 DEF Clean, Planned, Inputs, Created, Change
    <3> QED
      BY <2>3, <3>1, <3>2, <3>3, <3>4 DEF Clean, OnChain
  <2> QED
    BY <2>4, <2>5
<1>5. CASE UNCHANGED vars
  <2>1. Clean(r)
    BY <1>5 DEF vars, CleanInv, Alone
  <2> QED
    BY <1>2, <1>5, <2>1 DEF vars, Clean, OnChain
<1> QED
  BY <1>3, <1>4, <1>5 DEF Next

\* deploy_and_execute, one snapshot and two transactions: a run with the wallet to itself,
\* no fault and no change of network never fails by an RPC error or on another network.
\* What it built from the wallet's UTXOs, spend after lock, the node takes.
THEOREM UndisturbedRunsPassHolds == Spec => []UndisturbedRunsPass
<1>1. Init => SentInv /\ CleanInv
  BY DEF Init, SentInv, CleanInv, Clean, OnChain
<1>2. ProofInv /\ WaitInv /\ SentInv /\ CleanInv /\ [Next]_vars => (SentInv /\ CleanInv)'
  BY SentInvStep, CleanInvStep
<1>3. ProofInv /\ CleanInv => UndisturbedRunsPass
  <2> SUFFICES ASSUME ProofInv, CleanInv, NEW r \in Runs, outcome[r] \in {"Rpc", "NetworkMismatch"}
               PROVE  moves > 0 \/ faults > 0 \/ \E other \in Runs \ {r} : <<other, "lock">> \in submitted
    BY DEF UndisturbedRunsPass
  <2>1. moves \in Nat /\ faults \in Nat
    BY DEF ProofInv, TypeOK
  <2>2. ~Alone(r)
    BY DEF CleanInv, Clean
  <2> QED
    BY <2>1, <2>2 DEF Alone
<1> QED
  BY <1>1, <1>2, <1>3, WaitInvHolds, PTL DEF Spec

-----------------------------------------------------------------------------
(* What the wallet loses.  A transaction as built loses its fee and at     *)
(* most the dust; transactions on the chain share no input; so what the    *)
(* chain has lost is a sum over its transactions.                          *)

\* What each output holds when the runs have built `bt`.
Amounts(bt) ==
    [op \in Outpoints |->
        IF op.tx \in Coins \cup Foreign THEN CoinAmount[op.tx]
        ELSE IF op.index = 0 THEN LockAmount
        ELSE bt[op.tx[1]][op.tx[2]].change]

Worth(bt, S) == SumFunctionOnSet(Amounts(bt), S)

Made(bt, tx) ==
    {Output(tx, 0)} \cup (IF bt[tx[1]][tx[2]].change > 0 THEN {Output(tx, 1)} ELSE {})

\* What a transaction takes from its inputs and gives to no output.
Lost(bt, tx) == Worth(bt, bt[tx[1]][tx[2]].inputs) - Worth(bt, Made(bt, tx))

\* Transactions of a run that has built them lose a fee and at most the dust, and
\* spend nothing of a run that has built none.
Drafted(r) ==
    \A kind \in Kinds :
        /\ Lost(built, <<r, kind>>) \in Fee .. Fee + DustLimit
        /\ \A op \in Inputs(<<r, kind>>) : op.tx \in TxIds => pc[op.tx[1]].tx # "none"

\* The node knows only of transactions that are built.
KnownInv == \A tx \in mempool \cup OnChain : pc[tx[1]].tx # "none"

DraftedInv == \A r \in Runs : pc[r].tx # "none" => Drafted(r)

\* The chain and the other users of the wallet spend outputs there are, each once.
ChainInv ==
    /\ mempool \cap OnChain = {}
    /\ taken \cup Consumed(OnChain) \subseteq WalletCoins \cup Created(OnChain)
    /\ taken \cap Consumed(OnChain) = {}
    /\ \A t, u \in OnChain : t # u => Inputs(t) \cap Inputs(u) = {}

LedgerInv == KnownInv /\ DraftedInv /\ ChainInv

-----------------------------------------------------------------------------
(* Sums of amounts.                                                        *)

LEMMA OutpointsFinite == IsFiniteSet(Outpoints)
<1> DEFINE Ids == TxIds \cup Coins \cup Foreign
           Pairs == Ids \X {0, 1}
           at == [p \in Pairs |-> [tx |-> p[1], index |-> p[2]]]
<1>1. IsFiniteSet(Kinds) /\ IsFiniteSet({0, 1})
  <2>1. IsFiniteSet({"lock"}) /\ IsFiniteSet({0})
    BY FS_Singleton
  <2>2. IsFiniteSet({"lock"} \cup {"spend"}) /\ IsFiniteSet({0} \cup {1})
    BY <2>1, FS_AddElement
  <2>3. Kinds = {"lock"} \cup {"spend"} /\ {0, 1} = {0} \cup {1}
    BY DEF Kinds
  <2> QED BY <2>2, <2>3
<1>2. IsFiniteSet(TxIds)
  BY <1>1, FS_Product, FiniteAssumption DEF TxIds
<1>3. IsFiniteSet(Ids)
  BY <1>2, FS_Union, FiniteAssumption
<1>4. IsFiniteSet(Pairs)
  BY <1>1, <1>3, FS_Product
<1>5. at \in Surjection(Pairs, Outpoints)
  <2>1. ASSUME NEW op \in Outpoints PROVE \E p \in Pairs : at[p] = op
    <3>1. op.tx \in Ids /\ op.index \in {0, 1} /\ op = [tx |-> op.tx, index |-> op.index]
      BY DEF Outpoints
    <3> HIDE DEF Ids
    <3>2. <<op.tx, op.index>> \in Pairs
      BY <3>1
    <3>3. at[<<op.tx, op.index>>] = op
      BY <3>1, <3>2
    <3> QED BY <3>2, <3>3
  <2>2. at \in [Pairs -> Outpoints]
    BY DEF Outpoints
  <2> HIDE DEF at, Pairs
  <2> QED BY <2>1, <2>2 DEF Surjection
<1> HIDE DEF at, Pairs
<1> QED BY <1>4, <1>5, FS_Surjection DEF ExistsSurjection

\* What the runs have built is of the type TypeOK gives it.
BuiltOK(bt) == bt \in [Runs -> [Kinds -> Draft]]

LEMMA AmountsTyped ==
    ASSUME NEW bt, BuiltOK(bt)
    PROVE  \A op \in Outpoints : Amounts(bt)[op] \in Nat
<1> SUFFICES ASSUME NEW op \in Outpoints PROVE Amounts(bt)[op] \in Nat
  OBVIOUS
<1>1. CASE op.tx \in Coins \cup Foreign
  BY <1>1, CoinAssumption DEF Amounts
<1>2. CASE op.tx \notin Coins \cup Foreign
  <2>1. op.tx \in TxIds
    BY <1>2 DEF Outpoints
  <2>2. bt[op.tx[1]][op.tx[2]] \in Draft
    BY <2>1 DEF TxIds, BuiltOK
  <2> QED BY <1>2, <2>2, AmountAssumption DEF Amounts, Draft
<1> QED BY <1>1, <1>2

LEMMA WorthTyped ==
    ASSUME NEW bt, BuiltOK(bt)
    PROVE  \A S \in SUBSET Outpoints : Worth(bt, S) \in Nat
<1>1. \A S \in SUBSET Outpoints : IsFiniteSet(S)
  BY OutpointsFinite, FS_Subset
<1>2. ASSUME NEW S \in SUBSET Outpoints PROVE Worth(bt, S) \in Nat
  <2>1. \A op \in S : Amounts(bt)[op] \in Nat
    BY AmountsTyped
  <2> QED BY <1>1, <2>1, SumNatural DEF Worth
<1> QED BY <1>2

LEMMA WorthOfUnion ==
    ASSUME NEW bt, BuiltOK(bt), NEW S \in SUBSET Outpoints, NEW T \in SUBSET Outpoints,
           S \cap T = {}
    PROVE  Worth(bt, S \cup T) = Worth(bt, S) + Worth(bt, T)
<1>1. IsFiniteSet(S) /\ IsFiniteSet(T)
  BY OutpointsFinite, FS_Subset
<1>2. \A op \in S \cup T : Amounts(bt)[op] \in Int
  BY AmountsTyped
<1> QED BY <1>1, <1>2, SumOfUnion DEF Worth

LEMMA WorthOfOne ==
    ASSUME NEW bt, BuiltOK(bt), NEW op \in Outpoints
    PROVE  Worth(bt, {op}) = Amounts(bt)[op]
BY AmountsTyped, SumOfOne DEF Worth

\* What the harness's own definitions call the amount of an output.
LEMMA WorthIsTotal ==
    ASSUME NEW S \in SUBSET Outpoints
    PROVE  SumFunctionOnSet([op \in S |-> Amount(op)], S) = Worth(built, S)
<1>1. \A op \in S : [o \in S |-> Amount(o)][op] = Amounts(built)[op]
  BY DEF Amounts, Amount, Change
<1>2. IsFiniteSet(S)
  BY OutpointsFinite, FS_Subset
<1> QED BY <1>1, <1>2, SumSameValues DEF Worth

-----------------------------------------------------------------------------
(* What a chain has lost.                                                  *)

LEMMA MadeTyped ==
    ASSUME NEW bt, NEW tx \in TxIds
    PROVE  Made(bt, tx) \in SUBSET Outpoints
BY DEF Made, Output, Outpoints

LEMMA CreatedIsMade ==
    ASSUME NEW T, NEW tx
    PROVE  Created(T \cup {tx}) = Created(T) \cup Made(built, tx)
BY DEF Created, Made, Change

LEMMA CreatedApart ==
    ASSUME NEW T, NEW tx, tx \notin T
    PROVE  Created(T) \cap Made(built, tx) = {}
<1> SUFFICES ASSUME NEW op \in Created(T), op \in Made(built, tx) PROVE FALSE
  OBVIOUS
<1>1. op.tx \in T
  BY DEF Created, Output
<1>2. op.tx = tx
  BY DEF Made, Output
<1> QED BY <1>1, <1>2

LEMMA ChainLoses ==
    ASSUME TypeOK, ChainInv, NEW T \in SUBSET OnChain,
           \A tx \in OnChain : Lost(built, tx) \in Fee .. Fee + DustLimit
    PROVE  /\ Created(T) \in SUBSET Outpoints /\ Consumed(T) \in SUBSET Outpoints
           /\ IsFiniteSet(T)
           /\ Worth(built, Consumed(T)) - Worth(built, Created(T))
                  \in Cardinality(T) * Fee .. Cardinality(T) * (Fee + DustLimit)
<1>0. BuiltOK(built) /\ OnChain \in SUBSET TxIds
  BY UtxoTyped DEF TypeOK, BuiltOK
<1>1. \A tx \in TxIds : Inputs(tx) \in SUBSET Outpoints
  BY <1>0 DEF BuiltOK, Inputs, Draft, TxIds
<1>2. \A S \in SUBSET TxIds : Created(S) \in SUBSET Outpoints /\ Consumed(S) \in SUBSET Outpoints
  BY <1>1 DEF Created, Consumed, Output, Outpoints
<1>3. IsFiniteSet(OnChain)
  <2>1. IsFiniteSet(TxIds)
    <3>1. IsFiniteSet({"lock"} \cup {"spend"})
      BY FS_Singleton, FS_AddElement
    <3>2. Kinds = {"lock"} \cup {"spend"}
      BY DEF Kinds
    <3> QED BY <3>1, <3>2, FS_Product, FiniteAssumption DEF TxIds
  <2> QED BY <1>0, <2>1, FS_Subset
<1>4. \A S \in SUBSET OnChain : IsFiniteSet(S) /\ Cardinality(S) \in Nat
  BY <1>3, FS_Subset, FS_CardinalityType
<1> DEFINE Loses(S) == Worth(built, Consumed(S)) - Worth(built, Created(S))
           P == {S \in SUBSET OnChain :
                    Loses(S) \in Cardinality(S) * Fee .. Cardinality(S) * (Fee + DustLimit)}
<1>5. {} \in P
  <2>1. Consumed({}) = {} /\ Created({}) = {}
    BY DEF Consumed, Created
  <2>2. Worth(built, {}) = 0 /\ Cardinality({}) = 0
    BY SumEmpty, FS_EmptySet DEF Worth
  <2>3. 0 * Fee = 0 /\ 0 * (Fee + DustLimit) = 0
    BY AmountAssumption
  <2>4. Loses({}) = 0
    <3>1. Worth(built, Consumed({})) = 0 /\ Worth(built, Created({})) = 0
      BY <2>1, <2>2, Zenon
    <3> QED BY <3>1
  <2>5. Loses({}) \in Cardinality({}) * Fee .. Cardinality({}) * (Fee + DustLimit)
    BY <2>2, <2>3, <2>4
  <2> QED BY <2>5, Zenon
<1>6. ASSUME NEW S \in SUBSET OnChain, S # {}, \A x \in S : S \ {x} \in P PROVE S \in P
  <2>0. PICK tx \in S : TRUE
    BY <1>6
  <2> DEFINE W == S \ {tx}
             n == Cardinality(W)
  <2>1. W \in SUBSET OnChain /\ tx \in OnChain /\ tx \in TxIds /\ S = W \cup {tx} /\ tx \notin W
    BY <1>0, <2>0
  <2>2. Cardinality(S) = n + 1 /\ n \in Nat
    BY <1>4, <2>1, FS_AddElement
  <2>3. Loses(W) \in n * Fee .. n * (Fee + DustLimit)
    BY <1>6, <2>0
  <2> HIDE DEF W, n
  <2>4. Worth(built, Created(S)) = Worth(built, Created(W)) + Worth(built, Made(built, tx))
    <3>1. Created(S) = Created(W) \cup Made(built, tx)
      BY <2>1, CreatedIsMade, Zenon
    <3>2. Created(W) \cap Made(built, tx) = {}
      BY <2>1, CreatedApart
    <3>3. Created(W) \in SUBSET Outpoints /\ Made(built, tx) \in SUBSET Outpoints
      BY <1>0, <1>2, <2>1, MadeTyped
    <3> QED BY <1>0, <3>1, <3>2, <3>3, WorthOfUnion
  <2>5. Worth(built, Consumed(S)) = Worth(built, Consumed(W)) + Worth(built, Inputs(tx))
    <3>1. Consumed(S) = Consumed(W) \cup Inputs(tx)
      BY <2>1 DEF Consumed
    <3>2. Consumed(W) \cap Inputs(tx) = {}
      BY <2>1 DEF Consumed, ChainInv
    <3>3. Consumed(W) \in SUBSET Outpoints /\ Inputs(tx) \in SUBSET Outpoints
      BY <1>0, <1>1, <1>2, <2>1
    <3> QED BY <1>0, <3>1, <3>2, <3>3, WorthOfUnion
  <2>6. Worth(built, Inputs(tx)) - Worth(built, Made(built, tx)) \in Fee .. Fee + DustLimit
    BY <2>1 DEF Lost, Inputs
  <2>7. /\ Worth(built, Created(W)) \in Nat /\ Worth(built, Consumed(W)) \in Nat
        /\ Worth(built, Inputs(tx)) \in Nat /\ Worth(built, Made(built, tx)) \in Nat
    <3>1. W \in SUBSET TxIds
      BY <1>0, <2>1
    <3> QED BY <1>0, <1>1, <1>2, <2>1, <3>1, WorthTyped, MadeTyped
  <2>8. (n + 1) * Fee = n * Fee + Fee /\ (n + 1) * (Fee + DustLimit) = n * (Fee + DustLimit) + (Fee + DustLimit)
    BY <2>2, AmountAssumption
  <2>9. n * Fee \in Nat /\ n * (Fee + DustLimit) \in Nat
    BY <2>2, AmountAssumption
  <2>10. Loses(S) \in n * Fee + Fee .. n * (Fee + DustLimit) + (Fee + DustLimit)
    <3> DEFINE a == n * Fee
               b == n * (Fee + DustLimit)
    <3>1. a \in Nat /\ b \in Nat /\ Loses(W) \in a .. b
      BY <2>3, <2>9
    <3> HIDE DEF a, b
    <3>2. Loses(S) \in a + Fee .. b + (Fee + DustLimit)
      BY <2>4, <2>5, <2>6, <2>7, <3>1, AmountAssumption
    <3> QED BY <3>2 DEF a, b
  <2> QED BY <2>2, <2>8, <2>10
<1>7. P \in SUBSET (SUBSET OnChain)
  OBVIOUS
<1> HIDE DEF P
<1>8. P = SUBSET OnChain
  BY <1>3, <1>5, <1>6, <1>7, SubsetInduction, Zenon
<1>9. T \in SUBSET TxIds
  BY <1>0
<1> QED BY <1>2, <1>4, <1>8, <1>9 DEF P

LEMMA OutpointsOnChain ==
    ASSUME TypeOK
    PROVE  /\ WalletCoins \in SUBSET Outpoints /\ Created(OnChain) \in SUBSET Outpoints
           /\ WalletCoins \cap Created(OnChain) = {}
<1>1. OnChain \subseteq TxIds
  BY UtxoTyped
<1>2. \A op \in Created(OnChain) : op.tx \in TxIds
  BY <1>1 DEF Created, Output
<1>3. \A op \in WalletCoins : op.tx \in Coins
  BY DEF WalletCoins, Coin, Output
<1>4. TxIds \cap Coins = {}
  BY CoinAssumption DEF TxIds, Kinds
<1>5. WalletCoins \in SUBSET Outpoints /\ Created(OnChain) \in SUBSET Outpoints
  BY <1>1 DEF Created, Output, Outpoints, WalletCoins, Coin
<1> QED BY <1>2, <1>3, <1>4, <1>5

\* What was there at the start and what the chain made is unspent, taken or consumed.
LEMMA LedgerAddsUp ==
    ASSUME TypeOK, LedgerInv
    PROVE  WalletLosesOnlyFees
<1> DEFINE W(S) == Worth(built, S)
           made == Created(OnChain)
           used == Consumed(OnChain)
<1>0. BuiltOK(built) /\ OnChain \in SUBSET OnChain
  BY DEF TypeOK, BuiltOK
<1>1. \A tx \in OnChain : Lost(built, tx) \in Fee .. Fee + DustLimit
  <2>1. ASSUME NEW tx \in OnChain PROVE Lost(built, tx) \in Fee .. Fee + DustLimit
    <3>1. tx \in TxIds /\ pc[tx[1]].tx # "none"
      BY UtxoTyped DEF LedgerInv, KnownInv
    <3>2. tx[1] \in Runs /\ tx[2] \in Kinds /\ tx = <<tx[1], tx[2]>>
      BY <3>1 DEF TxIds
    <3>3. Drafted(tx[1])
      BY <3>1, <3>2 DEF LedgerInv, DraftedInv
    <3> QED BY <3>2, <3>3 DEF Drafted
  <2> QED BY <2>1
<1>2. /\ made \in SUBSET Outpoints /\ used \in SUBSET Outpoints
      /\ W(used) - W(made) \in Cardinality(OnChain) * Fee .. Cardinality(OnChain) * (Fee + DustLimit)
  BY <1>0, <1>1, ChainLoses DEF LedgerInv
<1>3. WalletCoins \in SUBSET Outpoints /\ WalletCoins \cap made = {}
  BY OutpointsOnChain
<1>4. /\ WalletCoins \cup made = (Utxo \cup taken) \cup used
      /\ Utxo \cap taken = {} /\ (Utxo \cup taken) \cap used = {}
  BY DEF Utxo, WalletCoins, LedgerInv, ChainInv
<1>5. taken \in SUBSET Outpoints /\ Utxo \in SUBSET Outpoints /\ Utxo \cup taken \in SUBSET Outpoints
  BY UtxoTyped DEF TypeOK
<1> HIDE DEF made, used
<1>6. W(WalletCoins \cup made) = W(WalletCoins) + W(made)
  BY <1>0, <1>2, <1>3, WorthOfUnion
<1>7. W((Utxo \cup taken) \cup used) = W(Utxo \cup taken) + W(used)
  BY <1>0, <1>2, <1>4, <1>5, WorthOfUnion
<1>8. W(Utxo \cup taken) = W(Utxo) + W(taken)
  BY <1>0, <1>4, <1>5, WorthOfUnion
<1>9. W(WalletCoins) + W(made) = W(Utxo) + W(taken) + W(used)
  BY <1>4, <1>6, <1>7, <1>8, Zenon
<1>10. W(WalletCoins) \in Nat /\ W(made) \in Nat /\ W(Utxo) \in Nat /\ W(taken) \in Nat /\ W(used) \in Nat
  BY <1>0, <1>2, <1>3, <1>5, WorthTyped
<1>11. W(WalletCoins) - W(Utxo) - W(taken) = W(used) - W(made)
  BY <1>9, <1>10
<1>12. /\ SumFunctionOnSet([op \in {Coin(c) : c \in Coins} |-> Amount(op)], {Coin(c) : c \in Coins}) = W(WalletCoins)
       /\ SumFunctionOnSet([op \in Utxo |-> Amount(op)], Utxo) = W(Utxo)
       /\ SumFunctionOnSet([op \in taken |-> Amount(op)], taken) = W(taken)
  BY <1>3, <1>5, WorthIsTotal, Zenon DEF WalletCoins
<1> QED BY <1>2, <1>11, <1>12, Zenon DEF WalletLosesOnlyFees

-----------------------------------------------------------------------------
(* What is built.                                                          *)

LEMMA DraftsBalance ==
    ASSUME NEW inputs, NEW rest, NEW d \in Drafts(inputs, rest)
    PROVE  /\ rest \in Nat /\ d.inputs = inputs /\ d.change \in Nat
           /\ rest - d.change \in Fee .. Fee + DustLimit
BY AmountAssumption DEF Drafts

\* A lock or a spend whose inputs leave `rest` besides its output 0 loses a fee and
\* at most the dust.
LEMMA DraftLoses ==
    ASSUME NEW bt, BuiltOK(bt), NEW tx \in TxIds, NEW rest \in Nat,
           Worth(bt, bt[tx[1]][tx[2]].inputs) = LockAmount + rest,
           rest - bt[tx[1]][tx[2]].change \in Fee .. Fee + DustLimit
    PROVE  Lost(bt, tx) \in Fee .. Fee + DustLimit
<1> DEFINE change == bt[tx[1]][tx[2]].change
<1>1. change \in Nat
  BY DEF BuiltOK, TxIds, Draft
<1>2. /\ Output(tx, 0) \in Outpoints /\ Output(tx, 1) \in Outpoints
      /\ Output(tx, 0).tx = tx /\ Output(tx, 1).tx = tx
      /\ Output(tx, 0).index = 0 /\ Output(tx, 1).index = 1
      /\ Output(tx, 0) # Output(tx, 1)
  BY DEF Output, Outpoints
<1>3. tx \notin Coins \cup Foreign
  BY CoinAssumption DEF TxIds, Kinds
<1>4. Amounts(bt)[Output(tx, 0)] = LockAmount /\ Amounts(bt)[Output(tx, 1)] = change
  BY <1>2, <1>3 DEF Amounts
<1>5. Worth(bt, {Output(tx, 0)}) = LockAmount /\ Worth(bt, {Output(tx, 1)}) = change
  BY <1>2, <1>4, WorthOfOne
<1> HIDE DEF change
<1>6. Worth(bt, Made(bt, tx)) = LockAmount + change
  <2>1. CASE change > 0
    <3>1. Made(bt, tx) = {Output(tx, 0)} \cup {Output(tx, 1)}
      BY <2>1 DEF Made, change
    <3>2. Worth(bt, {Output(tx, 0)} \cup {Output(tx, 1)}) = Worth(bt, {Output(tx, 0)}) + Worth(bt, {Output(tx, 1)})
      BY <1>2, WorthOfUnion
    <3> QED BY <1>5, <3>1, <3>2
  <2>2. CASE ~(change > 0)
    <3>1. Made(bt, tx) = {Output(tx, 0)}
      BY <2>2 DEF Made, change
    <3>2. change = 0
      BY <1>1, <2>2
    <3> QED BY <1>5, <3>1, <3>2, AmountAssumption
  <2> QED BY <2>1, <2>2
<1>7. rest - change \in Fee .. Fee + DustLimit
  BY DEF change
<1> QED BY <1>1, <1>6, <1>7, AmountAssumption DEF Lost

\* The amounts a run reckons with are those its outputs will have.
LEMMA BuiltLoses ==
    ASSUME NEW r \in Runs, TypeOK, NEW rows \in SUBSET Outpoints,
           \A op \in rows : op.tx \in TxIds => op.tx[1] # r,
           NEW b \in Built(r, rows)
    PROVE  LET bt == [built EXCEPT ![r] = b]
           IN  \A kind \in Kinds : Lost(bt, <<r, kind>>) \in Fee .. Fee + DustLimit
<1> DEFINE bt == [built EXCEPT ![r] = b]
           key == <<r, "lock">>
           rowValue == [op \in rows |-> Amount(op)]
<1>0. b \in [Kinds -> Draft]
  BY BuiltTyped
<1>1. BuiltOK(bt) /\ bt[r] = b
  BY <1>0 DEF TypeOK, BuiltOK
<1>2. PICK lock \in LockDrafts(rows) : \E spend \in SpendDrafts(r, rows, lock) : b = [lock |-> lock, spend |-> spend]
  BY DEF Built
<1>3. PICK spend \in SpendDrafts(r, rows, lock) : b = [lock |-> lock, spend |-> spend]
  BY <1>2
<1>4. b["lock"] = lock /\ b["spend"] = spend
  BY <1>3
<1> HIDE DEF bt
<1>5. key \in TxIds /\ <<r, "spend">> \in TxIds /\ key \notin Coins \cup Foreign
  BY CoinAssumption DEF TxIds, Kinds
<1>6. \A op \in rows : Amount(op) = Amounts(bt)[op] /\ op.tx # key
  <2>1. ASSUME NEW op \in rows PROVE Amount(op) = Amounts(bt)[op] /\ op.tx # key
    <3>1. CASE op.tx \in TxIds
      <4>1. op.tx[1] # r /\ op.tx[1] \in Runs
        BY <3>1 DEF TxIds
      <4>2. bt[op.tx[1]] = built[op.tx[1]]
        BY <4>1 DEF bt, TypeOK
      <4> QED BY <4>1, <4>2 DEF Amount, Amounts, Change
    <3>2. CASE op.tx \notin TxIds
      <4>1. op.tx \in Coins \cup Foreign
        BY <3>2 DEF Outpoints
      <4> QED BY <1>5, <4>1 DEF Amount, Amounts
    <3> QED BY <3>1, <3>2
  <2> QED BY <2>1
<1>7. Lost(bt, key) \in Fee .. Fee + DustLimit
  <2>1. PICK T \in SelectFunding(rowValue, rows, LockAmount + FundingMargin) :
            lock \in Drafts(T, Total(rowValue, T) - LockAmount)
    BY DEF LockDrafts
  <2>2. T \subseteq rows /\ T \in SUBSET Outpoints
    BY DEF SelectFunding
  <2>3. /\ Total(rowValue, T) - LockAmount \in Nat /\ lock.inputs = T
        /\ Total(rowValue, T) - LockAmount - lock.change \in Fee .. Fee + DustLimit
    BY <2>1, DraftsBalance
  <2>4. Total(rowValue, T) = Worth(bt, T)
    <3>1. \A op \in T : rowValue[op] = Amounts(bt)[op]
      BY <1>6, <2>2
    <3>2. IsFiniteSet(T)
      BY <2>2, OutpointsFinite, FS_Subset
    <3> HIDE DEF rowValue
    <3> QED BY <3>1, <3>2, SumSameValues DEF Total, Worth
  <2>5. Worth(bt, T) \in Nat
    BY <1>1, <2>2, WorthTyped
  <2>6. bt[key[1]][key[2]].inputs = T /\ bt[key[1]][key[2]].change = lock.change
    BY <1>1, <1>4, <2>3
  <2> DEFINE rest == Worth(bt, T) - LockAmount
  <2>7. rest \in Nat /\ Worth(bt, T) = LockAmount + rest /\ rest - lock.change \in Fee .. Fee + DustLimit
    BY <2>3, <2>4, <2>5, AmountAssumption
  <2> HIDE DEF rest, key
  <2> QED BY <1>1, <1>5, <2>6, <2>7, DraftLoses
<1>8. Lost(bt, <<r, "spend">>) \in Fee .. Fee + DustLimit
  <2> DEFINE funding == FeeFunding(r, rows, lock)
             value == [op \in funding |-> IF op.tx = <<r, "lock">> THEN lock.change ELSE Amount(op)]
             tx == <<r, "spend">>
  <2>1. PICK T \in SelectFunding(value, funding, FundingMargin) :
            spend \in Drafts(T \cup {LockedOutput(r)}, Total(value, T))
    BY DEF SpendDrafts
  <2>2. T \subseteq funding
    BY DEF SelectFunding
  <2>3. /\ Total(value, T) \in Nat /\ spend.inputs = T \cup {LockedOutput(r)}
        /\ Total(value, T) - spend.change \in Fee .. Fee + DustLimit
    BY <2>1, DraftsBalance
  <2>4. funding \subseteq rows \cup {Output(key, 1)}
    BY DEF FeeFunding
  <2>5. /\ Output(key, 1) \in Outpoints /\ LockedOutput(r) \in Outpoints
        /\ Output(key, 1).tx = key /\ Output(key, 1).index = 1
        /\ LockedOutput(r).tx = key /\ LockedOutput(r).index = 0
    BY <1>5 DEF Output, Outpoints, LockedOutput
  <2>6. T \in SUBSET Outpoints
    BY <2>2, <2>4, <2>5
  <2>7. bt[key[1]][key[2]].change = lock.change
    BY <1>1, <1>4
  <2>8. \A op \in T : value[op] = Amounts(bt)[op]
    <3>1. ASSUME NEW op \in T PROVE value[op] = Amounts(bt)[op]
      <4>1. CASE op \in rows
        BY <1>6, <2>2, <4>1
      <4>2. CASE op = Output(key, 1)
        <5>1. Amounts(bt)[op] = lock.change
          BY <1>5, <2>5, <2>7, <4>2 DEF Amounts
        <5>2. value[op] = lock.change
          BY <2>2, <2>5, <4>2
        <5> QED BY <5>1, <5>2
      <4> QED BY <2>2, <2>4, <4>1, <4>2
    <3> QED BY <3>1
  <2>9. Total(value, T) = Worth(bt, T)
    <3>1. IsFiniteSet(T)
      BY <2>6, OutpointsFinite, FS_Subset
    <3> HIDE DEF value
    <3> QED BY <2>8, <3>1, SumSameValues DEF Total, Worth
  <2>10. LockedOutput(r) \notin T
    <3>1. LockedOutput(r) \notin rows
      BY <1>6, <2>5
    <3>2. LockedOutput(r) # Output(key, 1)
      BY <2>5
    <3> QED BY <2>2, <2>4, <3>1, <3>2
  <2>11. Worth(bt, {LockedOutput(r)}) = LockAmount
    <3>1. Amounts(bt)[LockedOutput(r)] = LockAmount
      BY <1>5, <2>5 DEF Amounts
    <3> QED BY <1>1, <2>5, <3>1, WorthOfOne
  <2>12. Worth(bt, T \cup {LockedOutput(r)}) = Worth(bt, T) + LockAmount
    BY <1>1, <2>5, <2>6, <2>10, <2>11, WorthOfUnion
  <2>13. bt[tx[1]][tx[2]].inputs = T \cup {LockedOutput(r)} /\ bt[tx[1]][tx[2]].change = spend.change
    BY <1>1, <1>4, <2>3
  <2> DEFINE rest == Worth(bt, T)
  <2>14. rest \in Nat /\ Worth(bt, T \cup {LockedOutput(r)}) = LockAmount + rest
         /\ rest - spend.change \in Fee .. Fee + DustLimit
    BY <2>3, <2>9, <2>12, AmountAssumption
  <2> HIDE DEF rest, tx
  <2>15. tx \in TxIds
    BY <1>5 DEF tx
  <2>16. Lost(bt, tx) \in Fee .. Fee + DustLimit
    BY <1>1, <2>13, <2>14, <2>15, DraftLoses
  <2> QED BY <2>16 DEF tx
<1> QED BY <1>7, <1>8 DEF Kinds, bt

\* Their inputs are rows, or outputs of the lock.
LEMMA BuiltInputs ==
    ASSUME NEW r \in Runs, TypeOK, NEW rows, NEW b \in Built(r, rows), built' = [built EXCEPT ![r] = b]
    PROVE  \A kind \in Kinds : \A op \in built'[r][kind].inputs : op \in rows \/ op.tx = <<r, "lock">>
<1>1. PICK lock \in LockDrafts(rows) : \E spend \in SpendDrafts(r, rows, lock) : b = [lock |-> lock, spend |-> spend]
  BY DEF Built
<1>2. PICK spend \in SpendDrafts(r, rows, lock) : b = [lock |-> lock, spend |-> spend]
  BY <1>1
<1>3. built'[r]["lock"] = lock /\ built'[r]["spend"] = spend
  BY <1>2 DEF TypeOK
<1>4. lock.inputs \subseteq rows /\ spend.inputs \subseteq FeeFunding(r, rows, lock) \cup {LockedOutput(r)}
  BY LockDraftsTyped, SpendDraftsTyped
<1>5. /\ FeeFunding(r, rows, lock) \subseteq rows \cup {Output(<<r, "lock">>, 1)}
      /\ Output(<<r, "lock">>, 1).tx = <<r, "lock">> /\ LockedOutput(r).tx = <<r, "lock">>
  BY DEF FeeFunding, Output, LockedOutput
<1> QED BY <1>3, <1>4, <1>5 DEF Kinds

-----------------------------------------------------------------------------
(* Steps of the node.                                                      *)

\* The dependents of a transaction are closed under spending.
LEMMA DependentsClosed ==
    ASSUME NEW tx, NEW txs, tx \in txs
    PROVE  /\ tx \in Dependents(tx, txs) /\ Dependents(tx, txs) \subseteq txs
           /\ \A t \in txs, s \in Dependents(tx, txs) :
                 (\E i \in {0, 1} : Output(s, i) \in Inputs(t)) => t \in Dependents(tx, txs)
<1>1. tx \in Dependents(tx, txs) /\ Dependents(tx, txs) \subseteq txs
  BY DEF Dependents
<1>2. ASSUME NEW t \in txs, NEW s \in Dependents(tx, txs), \E i \in {0, 1} : Output(s, i) \in Inputs(t),
             NEW S \in SUBSET txs, tx \in S, ClosedUnder(S, txs)
      PROVE  t \in S
  <2>1. s \in S
    BY <1>2 DEF Dependents
  <2> QED BY <1>2, <2>1 DEF ClosedUnder
<1> QED BY <1>1, <1>2 DEF Dependents

LEMMA CreatedBy ==
    ASSUME NEW txs, NEW op
    PROVE  op \in Created(txs) <=> \/ op.tx \in txs /\ op = Output(op.tx, 0)
                                   \/ op.tx \in txs /\ Change(op.tx) > 0 /\ op = Output(op.tx, 1)
BY DEF Created, Output

LEMMA AcceptChain ==
    ASSUME TypeOK, ChainInv, NEW tx \in TxIds, AcceptTx(tx)
    PROVE  ChainInv'
<1>1. /\ OnChain' = OnChain \cup {tx} /\ mempool' = mempool \ {tx} /\ taken' = taken /\ built' = built
      /\ tx \in mempool /\ tx \notin OnChain /\ Inputs(tx) \subseteq Utxo
  <2>1. /\ chain' = chain \cup {[tx |-> tx, score |-> daa]} /\ mempool' = mempool \ {tx} /\ taken' = taken
        /\ built' = built /\ tx \in mempool /\ Inputs(tx) \subseteq Utxo
    BY DEF AcceptTx, runVars
  <2>2. [tx |-> tx, score |-> daa].tx = tx
    OBVIOUS
  <2>3. ASSUME NEW t PROVE t \in OnChain' <=> t \in OnChain \cup {tx}
    BY <2>1, <2>2 DEF OnChain
  <2>4. OnChain' = OnChain \cup {tx}
    BY <2>3
  <2> QED BY <2>1, <2>4 DEF ChainInv
<1>2. \A t \in TxIds : Inputs(t)' = Inputs(t)
  BY <1>1 DEF Inputs
<1>3. Consumed(OnChain)' = Consumed(OnChain) \cup Inputs(tx)
  BY <1>1 DEF Consumed, Inputs
<1>4. Created(OnChain) \subseteq Created(OnChain)'
  BY <1>1 DEF Created, Change
<1>5. Inputs(tx) \subseteq WalletCoins \cup Created(OnChain) /\ Inputs(tx) \cap (Consumed(OnChain) \cup taken) = {}
  BY <1>1 DEF Utxo, WalletCoins
<1>6. \A t, u \in OnChain' : t # u => Inputs(t)' \cap Inputs(u)' = {}
  <2>1. \A t \in OnChain : Inputs(t) \cap Inputs(tx) = {}
    BY <1>5 DEF Consumed
  <2>2. OnChain \subseteq TxIds
    BY UtxoTyped
  <2> QED BY <1>1, <1>2, <2>1, <2>2 DEF ChainInv
<1>7. mempool' \cap OnChain' = {} /\ WalletCoins' = WalletCoins
  BY <1>1 DEF ChainInv, WalletCoins, Coin, Output
<1>8. (taken \cup Consumed(OnChain))' \subseteq WalletCoins \cup Created(OnChain)'
  BY <1>1, <1>3, <1>4, <1>5 DEF ChainInv
<1>9. taken' \cap Consumed(OnChain)' = {}
  BY <1>1, <1>3, <1>5 DEF ChainInv
<1> QED BY <1>6, <1>7, <1>8, <1>9 DEF ChainInv

LEMMA ReorgChain ==
    ASSUME TypeOK, ChainInv, NEW tx \in TxIds, Reorg(tx)
    PROVE  ChainInv'
<1> DEFINE undone == Dependents(tx, OnChain)
<1>1. /\ tx \in OnChain /\ OnChain' = OnChain \ undone /\ mempool' = mempool \cup undone
      /\ taken' = {op \in taken : op.tx \notin undone} /\ built' = built
  BY DEF Reorg, OnChain, runVars
<1>2. /\ undone \subseteq OnChain
      /\ \A t \in OnChain, s \in undone : (\E i \in {0, 1} : Output(s, i) \in Inputs(t)) => t \in undone
  BY <1>1, DependentsClosed
<1> HIDE DEF undone
<1>3. \A t : Inputs(t)' = Inputs(t) /\ Change(t)' = Change(t)
  BY <1>1 DEF Inputs, Change
<1>4. Consumed(OnChain)' \subseteq Consumed(OnChain)
  BY <1>1, <1>3 DEF Consumed
<1>5. WalletCoins' = WalletCoins
  BY DEF WalletCoins, Coin, Output
<1>6. ASSUME NEW op \in Created(OnChain), op.tx \notin undone PROVE op \in Created(OnChain)'
  BY <1>1, <1>6, <1>3 DEF Created, Output, Change
<1>7. taken' \subseteq WalletCoins \cup Created(OnChain)'
  BY <1>1, <1>6 DEF ChainInv
<1>8. ASSUME NEW op \in Consumed(OnChain)' PROVE op \in WalletCoins \cup Created(OnChain)'
  <2>1. PICK t \in OnChain : t \notin undone /\ op \in Inputs(t)
    BY <1>1, <1>3, <1>8 DEF Consumed
  <2>2. op \in WalletCoins \cup Created(OnChain)
    BY <2>1 DEF ChainInv, Consumed
  <2>3. ASSUME op \in Created(OnChain) PROVE op.tx \notin undone
    <3>1. op = Output(op.tx, 0) \/ op = Output(op.tx, 1)
      BY <2>3, CreatedBy
    <3> QED BY <1>2, <2>1, <3>1
  <2> QED BY <1>6, <2>2, <2>3
<1>9. mempool' \cap OnChain' = {}
  BY <1>1 DEF ChainInv
<1>10. taken' \cap Consumed(OnChain)' = {}
  BY <1>1, <1>4 DEF ChainInv
<1>11. \A t, u \in OnChain' : t # u => Inputs(t)' \cap Inputs(u)' = {}
  BY <1>1, <1>3 DEF ChainInv
<1> QED BY <1>5, <1>7, <1>8, <1>9, <1>10, <1>11 DEF ChainInv

\* A step that leaves the chain, and of what is spent and waiting changes nothing for
\* the worse.
LEMMA SameChain ==
    ASSUME TypeOK, ChainInv, chain' = chain, mempool' \cap OnChain = {},
           \A tx \in OnChain : built'[tx[1]] = built[tx[1]],
           taken' \subseteq taken \cup Utxo
    PROVE  ChainInv'
<1>1. OnChain' = OnChain
  BY DEF OnChain
<1>2. \A tx \in OnChain : Inputs(tx)' = Inputs(tx) /\ Change(tx)' = Change(tx)
  BY DEF Inputs, Change
<1>3. Consumed(OnChain)' = Consumed(OnChain) /\ Created(OnChain)' = Created(OnChain)
  <2>1. Consumed(OnChain)' = Consumed(OnChain)
    BY <1>1, <1>2 DEF Consumed
  <2>2. {t \in OnChain : Change(t) > 0}' = {t \in OnChain : Change(t) > 0}
    BY <1>1, <1>2
  <2>3. Created(OnChain)' = Created(OnChain)
    BY <1>1, <2>2, Zenon DEF Created, Output
  <2> QED BY <2>1, <2>3
<1>4. WalletCoins' = WalletCoins
  BY DEF WalletCoins, Coin, Output
<1>5. \A t, u \in OnChain' : t # u => Inputs(t)' \cap Inputs(u)' = {}
  BY <1>1, <1>2 DEF ChainInv
<1>6. Utxo \subseteq WalletCoins \cup Created(OnChain) /\ Utxo \cap Consumed(OnChain) = {}
  BY DEF Utxo, WalletCoins
<1>7. (taken \cup Consumed(OnChain))' \subseteq WalletCoins \cup Created(OnChain)
  BY <1>3, <1>6 DEF ChainInv
<1>8. taken' \cap Consumed(OnChain)' = {}
  BY <1>3, <1>6 DEF ChainInv
<1> QED BY <1>1, <1>3, <1>4, <1>5, <1>7, <1>8 DEF ChainInv

LEMMA NodeLedger ==
    ASSUME TypeOK, LedgerInv, NodeStep
    PROVE  LedgerInv'
<1>1. UNCHANGED runVars
  BY DEF NodeStep, Tick, AcceptTx, Evict, Reorg, SpendElsewhere, MoveConnection
<1>2. pc' = pc /\ built' = built
  BY <1>1 DEF runVars
<1>3. (mempool \cup OnChain)' \subseteq mempool \cup OnChain
  BY DEF NodeStep, Tick, AcceptTx, Evict, Reorg, SpendElsewhere, MoveConnection, OnChain, Dependents
<1>4. KnownInv'
  BY <1>2, <1>3 DEF LedgerInv, KnownInv
<1>5. DraftedInv'
  <2>1. \A tx : Lost(built, tx)' = Lost(built, tx) /\ Inputs(tx)' = Inputs(tx)
    BY <1>2 DEF Lost, Inputs, Worth, Amounts, Made, Output
  <2> QED BY <1>2, <2>1 DEF LedgerInv, DraftedInv, Drafted
<1>6. ChainInv'
  <2>0. ChainInv
    BY DEF LedgerInv
  <2>1. CASE Tick \/ MoveConnection
    <3>1. chain' = chain /\ mempool' = mempool /\ taken' = taken
      BY <2>1 DEF Tick, MoveConnection
    <3> QED BY <1>2, <2>0, <3>1, SameChain DEF ChainInv
  <2>2. ASSUME NEW tx \in TxIds, AcceptTx(tx) PROVE ChainInv'
    BY <2>0, <2>2, AcceptChain
  <2>3. ASSUME NEW tx \in TxIds, Evict(tx) PROVE ChainInv'
    <3>1. chain' = chain /\ mempool' \subseteq mempool /\ taken' = taken
      BY <2>3 DEF Evict
    <3>2. mempool' \cap OnChain = {}
      BY <2>0, <3>1 DEF ChainInv
    <3> QED BY <1>2, <2>0, <3>1, <3>2, SameChain
  <2>4. ASSUME NEW tx \in TxIds, Reorg(tx) PROVE ChainInv'
    BY <2>0, <2>4, ReorgChain
  <2>5. ASSUME NEW op \in WalletUtxo, SpendElsewhere(op) PROVE ChainInv'
    <3>1. chain' = chain /\ mempool' = mempool /\ taken' \subseteq taken \cup Utxo
      BY <2>5 DEF SpendElsewhere, WalletUtxo
    <3>2. mempool' \cap OnChain = {}
      BY <2>0, <3>1 DEF ChainInv
    <3> QED BY <1>2, <2>0, <3>1, <3>2, SameChain
  <2> QED BY <2>1, <2>2, <2>3, <2>4, <2>5 DEF NodeStep
<1> QED BY <1>4, <1>5, <1>6 DEF LedgerInv

-----------------------------------------------------------------------------
(* Steps of the runs.                                                      *)

\* Where a run goes when it has fetched.
LEMMA FetchGoes ==
    ASSUME TypeOK, NEW r \in Runs, FetchAndBuild(r)
    PROVE  LET answer == IF OnTarget THEN WalletUtxo ELSE {Coin(c) : c \in Foreign}
               rows == {op \in answer : op.tx \notin Coinbase}
           IN  /\ pc'[r].tx = pc[r].tx \/ pc'[r].tx = "lock"
               /\ pc'[r].tx # pc[r].tx => \E b \in Built(r, rows) : built' = [built EXCEPT ![r] = b]
<1> DEFINE answer == IF OnTarget THEN WalletUtxo ELSE {Coin(c) : c \in Foreign}
           rows == {op \in answer : op.tx \notin Coinbase}
<1>1. \/ \E how : End(r, how)
      \/ /\ \E b \in Built(r, rows) : built' = [built EXCEPT ![r] = b]
         /\ Goto(r, "lock", "assert")
  BY Zenon DEF FetchAndBuild, Fail
<1> HIDE DEF rows
<1>2. ASSUME NEW how, End(r, how) PROVE pc'[r].tx = pc[r].tx
  <2>1. pc' = [pc EXCEPT ![r] = [tx |-> pc[r].tx, step |-> "ended"]]
    BY <1>2 DEF End, Goto
  <2> QED BY <2>1 DEF TypeOK
<1>3. ASSUME Goto(r, "lock", "assert") PROVE pc'[r].tx = "lock"
  BY <1>3 DEF Goto, TypeOK
<1>4. /\ pc'[r].tx = pc[r].tx \/ pc'[r].tx = "lock"
      /\ pc'[r].tx # pc[r].tx => \E b \in Built(r, rows) : built' = [built EXCEPT ![r] = b]
  BY <1>1, <1>2, <1>3
<1> QED BY <1>4 DEF rows

\* What a step of a run does to what it is busy with and to the node.
LEMMA RunTouches ==
    ASSUME TypeOK, NEW r \in Runs, Placed(r), RunStep(r) \/ RpcFails(r)
    PROVE  /\ chain' = chain /\ taken' = taken
           /\ pc[r].tx # "none" => pc'[r].tx # "none"
           /\ \/ mempool' = mempool
              \/ /\ mempool' = mempool \cup {<<r, pc[r].tx>>} /\ <<r, pc[r].tx>> \notin OnChain
                 /\ pc[r].tx # "none"
           /\ \/ built' = built /\ (pc'[r].tx # "none" => pc[r].tx # "none")
              \/ FetchAndBuild(r)
<1> USE DEF Goto, Continue, End, Fail, TypeOK, Placed, At, nodeVars
<1>1. CASE AssertTarget(r) BY <1>1 DEF AssertTarget
<1>2. CASE FetchAndBuild(r)
  <2>1. chain' = chain /\ taken' = taken /\ mempool' = mempool
    BY <1>2 DEF FetchAndBuild
  <2>2. pc'[r].tx = pc[r].tx \/ pc'[r].tx = "lock"
    BY <1>2, FetchGoes
  <2> QED BY <1>2, <2>1, <2>2
<1>3. CASE Submit(r) BY <1>3 DEF Submit, Takes
<1>4. CASE PollMempool(r) BY <1>4 DEF PollMempool
<1>5. CASE LeaveMempool(r) BY <1>5 DEF LeaveMempool
<1>6. CASE PollInfo(r) BY <1>6 DEF PollInfo
<1>7. CASE PollTarget(r) BY <1>7 DEF PollTarget
<1>8. CASE PollRows(r)
  <2>1. CASE Unseen(r)
    BY <1>8, <2>1, PollRowsGoes DEF Unseen
  <2>2. ASSUME NEW score, Saw(r, score) PROVE pc'[r].tx # "none"
    <3>1. \/ pc'[r] = [tx |-> "spend", step |-> "assert"]
          \/ pc'[r] = [tx |-> pc[r].tx, step |-> "ended"] /\ pc[r].tx # "none"
      BY <1>8, <2>2, PollRowsGoes DEF Saw
    <3> QED BY <3>1
  <2>3. pc[r].tx # "none"
    BY <1>8, PollRowsGoes
  <2> QED BY <1>8, <2>1, <2>2, <2>3, PollRowsGoes
<1>9. CASE RpcFails(r) BY <1>9 DEF RpcFails, Takes
<1> QED
  BY <1>1, <1>2, <1>3, <1>4, <1>5, <1>6, <1>7, <1>8, <1>9 DEF RunStep

LEMMA RunLedger ==
    ASSUME TypeOK, PlaceInv, SentInv, LedgerInv, NEW r \in Runs, RunStep(r) \/ RpcFails(r)
    PROVE  LedgerInv'
<1>0. Placed(r) /\ ChainInv /\ KnownInv /\ DraftedInv
  BY DEF PlaceInv, LedgerInv
<1>1. \A q \in Runs \ {r} : pc'[q] = pc[q] /\ built'[q] = built[q]
  BY OthersKeep
<1>2. \A q \in Runs : pc[q].tx # "none" => pc'[q].tx # "none"
  BY <1>0, <1>1, RunTouches
<1>3. /\ chain' = chain /\ taken' = taken /\ OnChain' = OnChain
      /\ mempool' = mempool \/ /\ mempool' = mempool \cup {<<r, pc[r].tx>>}
                               /\ <<r, pc[r].tx>> \notin OnChain /\ pc[r].tx # "none"
  BY <1>0, RunTouches DEF OnChain
<1>4. \A tx \in mempool \cup OnChain : tx \in TxIds /\ tx[1] \in Runs
  BY UtxoTyped DEF TypeOK, TxIds
<1>5. KnownInv'
  BY <1>0, <1>2, <1>3, <1>4 DEF KnownInv
<1>6. ASSUME FetchAndBuild(r) PROVE pc[r].tx = "none"
  BY <1>6 DEF FetchAndBuild, At, SentInv
<1>7. \A q \in Runs : pc[q].tx # "none" => built'[q] = built[q]
  BY <1>0, <1>1, <1>6, RunTouches
<1>8. ChainInv'
  <2>1. \A tx \in OnChain : built'[tx[1]] = built[tx[1]]
    BY <1>0, <1>4, <1>7 DEF KnownInv
  <2>2. mempool' \cap OnChain = {}
    BY <1>0, <1>3 DEF ChainInv
  <2> QED BY <1>0, <1>3, <2>1, <2>2, SameChain
<1>9. ASSUME NEW q \in Runs, pc[q].tx # "none" PROVE Drafted(q)'
  <2>1. Drafted(q) /\ built'[q] = built[q]
    BY <1>0, <1>7, <1>9 DEF DraftedInv
  <2> SUFFICES ASSUME NEW kind \in Kinds
               PROVE  /\ Lost(built', <<q, kind>>) \in Fee .. Fee + DustLimit
                      /\ \A op \in built'[q][kind].inputs : op.tx \in TxIds => pc'[op.tx[1]].tx # "none"
    BY DEF Drafted, Inputs, Lost, Worth, Amounts, Made, Output, TxIds
  <2> DEFINE T == built[q][kind].inputs
             tx == <<q, kind>>
  <2>2. Lost(built, <<q, kind>>) \in Fee .. Fee + DustLimit /\ \A op \in T : op.tx \in TxIds => pc[op.tx[1]].tx # "none"
    BY <2>1 DEF Drafted, Inputs
  <2>3. \A op \in T : op.tx \in TxIds => op.tx[1] \in Runs /\ op.tx[2] \in Kinds
    BY DEF TxIds
  <2>4. \A op \in T : op.tx \in TxIds => pc'[op.tx[1]].tx # "none"
    BY <1>2, <2>2, <2>3
  <2>5. T \in SUBSET Outpoints /\ IsFiniteSet(T)
    <3>1. T \in SUBSET Outpoints
      BY DEF TypeOK, Draft
    <3> QED BY <3>1, OutpointsFinite, FS_Subset
  <2>6. \A op \in T : Amounts(built)[op] = Amounts(built')[op]
    <3>1. ASSUME NEW op \in T PROVE Amounts(built)[op] = Amounts(built')[op]
      <4>0. op \in Outpoints
        BY <2>5
      <4>1. CASE op.tx \in TxIds
        <5>1. built'[op.tx[1]] = built[op.tx[1]]
          BY <1>7, <2>2, <2>3, <4>1
        <5> QED BY <4>0, <5>1 DEF Amounts
      <4>2. CASE op.tx \notin TxIds
        <5>1. op.tx \in Coins \cup Foreign
          BY <4>0, <4>2 DEF Outpoints
        <5> QED BY <4>0, <5>1 DEF Amounts
      <4> QED BY <4>1, <4>2
    <3> QED BY <3>1
  <2>7. tx \in TxIds /\ Made(built', tx) = Made(built, tx) /\ Made(built, tx) \in SUBSET Outpoints
    BY <2>1, MadeTyped DEF Made, TxIds
  <2>8. \A op \in Made(built, tx) : Amounts(built)[op] = Amounts(built')[op]
    <3>1. ASSUME NEW op \in Made(built, tx) PROVE Amounts(built)[op] = Amounts(built')[op]
      <4>1. op.tx = tx /\ op \in Outpoints
        BY <2>7 DEF Made, Output
      <4> QED BY <2>1, <4>1 DEF Amounts
    <3> QED BY <3>1
  <2>9. IsFiniteSet(Made(built, tx))
    BY <2>7, OutpointsFinite, FS_Subset
  <2>10. Worth(built', T) = Worth(built, T)
    BY <2>5, <2>6, SumSameValues DEF Worth
  <2>11. Worth(built', Made(built', tx)) = Worth(built, Made(built, tx))
    BY <2>7, <2>8, <2>9, SumSameValues DEF Worth
  <2>12. Lost(built', tx) = Lost(built, tx)
    BY <2>1, <2>10, <2>11 DEF Lost
  <2> QED BY <2>1, <2>2, <2>4, <2>12
<1>10. ASSUME pc[r].tx = "none", pc'[r].tx # "none" PROVE Drafted(r)'
  <2> DEFINE answer == IF OnTarget THEN WalletUtxo ELSE {Coin(c) : c \in Foreign}
             rows == {op \in answer : op.tx \notin Coinbase}
  <2>1. FetchAndBuild(r)
    BY <1>0, <1>10, RunTouches
  <2>2. PICK b \in Built(r, rows) : built' = [built EXCEPT ![r] = b]
    BY <1>10, <2>1, FetchGoes
  <2>3. answer \in SUBSET Outpoints /\ rows \in SUBSET Outpoints
    BY UtxoTyped
  <2>4. \A op \in rows : op.tx \in TxIds => pc[op.tx[1]].tx # "none"
    <3>1. ASSUME NEW op \in WalletUtxo, op.tx \in TxIds PROVE pc[op.tx[1]].tx # "none"
      <4>1. op \in WalletCoins \/ op \in Created(OnChain)
        BY <3>1 DEF WalletUtxo, Utxo, WalletCoins
      <4>2. op \notin WalletCoins
        BY <3>1, CoinAssumption DEF WalletCoins, Coin, Output, TxIds, Kinds
      <4>3. op.tx \in OnChain
        BY <4>1, <4>2, CreatedBy
      <4> QED BY <1>0, <4>3 DEF KnownInv
    <3>2. ASSUME NEW c \in Foreign PROVE Coin(c).tx \notin TxIds
      BY CoinAssumption DEF Coin, Output, TxIds, Kinds
    <3> QED BY <3>1, <3>2
  <2> HIDE DEF rows
  <2>5. \A op \in rows : op.tx \in TxIds => op.tx[1] # r
    BY <1>10, <2>4
  <2>6. \A kind \in Kinds : Lost(built', <<r, kind>>) \in Fee .. Fee + DustLimit
    BY <2>2, <2>3, <2>5, BuiltLoses
  <2>7. \A kind \in Kinds : \A op \in built'[r][kind].inputs :
            op \in rows \/ op.tx = <<r, "lock">>
    BY <2>2, <2>3, BuiltInputs
  <2>8. \A kind \in Kinds : \A op \in built'[r][kind].inputs : op.tx \in TxIds => pc'[op.tx[1]].tx # "none"
    <3>1. ASSUME NEW op \in rows, op.tx \in TxIds PROVE pc'[op.tx[1]].tx # "none"
      <4>1. op.tx[1] \in Runs
        BY <3>1 DEF TxIds
      <4> QED BY <1>2, <2>4, <3>1, <4>1
    <3> QED BY <1>10, <2>7, <3>1
  <2> QED BY <2>6, <2>8 DEF Drafted, Inputs, Lost, Worth, Amounts, Made, Output, TxIds
<1> QED BY <1>5, <1>8, <1>9, <1>10, <1>1 DEF LedgerInv, DraftedInv

-----------------------------------------------------------------------------

LEMMA LedgerInvInit == Init => SentInv /\ LedgerInv
<1> SUFFICES ASSUME Init PROVE SentInv /\ LedgerInv
  OBVIOUS
<1>1. /\ chain = {} /\ mempool = {} /\ taken = {} /\ submitted = {} /\ OnChain = {}
      /\ \A r \in Runs : pc[r] = [tx |-> "none", step |-> "assert"]
  BY DEF Init, OnChain
<1>2. SentInv
  BY <1>1 DEF SentInv
<1>3. KnownInv /\ DraftedInv
  BY <1>1 DEF KnownInv, DraftedInv
<1>4. ChainInv
  BY <1>1 DEF ChainInv, Consumed
<1> QED BY <1>2, <1>3, <1>4 DEF LedgerInv

LEMMA LedgerInvStep == ProofInv /\ SentInv /\ LedgerInv /\ [Next]_vars => LedgerInv'
<1> SUFFICES ASSUME ProofInv, SentInv, LedgerInv, [Next]_vars PROVE LedgerInv'
  OBVIOUS
<1>1. TypeOK /\ PlaceInv
  BY DEF ProofInv
<1>2. CASE NodeStep
  BY <1>1, <1>2, NodeLedger
<1>3. ASSUME NEW r \in Runs, RunStep(r) \/ RpcFails(r) PROVE LedgerInv'
  BY <1>1, <1>3, RunLedger
<1>4. CASE UNCHANGED vars
  <2>1. pc' = pc /\ built' = built /\ chain' = chain /\ mempool' = mempool /\ taken' = taken
    BY <1>4 DEF vars
  <2>2. OnChain' = OnChain /\ WalletCoins' = WalletCoins
    BY <2>1 DEF OnChain, WalletCoins, Coin, Output
  <2>3. KnownInv'
    BY <2>1, <2>2 DEF LedgerInv, KnownInv
  <2>4. DraftedInv'
    BY <2>1 DEF LedgerInv, DraftedInv, Drafted, Inputs, Lost, Worth, Amounts, Made, Output
  <2>5. mempool' \cap OnChain = {}
    BY <2>1 DEF LedgerInv, ChainInv
  <2>6. ChainInv'
    BY <1>1, <2>1, <2>5, SameChain DEF LedgerInv
  <2> QED BY <2>3, <2>4, <2>6 DEF LedgerInv
<1> QED BY <1>2, <1>3, <1>4 DEF Next

\* Whatever the runs, the node, other users of the wallet and the connection do, and
\* however often the chain is undone: what the wallet held at the start is still there,
\* in outputs unspent or spent by its other users, but for one fee and at most the
\* dust of every transaction on the chain.
THEOREM WalletLosesOnlyFeesHolds == Spec => []WalletLosesOnlyFees
<1> DEFINE IInv == ProofInv /\ SentInv /\ LedgerInv
<1>1. Init => IInv
  BY ProofInvInit, LedgerInvInit
<1>2. IInv /\ [Next]_vars => IInv'
  BY ProofInvStep, SentInvStep, LedgerInvStep
<1>3. IInv => WalletLosesOnlyFees
  BY LedgerAddsUp DEF ProofInv
<1> QED
  BY <1>1, <1>2, <1>3, PTL DEF Spec

\* No output is ever spent twice, by two transactions on the chain or by one of them and
\* another user of the wallet, and every spent output is one there was: also after a
\* reorg, which takes back what hangs on what it takes back.
THEOREM OutputsSpentOnce == Spec => []ChainInv
<1> DEFINE IInv == ProofInv /\ SentInv /\ LedgerInv
<1>1. Init => IInv
  BY ProofInvInit, LedgerInvInit
<1>2. IInv /\ [Next]_vars => IInv'
  BY ProofInvStep, SentInvStep, LedgerInvStep
<1>3. IInv => ChainInv
  BY DEF LedgerInv
<1> QED
  BY <1>1, <1>2, <1>3, PTL DEF Spec

===============================================================================
