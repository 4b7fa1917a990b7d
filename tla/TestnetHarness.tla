----------------------------- MODULE TestnetHarness -----------------------------
(***************************************************************************)
(* The live-run harness: one or several runs of deploy_and_execute, each   *)
(* in a process of its own but on one wallet, against a node that is       *)
(* reached by separate RPC calls.  A run fetches the wallet's UTXOs, builds*)
(* a lock and a spend transaction from them, submits the lock, polls until *)
(* its output is deep enough, submits the spend, polls again, and leaves a *)
(* proof.  The node keeps a mempool and a chain which other users of the   *)
(* wallet, evictions, reorgs and connection changes disturb.               *)
(*                                                                         *)
(* Script validity, lock times and mass are not modelled here: a node that *)
(* turns a transaction down for such a reason is a rejection of its own.   *)
(* An operator whose name ends in _Slip is a mistake that could be made in *)
(* the definition after it, for the mutation runs.                         *)
(***************************************************************************)
EXTENDS Integers, FiniteSets, Functions

CONSTANTS
    Runs,           \* runs of the harness
    Broadcasts,     \* sets of runs: those whose config has broadcast set
    Coins,          \* UTXOs of the wallet when the runs start
    Coinbase,       \* those of them that are coinbase outputs
    Foreign,        \* UTXOs that another network holds at the same address
    CoinAmount,     \* the amount of each coin
    LockAmount,     \* amount_sompi
    FundingMargin,  \* 10_000: asked for above the amount, and for the spend
    Fee,            \* the minimum fee of a transaction
    DustLimit,      \* change below it is left to the miner
    FinalityDepth,  \* artifact.finality_depth, 0 when the contract declares none
    PollAttempts,   \* config.poll_attempts
    OtherDaa,       \* virtual DAA score of the other network
    None,           \* Option::None
    MaxDaa,         \* bound: the DAA score stops here
    MaxMoves,       \* bound: times the connection changes network
    MaxFaults       \* bound: RPC errors, rejections, evictions, reorgs, outside spends

ASSUME RunAssumption  == Broadcasts \subseteq SUBSET Runs
ASSUME CoinAssumption ==
    /\ Coins \cap Foreign = {} /\ Coinbase \subseteq Coins
    /\ (Runs \X {"lock", "spend"}) \cap (Coins \cup Foreign) = {}
    /\ CoinAmount \in [Coins \cup Foreign -> Nat]
ASSUME FiniteAssumption == IsFiniteSet(Runs) /\ IsFiniteSet(Coins) /\ IsFiniteSet(Foreign)
ASSUME AmountAssumption ==
    /\ LockAmount \in Nat \ {0} /\ FundingMargin \in Nat /\ DustLimit \in Nat
    /\ Fee \in Nat
ASSUME ScoreAssumption ==
    FinalityDepth \in Nat /\ PollAttempts \in Nat /\ OtherDaa \in Nat /\ None \notin Nat
ASSUME BoundAssumption == MaxDaa \in Nat /\ MaxMoves \in Nat /\ MaxFaults \in Nat

Kinds     == {"lock", "spend"}
TxIds     == Runs \X Kinds
Outpoints == [tx : TxIds \cup Coins \cup Foreign, index : {0, 1}]

VARIABLES
    \* the runs
    broadcast,  \* those that broadcast
    pc,         \* the transaction a run is busy with and the call it makes next
    attempts,   \* polls left in the present wait
    seen,       \* virtual DAA score read by the present poll
    built,      \* inputs the run chose and change it made, per transaction
    observed,   \* DAA score observed for each of its outputs
    outcome,    \* how the run ended
    \* the node
    daa,        \* virtual DAA score
    chain,      \* accepted transactions, each with the score at acceptance
    mempool,    \* transactions waiting
    taken,      \* wallet UTXOs spent by somebody else
    net,        \* the network behind the connection
    \* history
    submitted,  \* transactions the node took from a run
    ever,       \* every acceptance there has been
    moves,      \* changes of network
    faults      \* other disturbances

runVars  == <<broadcast, pc, attempts, seen, built, observed, outcome>>
nodeVars == <<daa, chain, mempool, taken, net>>
past     == <<ever, moves, faults>>
vars     == <<broadcast, pc, attempts, seen, built, observed, outcome, daa, chain, mempool,
              taken, net, submitted, ever, moves, faults>>

Steps == {"assert", "fetch", "submit", "mempool", "info", "target", "rows", "ended"}
Draft == [inputs : SUBSET Outpoints, change : Nat]
Ends  == {"running", "Gated", "Pass", "Rpc", "NetworkMismatch", "InsufficientFunds", "Tx"}

TypeOK ==
    /\ broadcast \in Broadcasts
    /\ pc \in [Runs -> [tx : Kinds \cup {"none"}, step : Steps]]
    /\ attempts \in [Runs -> 0 .. PollAttempts]
    /\ seen \in [Runs -> Nat]
    /\ built \in [Runs -> [Kinds -> Draft]]
    /\ observed \in [Runs -> [Kinds -> Nat \cup {None}]]
    /\ outcome \in [Runs -> Ends]
    /\ daa \in Nat
    /\ chain \subseteq [tx : TxIds, score : Nat] /\ chain \subseteq ever
    /\ mempool \subseteq TxIds
    /\ taken \subseteq Outpoints
    /\ net \in {"target", "other"}
    /\ submitted \subseteq TxIds
    /\ ever \subseteq [tx : TxIds, score : Nat]
    /\ moves \in 0 .. MaxMoves /\ faults \in 0 .. MaxFaults

-----------------------------------------------------------------------------
(* The chain.                                                              *)

Output(tx, index) == [tx |-> tx, index |-> index]
Coin(c)           == Output(c, 0)
LockedOutput(r)   == Output(<<r, "lock">>, 0)

Change(tx) == built[tx[1]][tx[2]].change
Inputs(tx) == built[tx[1]][tx[2]].inputs

Created(txs) ==
    {Output(tx, 0) : tx \in txs} \cup {Output(tx, 1) : tx \in {t \in txs : Change(t) > 0}}

Consumed(txs) == UNION {Inputs(tx) : tx \in txs}

OnChain == {a.tx : a \in chain}

Utxo == ({Coin(c) : c \in Coins} \cup Created(OnChain)) \ (Consumed(OnChain) \cup taken)

\* What the wallet's address holds: all but the contracts' outputs.
WalletUtxo == Utxo \ {LockedOutput(r) : r \in Runs}

Amount(op) ==
    IF op.tx \in Coins \cup Foreign THEN CoinAmount[op.tx]
    ELSE IF op.index = 0 THEN LockAmount
    ELSE Change(op.tx)

\* A transaction and all that spend its outputs, through others or directly.
ClosedUnder(S, txs) ==
    \A t \in txs, s \in S : (\E i \in {0, 1} : Output(s, i) \in Inputs(t)) => t \in S

Dependents(tx, txs) ==
    {t \in txs : \A S \in SUBSET txs : tx \in S /\ ClosedUnder(S, txs) => t \in S}

\* A node without a parent of a transaction, or with another spender of one of
\* its inputs, does not take it (allow_orphan is false).
Takes(tx) ==
    /\ Inputs(tx) \subseteq (Utxo \cup Created(mempool)) \ Consumed(mempool)
    /\ tx \notin mempool \cup OnChain

Tick ==
    /\ daa < MaxDaa
    /\ daa' = daa + 1
    /\ UNCHANGED <<runVars, chain, mempool, taken, net, submitted, past>>

AcceptTx(tx) ==
    /\ tx \in mempool
    /\ Inputs(tx) \subseteq Utxo
    /\ mempool' = mempool \ {tx}
    /\ chain' = chain \cup {[tx |-> tx, score |-> daa]}
    /\ ever' = ever \cup {[tx |-> tx, score |-> daa]}
    /\ UNCHANGED <<runVars, daa, taken, net, submitted, moves, faults>>

Fault == faults < MaxFaults /\ faults' = faults + 1

\* The mempool drops a transaction and what hangs on it.
Evict(tx) ==
    /\ tx \in mempool
    /\ mempool' = mempool \ Dependents(tx, mempool)
    /\ Fault
    /\ UNCHANGED <<runVars, daa, chain, taken, net, submitted, ever, moves>>

\* The DAG reverses an acceptance; the transactions concerned wait again.
Reorg(tx) ==
    LET undone == Dependents(tx, OnChain) IN
        /\ tx \in OnChain
        /\ chain' = {a \in chain : a.tx \notin undone}
        /\ mempool' = mempool \cup undone
        /\ taken' = {op \in taken : op.tx \notin undone}
        /\ Fault
        /\ UNCHANGED <<runVars, daa, net, submitted, ever, moves>>

\* Another user of the wallet's key spends a UTXO no waiting transaction spends.
SpendElsewhere(op) ==
    /\ op \in WalletUtxo \ Consumed(mempool)
    /\ taken' = taken \cup {op}
    /\ Fault
    /\ UNCHANGED <<runVars, daa, chain, mempool, net, submitted, ever, moves>>

MoveConnection ==
    /\ moves < MaxMoves
    /\ moves' = moves + 1
    /\ net' = IF net = "target" THEN "other" ELSE "target"
    /\ UNCHANGED <<runVars, daa, chain, mempool, taken, submitted, ever, faults>>

-----------------------------------------------------------------------------
(* Building: build_contract_run, on the UTXOs fetched.                     *)

Total(value, T) == SumFunctionOnSet(value, T)

\* The largest first, until the minimum is reached.
SelectFunding(value, S, minimum) ==
    {T \in SUBSET S :
        /\ Total(value, T) >= minimum
        /\ \A x \in T, y \in S \ T : value[x] >= value[y]
        /\ \E x \in T : /\ \A y \in T : value[x] <= value[y]
                        /\ Total(value, T \ {x}) < minimum}

\* The change is worked out and no output is made of it.
Drafts_Slip(inputs, rest) ==
    IF rest < Fee THEN {} ELSE {[inputs |-> inputs, change |-> 0]}

\* Inputs and change of a transaction that leaves `rest`, a u64, for fee and change.
Drafts(inputs, rest) ==
    IF rest \notin Nat \/ rest < Fee THEN {}
    ELSE {[inputs |-> inputs, change |-> IF rest - Fee >= DustLimit THEN rest - Fee ELSE 0]}

LockDrafts(rows) ==
    LET value == [op \in rows |-> Amount(op)] IN
        UNION {Drafts(T, Total(value, T) - LockAmount) :
                  T \in SelectFunding(value, rows, LockAmount + FundingMargin)}

\* The lock's inputs fund the spend a second time.
FeeFunding_Slip(r, rows, lock) ==
    rows \cup (IF lock.change > 0 THEN {Output(<<r, "lock">>, 1)} ELSE {})

\* What the lock leaves of the rows, and its own change.
FeeFunding(r, rows, lock) ==
    (rows \ lock.inputs) \cup
    (IF lock.change > 0 THEN {Output(<<r, "lock">>, 1)} ELSE {})

SpendDrafts(r, rows, lock) ==
    LET funding == FeeFunding(r, rows, lock)
        value   == [op \in funding |->
                       IF op.tx = <<r, "lock">> THEN lock.change ELSE Amount(op)]
    IN  UNION {Drafts(T \cup {LockedOutput(r)}, Total(value, T)) :
                  T \in SelectFunding(value, funding, FundingMargin)}

Built(r, rows) ==
    UNION {{[lock |-> lock, spend |-> spend] : spend \in SpendDrafts(r, rows, lock)} :
              lock \in LockDrafts(rows)}

-----------------------------------------------------------------------------
(* A run of deploy_and_execute, one RPC call per step.                     *)

At(r, step) == pc[r].step = step

Goto(r, tx, step) == pc' = [pc EXCEPT ![r] = [tx |-> tx, step |-> step]]

Continue(r, step) == Goto(r, pc[r].tx, step)

End(r, how) ==
    /\ Goto(r, pc[r].tx, "ended")
    /\ outcome' = [outcome EXCEPT ![r] = how]

\* Nothing that fails after the lock counts.
Observing_Slip(r) == pc[r].tx = "spend"

\* The wait for the spend's output is best effort: whatever ends it, the run
\* passes.
Observing(r) == pc[r].tx = "spend" /\ pc[r].step \in {"info", "target", "rows"}

Fail(r, error) == End(r, IF Observing(r) THEN "Pass" ELSE error)

OnTarget == net = "target"

\* assert_target, before the wallet's UTXOs are fetched and before a submission.
AssertTarget(r) ==
    /\ At(r, "assert")
    /\ IF OnTarget
       THEN Continue(r, IF pc[r].tx = "none" THEN "fetch" ELSE "submit") /\ UNCHANGED outcome
       ELSE Fail(r, "NetworkMismatch")
    /\ UNCHANGED <<attempts, seen, built, observed, nodeVars, broadcast, submitted, past>>

\* get_utxos_by_addresses, and all that is built from its answer.
FetchAndBuild(r) ==
    LET answer == IF OnTarget THEN WalletUtxo ELSE {Coin(c) : c \in Foreign}
        rows   == {op \in answer : op.tx \notin Coinbase}
    IN  /\ At(r, "fetch")
        /\ \/ /\ Built(r, rows) = {}
              /\ Fail(r, "InsufficientFunds")
              /\ UNCHANGED built
           \/ /\ \E b \in Built(r, rows) : built' = [built EXCEPT ![r] = b]
              /\ IF r \in broadcast
                 THEN Goto(r, "lock", "assert") /\ UNCHANGED outcome
                 ELSE End(r, "Gated")
        /\ UNCHANGED <<attempts, seen, observed, nodeVars, broadcast, submitted, past>>

\* submit_transaction: the node takes it or answers with an error.
Submit(r) ==
    LET tx == <<r, pc[r].tx>> IN
        /\ At(r, "submit")
        /\ IF OnTarget /\ Takes(tx)
           THEN /\ mempool' = mempool \cup {tx}
                /\ submitted' = submitted \cup {tx}
                /\ Continue(r, "mempool")
                /\ attempts' = [attempts EXCEPT ![r] = PollAttempts]
                /\ UNCHANGED outcome
           ELSE /\ Fail(r, "Rpc")
                /\ UNCHANGED <<mempool, submitted, attempts>>
        /\ UNCHANGED <<seen, built, observed, daa, chain, taken, net, broadcast, past>>

\* One poll of wait_for_mempool, whose status nobody looks at.  A transaction that
\* has already been accepted is no longer in the mempool and is not found.
PollMempool(r) ==
    /\ At(r, "mempool")
    /\ attempts[r] > 0 /\ <<r, pc[r].tx>> \notin mempool
    /\ IF OnTarget
       THEN attempts' = [attempts EXCEPT ![r] = @ - 1] /\ UNCHANGED <<pc, outcome>>
       ELSE Fail(r, "NetworkMismatch") /\ UNCHANGED attempts
    /\ UNCHANGED <<seen, built, observed, nodeVars, broadcast, submitted, past>>

LeaveMempool(r) ==
    /\ At(r, "mempool")
    /\ attempts[r] = 0 \/ <<r, pc[r].tx>> \in mempool
    /\ IF OnTarget \/ attempts[r] = 0
       THEN /\ Continue(r, "info")
            /\ attempts' = [attempts EXCEPT ![r] = PollAttempts]
            /\ UNCHANGED outcome
       ELSE Fail(r, "NetworkMismatch") /\ UNCHANGED attempts
    /\ UNCHANGED <<seen, built, observed, nodeVars, broadcast, submitted, past>>

\* The wait does not end when the attempts do.
PollInfo_Slip(r) ==
    /\ At(r, "info")
    /\ Continue(r, "target")
    /\ seen' = [seen EXCEPT ![r] = IF OnTarget THEN daa ELSE OtherDaa]
    /\ UNCHANGED <<attempts, built, observed, outcome, nodeVars, broadcast, submitted, past>>

\* wait_for_indexed_output: network_info, whose network it does not check.
PollInfo(r) ==
    /\ At(r, "info")
    /\ IF attempts[r] = 0
       THEN Fail(r, "Tx") /\ UNCHANGED seen
       ELSE /\ Continue(r, "target")
            /\ seen' = [seen EXCEPT ![r] = IF OnTarget THEN daa ELSE OtherDaa]
            /\ UNCHANGED outcome
    /\ UNCHANGED <<attempts, built, observed, nodeVars, broadcast, submitted, past>>

PollTarget(r) ==
    /\ At(r, "target")
    /\ IF OnTarget
       THEN Continue(r, "rows") /\ UNCHANGED outcome
       ELSE Fail(r, "NetworkMismatch")
    /\ UNCHANGED <<attempts, seen, built, observed, nodeVars, broadcast, submitted, past>>

\* saturating_sub, then one more: the block of the output counts itself.
Depth(virtual, score) == (IF virtual > score THEN virtual - score ELSE 0) + 1

\* The depth is asked of the wrong output.
DepthRequired_Slip(kind) == IF kind = "spend" THEN FinalityDepth ELSE 0

DepthRequired(kind) == IF kind = "lock" THEN FinalityDepth ELSE 0

\* Scores of the acceptances of `tx` that show its output 0 unspent.
ScoresShown(tx) ==
    {a.score : a \in {a \in chain : a.tx = tx /\ OnTarget /\ Output(tx, 0) \in Utxo}}

\* A poll that finds nothing is not counted.
PollRows_Slip(r) ==
    LET kind == pc[r].tx
        deep == {score \in ScoresShown(<<r, kind>>) :
                    Depth(seen[r], score) >= DepthRequired(kind)}
    IN  /\ At(r, "rows")
        /\ \/ deep = {} /\ Continue(r, "info") /\ UNCHANGED <<observed, outcome>>
           \/ \E score \in deep :
              /\ observed' = [observed EXCEPT ![r][kind] = score]
              /\ IF kind = "lock"
                 THEN Goto(r, "spend", "assert") /\ UNCHANGED outcome
                 ELSE End(r, "Pass")
        /\ UNCHANGED <<attempts, seen, built, nodeVars, broadcast, submitted, past>>

\* The output, as the index shows it, measured against the score read before.
PollRows(r) ==
    LET kind == pc[r].tx
        deep == {score \in ScoresShown(<<r, kind>>) :
                    Depth(seen[r], score) >= DepthRequired(kind)}
    IN  /\ At(r, "rows")
        /\ \/ /\ deep = {}
              /\ attempts' = [attempts EXCEPT ![r] = @ - 1]
              /\ Continue(r, "info")
              /\ UNCHANGED <<observed, outcome>>
           \/ \E score \in deep :
              /\ observed' = [observed EXCEPT ![r][kind] = score]
              /\ IF kind = "lock"
                 THEN Goto(r, "spend", "assert") /\ UNCHANGED outcome
                 ELSE End(r, "Pass")
              /\ UNCHANGED attempts
        /\ UNCHANGED <<seen, built, nodeVars, broadcast, submitted, past>>

\* Any call may fail.  A submission may fail after the node took the transaction,
\* or because the node turns it down for reasons of its own; an error from
\* get_mempool_entry counts as one more poll.
RpcFails(r) ==
    LET tx == <<r, pc[r].tx>> IN
        /\ ~At(r, "ended")
        /\ Fail(r, "Rpc")
        /\ \/ UNCHANGED mempool
           \/ /\ At(r, "submit") /\ OnTarget /\ Takes(tx)
              /\ mempool' = mempool \cup {tx}
        /\ Fault
        /\ UNCHANGED <<attempts, seen, built, observed, daa, chain, taken, net, broadcast,
                       submitted, ever, moves>>

-----------------------------------------------------------------------------

Init ==
    /\ broadcast \in Broadcasts
    /\ pc = [r \in Runs |-> [tx |-> "none", step |-> "assert"]]
    /\ attempts = [r \in Runs |-> 0]
    /\ seen = [r \in Runs |-> 0]
    /\ built = [r \in Runs |-> [kind \in Kinds |-> [inputs |-> {}, change |-> 0]]]
    /\ observed = [r \in Runs |-> [kind \in Kinds |-> None]]
    /\ outcome = [r \in Runs |-> "running"]
    /\ daa = 0
    /\ chain = {} /\ mempool = {} /\ taken = {}
    /\ net = "target"
    /\ submitted = {} /\ ever = {}
    /\ moves = 0 /\ faults = 0

RunStep(r) ==
    \/ AssertTarget(r)
    \/ FetchAndBuild(r)
    \/ Submit(r)
    \/ PollMempool(r)
    \/ LeaveMempool(r)
    \/ PollInfo(r)
    \/ PollTarget(r)
    \/ PollRows(r)

NodeStep ==
    \/ Tick
    \/ \E tx \in TxIds : AcceptTx(tx) \/ Evict(tx) \/ Reorg(tx)
    \/ \E op \in WalletUtxo : SpendElsewhere(op)
    \/ MoveConnection

Next == NodeStep \/ \E r \in Runs : RunStep(r) \/ RpcFails(r)

Spec == Init /\ [][Next]_vars

-----------------------------------------------------------------------------
(* Safety.                                                                 *)

\* TestnetProof: only a run that returns Ok leaves one.
HasProof(r) == outcome[r] \in {"Gated", "Pass"}

\* What a pass claims is true: the lock was accepted at the score it names, the
\* node took the spend, and a score named for the spend is one it was accepted at.
\* A gated run touched nothing.
ProofIsTrue ==
    \A r \in Runs :
        /\ outcome[r] = "Pass" =>
             /\ [tx |-> <<r, "lock">>, score |-> observed[r].lock] \in ever
             /\ <<r, "spend">> \in submitted
             /\ observed[r].spend # None =>
                  [tx |-> <<r, "spend">>, score |-> observed[r].spend] \in ever
        /\ outcome[r] = "Gated" => \A kind \in Kinds : <<r, kind>> \notin mempool \cup OnChain

\* The spend is not begun before the lock's output has the depth the contract
\* declares, on the chain as it is then, although the virtual score is read in
\* another call than the output: only a connection that moves to another network
\* and back within one poll can make an output look deeper than it is.
WaitsForFinality ==
    [][\A r \in Runs :
          pc[r].tx = "lock" /\ pc'[r].tx = "spend" =>
             \/ moves >= 2
             \/ \E a \in chain :
                   /\ a.tx = <<r, "lock">>
                   /\ daa - a.score + 1 >= FinalityDepth]_vars

\* A run that nothing disturbs, and that has the wallet to itself, ends in nothing
\* worse than a wait that took too long or a wallet too poor: what it built from
\* one snapshot, spend after lock, the node takes.
UndisturbedRunsPass ==
    \A r \in Runs :
        outcome[r] \in {"Rpc", "NetworkMismatch"} =>
            \/ moves > 0 \/ faults > 0
            \/ \E other \in Runs \ {r} : <<other, "lock">> \in submitted

\* No two transactions ever compete for one output on the node, and what the
\* wallet and the contracts hold is short by the fees and the dust at most.
WalletLosesOnlyFees ==
    LET value(S) == SumFunctionOnSet([op \in S |-> Amount(op)], S)
        start    == {Coin(c) : c \in Coins}
    IN  value(start) - value(Utxo) - value(taken) \in
            Cardinality(OnChain) * Fee .. Cardinality(OnChain) * (Fee + DustLimit)

\* What the documentation of the proof's fields leads to expect: once the node has
\* taken a lock, the run's end leaves a record of its transaction id.
LockIsOnRecord ==
    \A r \in Runs :
        <<r, "lock">> \in submitted /\ outcome[r] # "running" => HasProof(r)

-----------------------------------------------------------------------------
(* Liveness.                                                               *)

\* Every RPC call of a run returns, sooner or later.
FairSpec == Spec /\ \A r \in Runs : WF_vars(RunStep(r))

\* Every run ends, whatever the chain and the connection do: the waits are bounded.
EveryRunEnds == \A r \in Runs : <>(outcome[r] # "running")

=============================================================================
