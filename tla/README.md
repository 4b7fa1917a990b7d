# KaspaScript in TLA+

TLA+ modules, TLC configurations and TLAPS proofs for KaspaScript: the escrow
it ships for Kaspa's TN10 testnet, the builder of native transactions beside it,
the harness that runs a compiled contract against a live node, the compiler that
turns the text of a `.ks` program into a Kaspa script, and the kernel that
packages it for wallets. Source paths below are relative to the repository root, with
`src/` in `PROJECT.json` standing for that root.

```
tlc -workers 2 -config EscrowAgreement.cfg MCBuyerSellerEscrow.tla   # any run of the table below
tlapm BuyerSellerEscrowProofs.tla                                     # the proofs, and
tlapm Foundations.tla
tlapm TestnetHarnessProofs.tla
tlapm BuildersProofs.tla
tlapm KernelReadinessProofs.tla
tlapm Recursion.tla
tlapm SpendScriptProofs.tla
tlapm SpendPathProofs.tla
```

`PROJECT.json` maps every definition that models code to the lines it stands
for, lists the runs, the mutants (for each property a plausible slip in the
code that makes TLC find it violated; in the modules those are the operators
whose name ends in `_Slip`), the hazards and the theorems.

## 1. Inventory

### The parts

| Part | Source | State | Operations |
|---|---|---|---|
| Two-party escrow | `compatibility/toccata-v2/src/escrow.rs`, `contracts/buyer_seller_escrow.ks`, `examples/escrow.rs` | none between runs; an `EscrowObservation` and unsigned plans within one | `BuyerSellerEscrow::new`, `unsigned_spend`, `signature_script`, `observe` (four RPC calls), `EscrowObservation::unsigned_spend` |
| Native TN10 plan builder | `compatibility/toccata-v2/src/lib.rs` | none | `Tn10Plan::build`, `validate_scripts` |
| Live-run harness | `sdk/src/testnet.rs` | locals of one `deploy_and_execute`; the node's mempool and chain behind RPC | funding choice, fee loop, lock and spend construction, submission, polling, proof |
| SDK transaction builder | `sdk/src/lib.rs` | none | `build_spend_tx`, artifact and finality checks |
| SDK Toccata requests | `sdk/src/toccata.rs` | none | ordered validation of covenant requests |
| Lexer and parser | `compiler/lexer`, `compiler/parser` | cursor over the text | tokens, precedence climbing, spans |
| Semantic checker | `compiler/semantic` | scope stack, covenant shape facts | types, duplicates, `require`, continuation names |
| Lowering to IR | `compiler/ir/src/gen.rs` | instruction list, symbols | statements and expressions to stack instructions |
| Application model | `compiler/ir/src/application.rs`, `compiler/model` | model under construction | states, transitions, readiness |
| Code generation | `compiler/codegen/src/lib.rs`, `backends/toccata.rs` | byte buffer | opcodes, script numbers, pushes, artifact |
| Source grounding | `compiler/codegen/src/grounding.rs` | none | verified / gated / unsupported per target |
| Protocol targets | `compiler/protocol` | none | manifests, requirements, emission gates |
| Programmability kernel | `kernel/src/lib.rs`, packaging in `sdk/src/lib.rs` | blueprint under construction | evidence ranks, readiness report, capability profile, previews, fee policy |
| Command line | `cli/src/main.rs` | none | argument parsing, files, printing |

### How they interact

The CLI drives everything: it hands text to lexer, parser, checker, lowering and
code generation, which form a pipeline of pure functions, and gates the result
through protocol targets and grounding. The artifact that comes out is a file.
The SDK builder, the Toccata requests and the harness take artifacts; the
harness alone talks to a node, through one RPC call after the other. The escrow
is a workspace of its own on a later node version. Its tool observes a node,
plans unsigned transactions and hands them to *other programs*: the wallets of
buyer and seller sign, and somebody submits. Between any two RPC calls, and
between plan, signature and submission, the chain moves on, a load-balanced
connection may reach another node, and the DAG may reverse what it accepted.

### What is hard, and what makes each part correct

*Escrow.* Money of two parties who do not trust each other. Hard: plans from
stale observations; a connection that changes node between reads; release and
refund racing after the deadline; signatures that could be used for another
transaction or path; lock times that mean either a DAA score or a timestamp, and
do not count with a final sequence; amounts the fee cap swallows; reorgs.
Correct: money leaves an outpoint only for a party entitled to it, with the
signatures that path asks for, at most the agreed fee short, no refund before
the deadline; the buyer can always recover the money after it; the tool never
plans what the script refuses.

*Live-run harness.* Hard: every fact comes from a separate RPC call and may be
stale when used; lock and spend are both built from one snapshot, the spend on
change that does not exist yet; another run on the same wallet; evictions,
reorgs, lost answers, timeouts; ten-round fee loop. Correct: a proof says only
what happened; the spend waits for the declared depth; an undisturbed run
passes; every run ends; a transaction pays the fee its mass asks for.

*Plan builder, SDK builders.* Sums that overflow, duplicate inputs, fees that do
not match, the order of checks. Correct: what is accepted conserves value and
every refusal comes before anything is built.

*Compiler.* The stack discipline of lowering (a `let` leaves both value and
symbol; arguments wait at the bottom of the stack, whatever the source does
first), script numbers whose top bit needs a further byte, push forms that
change at 75, 255 and 65535 bytes, an emission gate that must hold for every
instruction. Correct: the script accepts exactly the spends the source program
accepts, and nothing ungrounded is emitted.

*Kernel.* A blueprint can be changed and packaged again; readiness, over all
requirement lines, and the capability profile, by feature, may disagree; what network
a package claims hangs on its target's name. Correct: readiness is monotone in the evidence, says no more than it, and
a preview tells a wallet about the path it names.

`PROJECT.json` lists every hazard at its line, with the properties that would
catch it, or a note where no module covers it yet.

## 2. Plan

| # | Module | Models | State |
|---|---|---|---|
| 1 | `EscrowPromise` | abstract: what an escrow promises | done |
| 2 | `EscrowRules`, `BuyerSellerEscrow` | builder, script, node, tool, wallets | done |
| 3 | `BuyerSellerEscrowProofs` | types, safety of settlements, plans, the recheck | done |
| 4 | `TestnetHarness` | `deploy_and_execute`, one or several runs | done |
| 5 | `FeeLoop` | the fee and change loop of both builders | done |
| 6 | `NativePlan` | `Tn10Plan::build`, `validate_scripts`, and what callers and a node make of it | done |
| 7 | `ScriptBytes` | numbers, pushes and opcodes to bytes, and `verify_artifact` back | done |
| 8 | `SpendLanguage`, `SpendCompiler` | syntax trees, checker, application model and source semantics; lowering, target gate, encoding | done |
| 9 | `ScriptEngine`, `SpendPath` | the script machine; a contract from its source to a spend on chain | done |
| 10 | `SourceLexer`, `SourceParser`, `SourcePath` | text to tokens to tree, a printer as their reference, and `SpendPath` from the text on | done |
| 11 | `KernelReadiness` | evidence, readiness, capabilities, previews, packaging, fee policy | done |
| 12 | `LiveRun` | composes `TestnetHarness` with `SpendPath`'s scripts and lock times | later |
| P1 | `TestnetHarnessProofs` | types, `ProofIsTrue`, `WaitsForFinality`, `UndisturbedRunsPass` | done |
| P2 | `BuyerSellerEscrowProofs` | each step of the escrow is a step or stutter of `EscrowPromise` | done |
| P3 | `KernelReadinessProofs` | types, `EvidenceNeverHurts`, `CapabilitiesAgree`, `PostureByTarget` | done |
| P4 | `Foundations` | induction over numbers and over finite sets, sums over finite sets, and facts about sequences | done |
| P5 | `TestnetHarnessProofs` | `WalletLosesOnlyFees`; no output is spent twice | done |
| P6 | `BuildersProofs` | native plans: types, `FeeIsAsPlanned`, `ValidatedIsTaken` | done |
| P7 | `BuildersProofs` | fee loop: types, `SettlesInTime`, `PaysMinimumFee` | done |
| P8 | `BuildersProofs` | script bytes: `ReadBack`, `NumbersAreKept` | done |
| P9 | `Recursion`, `SpendScriptProofs` | functions that recurse over trees; the compiler's scripts are well formed (`TypeOK`) | done |
| P10 | `SpendScriptProofs`, `SpendPathProofs` | what the code of an expression leaves on the stack; `ScriptIsSound`, `SignersAreNeeded`, `ModelIsTrue` | done |

`FeeLoop`, `NativePlan` and `ScriptBytes` share one run: `MCBuilders` lets a
behaviour of one go on only from a chosen end of the first, so that all
behaviours of each are explored and no product of them.

## 3. The escrow

### Modules

`EscrowRules` holds the pure part, as operators: `TermsAccepted`
(`BuyerSellerEscrow::new`), `UtxoUsable`, `FeeUsable`, `SpendAccepted` and
`UnsignedSpend` (`unsigned_spend`), `SignatureScriptAccepted`
(`signature_script`), the two branches of the redeem script (`ReleaseBranch`,
`RefundBranch`, translated from the contract), the node's finality and value
rules, and the gate `ValidateNode`.

`BuyerSellerEscrow` is the state machine:

| Variable | Stands for |
|---|---|
| `terms`, `daa`, `funded`, `accepted`, `reorgs` | the escrow's terms, and the DAG: virtual DAA score, outpoints at the address, accepted spends |
| `node`, `switches` | what the node behind the connection reports of itself |
| `obs`, `history` | the observation under way or the last one kept; history of it for the properties only |
| `plans`, `sigs` | unsigned transactions handed out, signatures that exist |

`observe` is one action per RPC call (`ObserveServerInfo`, `ObserveUtxos`,
`ObserveFeeEstimate`, `ObserveRecheck`), any of which may be the last
(`ObserveFails`: RPC error, failed gate, the example's 15 s timeout).
`PlanObserved` and `PlanOffline` are the two ways to a plan, wallets sign plans
(`SignPlanned`) or something else (`SignUnprompted`: the hand-built transactions
of `tests/escrow.rs`, and loose hash types), and `AcceptSpend` lets anybody try
any known transaction with any path and any existing signatures. `Tick`, `Fund`,
`Reorg`, `SwitchNode` and `Reconnect` are the environment.

`EscrowPromise` says the same with no transactions, scripts or signatures:
money is locked, agreed upon, released or refunded once. `PromiseKept` is the
refinement `Promise!Spec` under the mapping at the end of `BuyerSellerEscrow`.

### What is abstracted

The tool is stateless and plans can be signed at any later time, so one tool
that runs again and again makes every set of plans several tools would. A UTXO
entry is a function of its outpoint: a node that misreports an amount is not
represented (the signature hash commits to the amount, such a plan is merely
unspendable). Nodes that fail the gate answer with any row set the
configuration lists, absent and repeated rows among them. Witnesses are those
`signature_script` encodes; scripts assembled by hand around it, with a loose
signature, are outside. Lock times that are timestamps are taken as already
past, the worst case. Mass, fee estimates, address formatting and the JSON
report are left out; the compute budget is kept only as zero or not. That a
provider may change away and back unnoticed within one observation is a limit
the repository documents (`docs/BUYER_SELLER_ESCROW.md:95`); the model keeps it,
and `RecheckCatchesOneMove` says exactly how far the recheck reaches.

### Runs

| Run | Shows | Bounds |
|---|---|---|
| `EscrowAgreement` | whatever two wallets sign, planned or by hand: `PaidByAgreement`, `NoEarlyRefund`, `FeeWithinCap`, `PromiseKept`, `TypeOK` | one outpoint, two keys, DAA scores to 2 with the deadline at 1, one reorg, two plans, two unprompted signatures, nine hand-built transactions |
| `EscrowFunding` | outpoints of every kind: `PlansAreSpendable` (what the tool builds, the script takes) and its converse `ToolDoesAsWell` (what the script takes, the tool would have built, as early and for the same money) | six outpoints (the least and the most that can be spent, at the cap, beyond i64, covenant, coinbase), one foreign; one plan, one signature on a hand-built refund of any of them |
| `EscrowObserve` | four reads over a moving connection: `RecheckCatchesOneMove`, `PlansAreSpendable` | four kinds of node, two moves |
| `EscrowRecovery` | liveness: `MoneyLeaves` | one reorg, one move to a bad node |

Why the bounds are enough: the score needs three values (before, at, after the
deadline); a lock time needs one value on either side of
`LockTimeThreshold` = 5; the cap, 2, needs the amount at it and the next one;
`I64Max` = 12 needs itself and the next one. Settlement is per outpoint and spends
of different outpoints share nothing but terms and signatures, which
`EscrowFunding` has six outpoints for. A race for an outpoint needs two plans and three
signatures; two unprompted signatures are enough for a release signed loosely by both.
The terms offered include every kind `new` refuses. No key but the two parties' is
needed: a signature by a stranger opens no branch. The runs end where the
bounds do, so deadlock is not checked.

### Fairness

`MoneyLeaves` assumes that the DAA score advances, that a failing connection is
replaced, and that the buyer keeps at it: runs the tool, asks for a refund plan,
signs, submits. The code has no scheduler (`docs/BUYER_SELLER_ESCROW.md:24`: no
hosted service), so this is an assumption about the buyer, not about the code,
and nothing is assumed of the seller. Observation and planning get strong
fairness because a new run or a provider change may interrupt them again and
again; without it a buyer whose every observation is cut off is no
counterexample against the code.

### Proofs

`BuyerSellerEscrowProofs` proves, for all keys, outpoints, terms, nodes, hand-built
transactions and bounds that satisfy the named assumptions of the modules:

| Theorem | States |
|---|---|
| `TypeCorrect` | `Spec => []TypeOK` |
| `PaidByAgreementHolds` | money leaves only for an entitled party, on exactly the required signatures |
| `NoEarlyRefundHolds` | no refund at a score that has not passed the deadline |
| `FeeWithinCapHolds` | the recipient is short by at most the cap |
| `ToolDoesAsWellHolds` | whatever spend of a plain outpoint is accepted, with some fee, the tool would have built: same payee, same amount, final at the same score |
| `PlansAreSpendableHolds` | whatever the tool plans, the script accepts once signed; an observed plan is final |
| `RecheckCatchesOneMoveHolds` | untrusted rows are kept only after two moves within one observation |

Argument. The first four safety properties speak of `accepted`, and none is
inductive: what makes an acceptance legitimate is what held when it happened.
`SettlementInv` = `TypeOK` ∧ `TermsAccepted(terms)` ∧ `FundedOurs` ∧ `AcceptedSettle`
records it: every acceptance `Settles` its outpoint, which conjoins the signatures, the
payee, the score, the shape and the amounts. `ToolDoesAsWell` is read off it: the
amounts that settle pass the builder's guards, and a refund that settled is past the
deadline, where the lock time the tool gives is final. `TermsAccepted` is needed because
the lock-time opcode compares like with like: only a deadline below the
threshold rules out a timestamp lock time. `AcceptSettles` derives `Settles`
from script and node rules, by way of `WitnessSigned` (an encodable witness that
opens a branch is made of `SIGHASH_ALL` signatures on that very transaction);
`StepFrame` shows that terms and signatures are only ever added to, so that
`Settles` lasts. `PlansInv` adds where plans come from (`PlanBuilt`), that an
observed refund is past its deadline (`PlanDue`), and that no observation is
ahead of the chain, which is what makes the comparison with a stale score safe.

`RecheckInv` follows the node through the four reads: until the connection has moved
the node is one that passed, and if untrusted rows came after a single move the node
that fails the gate is still there when the recheck asks.

Its last section proves the refinement, `PromiseKeptHolds`: `Spec => PromiseKept`.
To `SettlementInv` it adds `OneEach` (money is spent where it was funded, and no
outpoint twice at a time), without which the mapping is not even well defined: the
outcome and the payment of an outpoint are read off *the* acceptance that spent it.
The mapping is restated as a function of what it is worked out from (`OutcomeIn`,
`PaidIn`, `Agreed`), so that one lemma each says what one acceptance more, one less,
one outpoint more and one signature more do to it (`OneMore`, `OneLess`, `OneFunded`,
`OneSigned`). Then every action has its step of the promise: `Tick` `Advance`, `Fund`
`Lock`, an acceptance `Release` or `Refund` by who is paid, `Reorg` `Revert`, a whole
signature on an outpoint of TN10 `Agree`; the rest stutters.

Model-checked only: `MoneyLeaves` (liveness is beyond the installed prover, as are
`ENABLED` and induction over data).

## 4. The live-run harness

`TestnetHarness` models `deploy_and_execute` with one step per RPC call; the
program counter of a run is the transaction it is busy with (none, lock, spend)
and the call it makes next.

| Action | Code |
|---|---|
| `AssertTarget` | `assert_target` before the fetch and before each submission (consecutive calls are one step) |
| `FetchAndBuild` | `get_utxos_by_addresses`, coinbase filter, `select_funding`, lock and spend built from that one snapshot |
| `Submit` | `submit_transaction` with `allow_orphan` false |
| `PollMempool`, `LeaveMempool` | `wait_for_mempool`, whose status is ignored |
| `PollInfo`, `PollTarget`, `PollRows` | one poll of `wait_for_indexed_output`: virtual score, network, rows |
| `RpcFails` | an error from any call, or a submission whose answer is lost |

The wait for the spend's output is wrapped in `.ok()`: whatever ends it, the run
passes, and the proof names no score (`Observing`, `Fail`). The node is
external: a mempool, a chain, `AcceptTx`, `Evict`, `Reorg` (what is undone waits
again), `SpendElsewhere`, `MoveConnection`.

Abstracted: the fee is a constant (`FeeLoop` models how it is found); script
validity, lock times and mass rejections are faults of the node; a transaction
id is per run (identical reruns would have identical ids); rows come from the
confirmed index only. Instantiation, signing and script
validation are `SpendPath`'s (section 5).

| Run | Shows | Bounds |
|---|---|---|
| `HarnessRun` | `ProofIsTrue`, `WaitsForFinality`, `UndisturbedRunsPass`, `WalletLosesOnlyFees`, `TypeOK`; liveness: `EveryRunEnds` | one run, broadcasting or dry, two polls per wait, depth 2, scores to 3, two network changes, two faults |
| `HarnessShared` | two runs on one wallet: `ProofIsTrue`, `WalletLosesOnlyFees` | one poll, one fault |
| `HarnessRecord` | `LockIsOnRecord` is violated (below) | |

Two faults and two moves are what the weakest guarantees turn on: depth can only
be misjudged by moving away and back within one poll, and a reorg followed by a
spend elsewhere is what strands a spend. The wallet holds a large and a small
coin and a coinbase one, so that the selection has a choice, the lock has change
and the spend is funded by that change or by the other coin.

Fairness (`FairSpec`) is weak fairness of each run's step: RPC calls return. The
code sets no timeout of its own on them, so a node that never answers is outside
the property; everything else (a chain that stands still, an evicted
transaction, forks) is inside, because the waits count their polls.

`FeeLoop` models the ten-round loop both builders share
(`sdk/src/testnet.rs:1405` and `:1509`): build with the change of the round
before, measure the mass, derive fee and change anew, stop when both repeat.
A `funding` is what the loop is given, coins and destination outputs; `Mass` is
then a function of the change output alone, everything else being the same in every
round.

What the loop rests on without saying so is how that function falls. KIP-9 storage
mass adds 10^12 over its amount for every output and takes something off for the
coins. `Settling` are the fundings for which the second is small: no amount near
the dust limit is standard, so that the loop stops with an error where fee and
change would otherwise alternate, and where a change is standard the mass falls by
no more than a tenth of what the change grows by. 10^12/c² is a tenth for c of
3.2·10^6, where 10^12/c is 316000: a standard mass of 100000 with 200000 taken off
for the coins is still inside, as with two coins of a tenth of a KAS. For these
`PaysMinimumFee` and `SettlesInTime` hold (run `Builders`, section 6). For coins
of about a hundredth of a KAS they do not (section 8), and the code checks no
amount that would keep them out; the run has such coins.

The instance scales the numbers (`StorageC` 40000 for 10^12, limit 40 for
100000, dust 5) and keeps their order: dust limit plus mass limit is below the
smallest amount that is standard, and that below the amounts that settle. Locks
take rests from nothing to 250, where no change is standard, and around 1000, where
it becomes so; spends take coins up to 250, on some of which the loop does not
settle, and coins from 1750, on which it does.

### Proofs

`TestnetHarnessProofs` proves for any number of runs and coins, any amounts, depth,
number of polls, faults and changes of network:

| Theorem | States |
|---|---|
| `TypeOKHolds` | `Spec => []TypeOK` |
| `ProofIsTrueHolds` | a proof that says PASS is true of the chain there has been; a gated run sends nothing |
| `WaitsForFinalityHolds` | no spend before the lock is as deep as declared, but for a connection away and back |
| `UndisturbedRunsPassHolds` | what is built from one snapshot, spend after lock, the node takes |

Argument. `TypeOK` is not inductive: that a poll uses up an attempt there is depends on
where the run is, which `PlaceInv` says (a run that submits is busy with a transaction,
one past the first call of a poll has attempts left). `RunInv` ties each run to its
history: one that has gone on to its spend saw its lock accepted at the score it
keeps, the waits for the spend come after the node took it, and an outcome is final.
`NodeInv` is what a gated run needs: the node knows of no transaction of a run that may
not broadcast. These four are `ProofInv`. `WaitInv` bounds the virtual score a poll has
read by the present one, unless the connection has been to the other network since;
the depth worked out from it two calls later is then no more than the true one.

`UndisturbedRunsPass` is the long one. `SentInv` orders what a run has sent; as long as
a run is `Alone` it is `Clean`: nothing else is on the node, its lock stays accepted, and
what it built is `Planned`, its inputs wallet coins and, for the spend, other ones than
the lock's or the lock's own outputs (`BuiltIsPlanned`, from `FeeFunding`).
`PlannedIsTaken` turns that into `Takes`. It uses that a transaction's id is no coin's
(`CoinAssumption`), which the hash sees to in the code.

The last section of `TestnetHarnessProofs` goes on from there:

| Theorem | States |
|---|---|
| `WalletLosesOnlyFeesHolds` | what left the wallet is fees, what stands in outputs of its runs, and what was spent elsewhere |
| `OutputsSpentOnce` | `Spec => []ChainInv`: the unspent outputs are what the chain made less what it spent, and no output is spent twice |

`WalletLosesOnlyFees` compares sums over sets of outputs, and each of accepting,
evicting, undoing and spending elsewhere moves outputs from one set to another.
`LedgerInv` is what makes that add up: which outputs there are (`KnownInv`), that a
transaction a run has drafted spends outputs of value and makes the rest
(`DraftedInv`), and that chain and unspent outputs agree (`ChainInv`). The sums are
`Foundations`'. The fold of the community modules is a function chosen to satisfy its
recursion; that there is one, and what it does when an element comes or goes, is
proved there by induction. The library's induction theorems take an operator as
parameter, which no prover here instantiates; taken over the set of numbers, or of
subsets, that satisfy a claim, induction is an instance of the theorem that a
well-founded relation has minimal elements, and that one takes none
(`NatInductionOnSet`, `SubsetInduction`). Used: runs, coins and coins of others are
finite sets (`FiniteAssumption`), and outputs of runs are none of them
(`CoinAssumption`).

`BuildersProofs` proves `FeeTypeOKHolds`, `SettlesInTimeHolds` and
`PaysMinimumFeeHolds` for all fundings, masses, dust limits and mass limits up to
100000. The argument is a contraction: from the second round on every change is
standard (`LoopInv`, `ApproachInv`), it moves in one direction, and a step is at most
a tenth of the one before and one (`NextStep`, `StepShrinks`). From 100000 that is 1
by the eighth round. A rounding step of 1 could go on for ever if each were looked at
alone; over two of them the mass falls by at most 1 (`NoThirdStep`), for which
`SmallSteps` keeps the change before the last. So the tenth round repeats the ninth.

Model-checked only: `EveryRunEnds`, which is liveness.

## 5. The compiler

### Modules

| Module | Models |
|---|---|
| `SourceLexer` | the two passes over the raw text that look for unterminated strings and comments, and the lexer: comments, strings with escapes, longest symbols first |
| `SourceParser` | recursive descent and precedence climbing over tokens; and, as the reference, a printer of trees (`Tokens`, `TextOf`) |
| `SpendLanguage` | trees (`ast.rs`), the semantic checker (`ContractChecks`), the application model (`TransitionModel`), and, as the reference, what an expression means of a transaction (`SourceHolds`) |
| `SpendCompiler` | lowering (`Lower`, one operator per `lower_*` function), the target gate (`Compiles`), encoding (`Encode`, `CompileSpendScript`) |
| `ScriptEngine` | the script machine (external, rusty-kaspa): a script maps a set of at most one stack to another |
| `SpendPath` | the state machine, from the tree on |
| `SourcePath` | the same from the text on: `ReadSource` runs lexer and parser where `SpendPath` has any tree read |
| `ScriptBytes` | a machine of its own: items encoded one after the other, then read back byte by byte |

A source is a contract somebody means, a style of writing it (with as few
parentheses as the precedence allows, or all of them) and a layout (what stands
between the tokens, comments among it). In a text, words, numbers and the contents
of a string literal are single items; symbols, quotes, comment marks and white
space are characters, since those are what the lexer gets wrong if it does.

`stage` says how far a source has come: `Read` or `Unreadable` (what both passes, the
lexer and the parser make of it, `ReadSource` in `SourcePath`), `Analyze` (the checker's verdict), `LowerContract`,
`CompileFor`, `InstantiateContract` (`instantiate_contract`: one path only, typed
parameters, arguments left out of the script, keys bound as scripts right after
a script was read), then either `BuildSpend` (`build_spend_transaction` with
`default_contract_params`: input 0, fee coins, change, lock time, one wallet
signature for every argument, and its own run through the engine) and
`SubmitBuilt`, or `SubmitOther`: `instantiate_contract` is public, so any program
may spend the script with any transaction and one signature per argument.

Stack items are pairs of a kind and a value. Truth values and numbers share a
kind because they share their bytes; everything else (keys, scripts, signatures,
digests, strings) is no number and equals only itself, so a short string that
happens to read as a number is not represented. A signature is by a key over the
transaction at hand. The bytes of pushes and opcodes are `ScriptBytes`'; here only
a literal beyond the signed 64-bit range is refused.

In `ScriptBytes` every byte is a number below `ByteBase` and may be an opcode, a
length or data, depending on where a reader takes it to begin, as in the code. The
layout of the opcodes follows from the two numbers 75 and 16 (`ShortMax`,
`SmallMax`), so that a scaled-down byte keeps the order and the neighbours of all
of them. One string literal of a single byte below 17 is pushed as data where an
engine asks for the opcode; no such byte is a character a literal is likely to
hold, and it is left out.

### What is asked

The source's meaning is strict: an expression that reads an output that is not
there, or compares what has no order, has no meaning and is never true. A key
equals a script that pays to it, as `docs/TRANSACTION_BUILDER.md:55` has it.

* `ReadAsWritten`: the text of a contract, if its comments are plain ones
  (`PlainComment`), is read as that contract, whatever the style and the layout.
* `ScriptIsSound`: what the chain accepts, the source permits. Locks of the wrong kind
  (a height at or above the threshold, a time below it) are left out: under them source
  and script disagree whatever the compiler does.
* `NothingLost`: what the source permits, the script accepts, for sources in
  `SpendableForm`. The form is the list of the compiler's limits, each a named
  condition: a signature check leads its requirement (`SigningLeads`), every
  argument is used once (`ArgumentsAreUsed`), a lock is a demand and no alternative
  (`LocksAreDemands`), inequality is between numbers, and only requires.
* `HarnessMeetsItsLock`: where a contract has one lock and no arithmetic in it, the
  spend the harness builds passes its own validation whenever the source permits that
  spend: what is locked on chain by then is not left there.
* `ModelIsTrue`, `SignersAreNeeded`: what the application model tells a wallet
  (counts, bindings turned round, outputs named outright, signers) holds of every
  accepted spend.

Both directions are up to the order of signatures. What a requirement may be made of
(`RegularForm`) is what the language gives a meaning: names of parameters, literals,
fields of inputs and outputs, comparisons, sums and differences, locks, hashes,
continuations, signature checks by name, and negation, `&&` and `||` of these; and
requirements alone, since the value of a `let` or a `return` stays on the stack, where the
next signature check takes it for a signature. Beyond it `ScriptIsSound` leaves out five
forms, all found by TLC or by the attempt at a proof; each is a place where script
and source disagree: a lock of the wrong kind (`LocksOfTheirKind`), a key to the left of a
script (`KeysFollowScripts`), a multisig with fewer signatures than its threshold
(`MultisigsListEnough`), a signature asked for twice (`ArgumentsUsedOnce`), and a
requirement that is a builtin's name alone (`NoBuiltinIsRequired`: a parameter called
`multisig` has the builtin's type for the checker and its own value for the script). Further limits the model has, outside what the properties claim:

* Arguments wait on the stack in declared order, so of two `verify` requirements the
  first takes the *last* argument (`compiler/ir/src/gen.rs:287`), the reverse of what
  the application model's signing requirements suggest.
* The harness takes the first lock in the code for the spend's lock time, and 0 for
  one computed on the stack (`sdk/src/testnet.rs:1841`); with two locks its own
  validation refuses the spend it built.
* The passes over the raw text know less than the lexer: a quote in a block comment,
  or a comment mark in a line comment, may make them refuse a good source
  (`compiler/lexer/src/lexer.rs:339`).
* A key on the left of `==` stays a key: `owner == output(0).script` is never true, and
  only `output(0).script == owner` means what both say (`FollowsScriptRead`).
* A continuation inside an alternative is named as a successor
  (`compiler/ir/src/application.rs:481`) though the script does not demand it;
  `ModelIsTrue` claims only those demanded outright.

| Run | Shows | Bounds |
|---|---|---|
| `SpendPath` | all properties above, and every refusal along the way | 1876 sources: each condition of the language alone, negated, and in each place relative to a signature; all pairs of eight conditions under `&&` and `\|\|`, and their negations; operators of neighbouring precedence in both nestings; multisigs; several locks, paths, statements; `buyer_seller_escrow.ks`'s release; in both styles, and one with a comment of any kind in any gap. Four bindings (the harness's, another, ill-typed, beyond i64), 32 transactions, two moments, two signers |
| `Comments` | a finding (section 8) | one contract with a comment of any of ten kinds in any gap, or two of them before statements |
| `Builders` | `NumbersAreKept`: a number comes back as itself, positive, in the shortest form; `ReadBack`: whatever is encoded, `verify_artifact` accepts and takes apart where it was put together | scripts of two items; bytes of four bits, numbers on both sides of every carry up to the limit, data of every length at which the push changes form, made of bytes that are opcodes themselves |

Two conditions are enough to see a value left in the wrong place, since a
condition leaves one value and takes none from below, except the signature
checks, which are tried in every place. Transactions have one or two inputs and
outputs (indexes and counts need a missing and a present one), values on both
sides of `floor`, scripts of both keys and of the contract, lock times of neither,
the first and the second kind (`LockTimeThreshold` 5), with sequences that keep
and that disable them. The pipeline ends, so deadlock is not checked.

### Proofs

Expressions are recursive data, and the library's induction over data is out of reach.
`SpendLanguage` therefore writes each of its recursions as a function over a set of
trees, `Exprs`, each of whose members has its parts in the set, at a smaller
`Depth` (`ExprsAssumption`), and gives the equation a name of its own: `Lower[e]` is
`LowerFrom(e, Lower)`. That there is a function which satisfies such an equation is a
choice that has to be justified; `Recursion` does, by induction over the depth, for any
equation that looks at parts only (the induction itself it takes from `Foundations`, as
a hypothesis each use discharges, so that its dozen instances stay small). `TreeInduction` is the induction over trees, in the form of a
set closed under its members' parts.

`SpendScriptProofs` proves `ScriptIsWellFormed`, `Spec => []TypeOK`, for all contracts,
targets, bindings, transactions and moments that satisfy the assumptions of
`SpendLanguage` and `SpendPath` (trees are finite, what is bound has a kind and is a u64
where it is a number, coins are worth an i64). `TypeOK` is not inductive: what operations a script is
made of depends on what was checked, lowered and admitted long before. `IInv` adds, stage
by stage, what each has established: the checker's verdict (`Analyzed`), that nothing
stayed unlowered (`Lowered`), that target and instructions are admitted (`CompiledOn`), and
that the script is what instantiation makes of this contract and binding (`Bound`). That
the instructions of a lowered expression are instructions at all, and after the gate
such as the engine has, is by induction over the expression (`LoweredIsCode`,
`CodeIsGrounded`); that binding and encoding keep this is by cases (`EncodedCode`).

`SpendPathProofs` proves the three properties of an accepted spend from the same
assumptions and the same `IInv`, which holds its script, its witness and the engine's
verdict:

| Theorem | Property |
|---|---|
| `SignersSuffice` | `SignersAreNeeded`: what is demanded of signatures outright, the spend's signatures satisfy |
| `SpendsAreSound` | `ScriptIsSound`: every requirement of the source is true of the spend, for some order of its signatures |
| `ModelSaysTrue` | `ModelIsTrue`: so is every exact count, output binding and named successor of the application model |

`TypeOK` could be read off the shape of the code; these need to know what it does.
The argument goes from the instruction to the path:

1. *Code runs in pieces* (`RunConcat`, `BindApart`, `EncodeApart`, `ExecApart`). Running
   a script is running its parts in turn, and what binding and encoding make of a part
   depends on the code before it only through whether a script was read last
   (`ReadAfter`), which decides how a key is bound.
2. *A value leaves its meaning* (`ValueRuns`). By induction over the expression, its code
   leaves the stack as it was with one item on top, and where locks are of their kind and
   keys follow scripts (`Sane`) that item is what the source means (`GoodValue`), or the
   script that pays to it. A lock the engine lets through has passed: `Final` and the
   spend's lock time say so (`LockRuns`).
3. *A condition takes its signatures off the stack* (`Takes`, `ConditionTakes`). By
   induction again, each condition takes some number n of signatures and leaves one value
   (`Kept`). What is proved of that value (`Outcome`) is three statements, one for each
   theorem: if it is true, the signing terms demanded outright have their signatures
   (`Demands`), the values demanded outright are true (`Weighs`), and, where its arguments
   stand for the signatures it took (`Given`), it is what the source means (`Meant`).
   The engine matches signatures with keys in order and the source asks for any choice of
   arguments signed by distinct keys; the first implies the second (`MultisigMeant`).
4. *Requirements consume the witness* (`SpendConsumes`). Each is followed by `verify` and
   starts with the signatures those before it have left, and an accepted spend has none
   left: the witness is cut into stretches, one for each requirement. Two of the theorems
   follow by looking at one requirement.
5. *The arrangement* (`SpendIsArranged`). Where no argument is used twice, each list of
   arguments can be given the stretch its requirement took. That this is one permutation
   of the whole witness is a matter of counting: the stretches are no longer than the
   lists, and both add up to the number of arguments (`Arranging`).
6. *Truth values* (`RequirementIsTruth`). The engine takes any number but 0 for true; the
   source asks for 1. The checker has given every requirement type Bool, and an
   expression of that type means 0, 1 or nothing, a builtin's name apart, which is why
   `NoBuiltinIsRequired` is among the forms left out.

For `ModelIsTrue` a conjunct that is neither a signature nor a combination is shown to be
a value (`PlainConjuncts`). A binding is read off a requirement that is one comparison;
that it cannot be one side of `&&` or `||` is because a coin's field has no type Bool
(`OperandsAreNoFields`), and that turning a comparison round keeps it is `TurnedRound`.

`BuildersProofs` proves `ReadBackHolds` and `NumbersAreKeptHolds` for scripts of
any length, all numbers of up to eight bytes, any data, and any layout of opcodes
that satisfies `ByteAssumption` (a byte has an even number of values, at least
sixteen, and every opcode is one of them; 256, 75 and 16 do). Neither is inductive,
since each speaks of what has been read and not of where the reader stands.
`ReadInv` adds that: there are places, one for each item, at which the item's bytes
begin (`Begins`), and a reader of k items stands at the place of item k + 1. A place
is never the end, because no item is without a byte, so the reader has read all items
exactly when no byte is left (`AcceptReads`). `ReadsMeant` is the step: an opcode says
of itself what follows (`Apart`), and the length after it is the data's
(`DataPushes`, `ReadsPush`), so the bytes of the data are never looked at as opcodes.
The numbers are two recursive functions, one that takes bytes off and one that
puts them together; that each is the other's inverse when no more is left
(`MagnitudeOfNumber`) is by induction over the number of bytes, and that the further
byte for the sign is the next digit, a 0 (`ScriptNumberStands`), makes the longer form a
case of the same.

## 6. Native plans

`NativePlan` models `compatibility/toccata-v2/src/lib.rs`. A `Tn10Plan` names coins
and what the caller takes them to be; `Build` is all of `Tn10Plan::build`, whose
refusals are `PlanError` in the order of its checks, the population of genesis
covenants and the final covenant check among them. What it returns has public
fields, so `Sign` and `Alter` come in any order, entries may be dropped, and
`Submit` hands it to a node that goes by its own `ledger`. `ValidateScripts` is
`validate_scripts`, which decides on the caller's entries.

Scripts are three ("open", "signed", "keeps" the amount in the first output);
covenant rules, signature hash and node are external. A signature commits to the
outpoints, the outputs and its own input's amount and script, not to the other
inputs' amounts: that is what the first property turns on. Compute budgets,
sequences, lock time and storage mass pass through this code unread.

* `FeeIsAsPlanned`: a plan all of whose coins ask for signatures pays, once accepted,
  exactly the fee it was built for, even if the caller was wrong about the coins. With
  one unsigned input it need not, and the run reaches such states.
* `ValidatedIsTaken`: what `build` returned and `validate_scripts` passed, the node
  takes if the claims are true: nothing it checks is left out of the two.

| Run | Shows | Bounds |
|---|---|---|
| `Builders` | both, `NativeTypeOK`; with `FeeLoop`'s and `ScriptBytes`' properties | two coins, seven claims of which three are false, plans of up to two inputs and outputs, of which one binds or founds a covenant, two transactions, the second on coins of the first; one alteration after each `Build` |

Two inputs are enough for a false claim to hide behind a true one, and for a coin
named twice; two transactions for a covenant to be founded and continued. `U64Max`
= 6 makes two claims overflow. Callers may stop, so deadlock is not checked.

`BuildersProofs` proves all three for all coins, claims, plans, alterations and limits
(`NativeTypeOKHolds`, `FeeIsAsPlannedHolds`, `ValidatedIsTakenHolds`). Amounts are
u64 (`AmountAssumption`, `PlanAssumption`).

`FeeIsAsPlanned` speaks of what was settled; `FeeInv` adds what is known of a
native transaction as long as nobody has altered it: its claims, outputs and fee add
up (`AddsUp`, for which covenant population must keep amounts, `GenesisKeepsAmounts`),
and every signature on it was made for this transaction on these claims
(`WellSigned`). `SignedAmountsAreTrue` is the point: the node checks a signature against
its own ledger, so an input that asks for one is worth what it was claimed to be.

For the other two, `TakenInv` says of what was built that it is `Fielded`, lists of
records with amounts that fit, which every alteration keeps, and, while it is intact,
`Sound`: no coin twice, and outputs worth no more than the claims. `BuiltIsSound` gets
both from the checks of `Tn10Plan::build`; a signature changes neither
(`SigningKeeps`). With true claims those are the node's own checks, except for
scripts and covenants, which `validate_scripts` ran as the node does.

## 7. The kernel

`KernelReadiness` follows a blueprint, the only thing the kernel keeps, from the
artifact or the builder calls it is made from (`PackageCompiled`;
`DefineContract`, `AddTransition`, `Build`) through the changes its public
fields and methods allow (`AddEvidence`, `WithNetwork`) to a package, which may be made again
after each change (`PackageBlueprint`). `package` holds what the last one says:
readiness, capability profile, previews, fee. The operators before the steps are
the report functions, one each. `BundledEvidence` is `current_toccata_evidence`
itself, record for record.

Evidence is kept as a set: records of one level differ in label only, so which of
them `max_by_key` returns is not visible. Left out are labels, notes, the indexer
schema, proof requirements and state fields, which no verdict depends on.

| Run | Shows | Bounds |
|---|---|---|
| `Kernel` | `EvidenceNeverHurts`, `CapabilitiesAgree`, `PostureByTarget`, `TypeOK` | 21 artifacts: four targets, with and without KIP-10 and KIP-20, files of one and two contracts, and three that are refused; blueprints of up to two transitions by hand; up to two further records |
| `KernelPreviews` | the finding | a file of two contracts |

Two transitions are enough for two requirements for one feature to disagree, two
records for a weaker and a stronger one to meet. The records offered are weaker
than the bundled ones, stronger, of another network, and a mainnet activation.
`U64Max` = 1000 leaves sizes on both sides of each of the two products that may
overflow. Packaging ends, so deadlock is not checked.

`KernelReadinessProofs` proves `TypeCorrect`, `CapabilitiesAgreeHolds`,
`EvidenceNeverHurtsHolds` and `PostureByTargetHolds` for all artifacts, evidence,
transitions and fee inputs that satisfy `FeeAssumption`, `TargetAssumption` (artifacts
are compiled for the four targets) and `OfferedAssumption`. None of the four is
inductive, since each speaks of a package and not of how it was made: `KernelInv`
adds that the last package is `Package` of a well-typed blueprint
(`PackageMade`) and where a builder's transitions come from. The argument about
evidence is in the lemmas before it: the best record exists (`StrongestExists`), is
at least as good with more evidence (`BestLevelRises`), a satisfied requirement
stays satisfied (`RequirementRises`), and so no report falls back (`ReportRises`).
The posture of a target rests on the records bundled: none of them is a mainnet
activation (`CompiledMainnet`), and an artifact is itself the evidence of what its
transitions require (`CompiledIsSatisfied`).

## 8. Findings

* **A lock without a record** (`HarnessRecord`, `LockIsOnRecord`,
  `sdk/src/testnet.rs:1031`). Once the node has taken the lock, a wait that times
  out, a network change or a refused spend makes `deploy_and_execute` return an
  error; no `TestnetProof` is built and the lock's transaction id is gone, with
  the money in the contract's output. `ProofResult::Fail` is constructed
  nowhere. `docs/TESTNET_PROOFS.md:3` says that live runs write proof JSON, `:60`
  that `lock_txid` is there "when broadcast succeeds", and
  `sdk/src/testnet.rs:875` names `Fail` among the results "stored in proof files".
* **A comment that does not end** (`Comments`, `CommentsAreSkipped`,
  `compiler/lexer/src/lexer.rs:41`). The pattern of a block comment takes a star
  together with whatever follows it, another star too, so `/* x **/` goes on to the
  end of the next comment. The pass that looks for unterminated comments
  (`:339`) takes the first `*/` for the end, as the test `skips_comments` (`:421`) would
  have it. A requirement between the two comments is gone without an error.
* **A preview of another path** (`KernelPreviews`, `PreviewsAreOwn`,
  `kernel/src/lib.rs:388`). A package makes its previews by transition name and takes
  the first of that name. The paths of all contracts of a file share one list under
  bare names, so of two contracts that both have a path `claim` the second one's preview
  shows the first one's signers and model. `docs/KERNEL_PACKAGE_SCHEMA.md:248`
  promises the selected transition's.

Met while modelling, kept in the models, and claimed by no run:

* Change below the dust limit goes to the miner, but preview and proof report the
  minimum fee alone (`sdk/src/testnet.rs:1407`; `docs/TESTNET_PROOFS.md:62`: "Visible
  fee in sompi").
* On coins of about a hundredth of a KAS the fee loop need not settle: there 10^12 over
  the change reacts to a sompi by more than a gram, every round asks for a larger fee
  than the one before, and the transaction of the tenth pays the fee of the ninth, less
  than the minimum of its own mass (`sdk/src/testnet.rs:1405`). By KIP-9's
  formula for two coins and two outputs, a spend paid for with one coin of 990000 sompi is
  some eighty sompi short, with one of 830000 more than a third. Leaving out
  `Settling` in `PaysMinimumFee` makes run `Builders` show it.
* `builtin_records` (`compiler/codegen/src/grounding.rs:190`) is consulted by no
  compilation: `block`, recorded as gated, compiles for `verified-tn12` without a
  warning, though `grounding.rs:311` says gated records are rejected.
* A path is recognised by its names alone (`collect_path`, `compiler/ir/src/gen.rs:499`):
  `[owner].block.height >= n` is lowered to a lock, and `input(0).covenant_id.depth` to
  the covenant's depth. The checker gives the first the type of its list. Such a lock has
  no meaning in the source model, and the properties leave it out (`IsPlainLock`).
* Any record of a mainnet activation opens the kernel's mainnet gate
  (`kernel/src/lib.rs:432`), of whatever feature; `docs/KERNEL_PACKAGE_SCHEMA.md:323`
  asks for one that covers the features required.

## 9. Not modelled

`LiveRun`, the composition of the harness with a contract's own script, is left for
later. Three parts have no behaviour a model would say anything about:
`build_spend_tx` (`sdk/src/lib.rs:175`) and the Toccata requests (`sdk/src/toccata.rs`)
compare their inputs with constants, one after the other, and keep nothing;
`compiler/protocol` is a table no other crate reads. For good: the CLI's
argument parsing and printing, file formats and JSON schemas, cryptography (a
signature is valid or not), the network stack below one RPC call, and Kaspa
consensus beyond what the tool and the harness can see of it. Modules in which
something is proved declare no `RECURSIVE` operator; recursion that only TLC
evaluates is in `SourceLexer`, `SourceParser` and `SourcePath`, so that
`ReadAsWritten` and the finding of run `Comments` stay with TLC. So do `NothingLost` and
`HarnessMeetsItsLock`: they are the converse of what is proved, that the engine gets
through every script whose source permits the spend, and would need what each
instruction needs besides what it leaves.
Liveness (`EveryRunEnds`, `MoneyLeaves`) is beyond the proof system.
