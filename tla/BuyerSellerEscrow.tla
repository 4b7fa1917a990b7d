--------------------------- MODULE BuyerSellerEscrow ---------------------------
(***************************************************************************)
(* The life of the two-party escrow: a TN10 node and its DAG, the          *)
(* read-only tool that observes the node over a sequence of RPC calls and  *)
(* plans unsigned spends, the participants' wallets that sign, and the     *)
(* network that accepts a spend when script and finality let it.           *)
(*                                                                         *)
(* The tool keeps no state from one run to the next and a plan, once made, *)
(* can be signed at any later time, so one tool that runs again and again  *)
(* makes every set of plans that several participants' tools would.        *)
(***************************************************************************)
EXTENDS EscrowRules, FiniteSets

CONSTANTS
    TermsOffered,       \* the terms somebody may call BuyerSellerEscrow::new with
    Endpoints,          \* what the nodes behind the RPC connection report
    UntrustedRows,      \* UTXO rows a node that fails the gate may answer with
    HandBuilt,          \* transactions a participant may make without the tool
    Fees,               \* fees a caller may ask for
    ComputeBudgets,     \* compute budgets a caller may ask for
    MaxDaa,             \* bound: the DAA score stops here
    MaxReorgs,          \* bound: accepted spends that the DAG reverses
    MaxSwitches,        \* bound: times the connection moves to another node
    MaxPlans,           \* bound: unsigned transactions handed out
    MaxHandSigned       \* bound: signatures on what the tool did not plan

ASSUME EndpointAssumption == Endpoints \subseteq ServerInfo
ASSUME RowsAssumption     == UntrustedRows \subseteq [AllOutpoints -> 0 .. 2]
ASSUME HandBuiltAssumption == HandBuilt \subseteq Tx
ASSUME CallerAssumption   == Fees \subseteq Nat /\ ComputeBudgets \subseteq Nat
ASSUME BoundAssumption    ==
    /\ MaxDaa \in Nat /\ MaxReorgs \in Nat
    /\ MaxSwitches \in Nat /\ MaxPlans \in Nat /\ MaxHandSigned \in Nat

VARIABLES
    terms,      \* the escrow's terms, fixed by its address
    daa,        \* the virtual DAA score
    funded,     \* outpoints the DAG has accepted at the escrow address
    accepted,   \* spends the DAG accepts, each with the score at acceptance
    reorgs,     \* acceptances reversed so far
    node,       \* what the node behind the connection reports of itself
    switches,   \* times the connection moved
    obs,        \* the observation under way, or the last one made
    history,    \* of that observation: moves of the connection, rows trusted
    plans,      \* unsigned transactions the tool has handed out
    sigs        \* signatures that exist

chainVars == <<terms, daa, funded, accepted, reorgs>>
nodeVars  == <<node, switches>>
obsVars   == <<obs, history>>
vars      == <<terms, daa, funded, accepted, reorgs, node, switches, obs, history,
               plans, sigs>>

Steps == {"idle", "utxos", "fees", "recheck", "ready"}

Observation == [step : Steps, rows : [AllOutpoints -> 0 .. 2], score : Nat,
                info : ServerInfo]
Plan        == [tx : Tx, path : Paths, observed : BOOLEAN]
Acceptance  == [tx : Tx, score : Nat]

Spent   == {a.tx.outpoint : a \in accepted}
Unspent == funded \ Spent

KnownTxs == {plan.tx : plan \in plans} \cup HandBuilt

TypeOK ==
    /\ terms \in EscrowTerms
    /\ daa \in Nat
    /\ funded \subseteq Outpoints
    /\ accepted \subseteq Acceptance
    /\ reorgs \in Nat
    /\ node \in ServerInfo
    /\ switches \in Nat
    /\ obs \in Observation
    /\ history \in [moves : 0 .. 2, trusted : BOOLEAN]
    /\ plans \subseteq Plan
    /\ sigs \subseteq Signature

NoRows == [op \in AllOutpoints |-> 0]

NoHistory == [moves |-> 0, trusted |-> TRUE]

NoObservation(info) == [step |-> "idle", rows |-> NoRows, score |-> 0, info |-> info]

Init ==
    /\ terms \in {t \in TermsOffered : TermsAccepted(t)}
    /\ daa = 0
    /\ funded = {}
    /\ accepted = {}
    /\ reorgs = 0
    /\ node \in Endpoints
    /\ switches = 0
    /\ obs = NoObservation(node)
    /\ history = NoHistory
    /\ plans = {}
    /\ sigs = {}

-----------------------------------------------------------------------------
(* The DAG.                                                                *)

Tick ==
    /\ daa < MaxDaa
    /\ daa' = daa + 1
    /\ UNCHANGED <<terms, funded, accepted, reorgs, node, switches, obsVars, plans, sigs>>

Fund(op) ==
    /\ op \notin funded
    /\ Entry[op].ours
    /\ funded' = funded \cup {op}
    /\ UNCHANGED <<terms, daa, accepted, reorgs, node, switches, obsVars, plans, sigs>>

\* Somebody submits a signed transaction and the DAG accepts it.
Accept(tx, path, witness) ==
    /\ tx.outpoint \in Unspent
    /\ IsFinalAt(tx, daa)
    /\ NoInflation(tx)
    /\ SignatureScriptAccepted(path, witness)
    /\ RedeemScript(terms, path, tx, witness)
    /\ accepted' = accepted \cup {[tx |-> tx, score |-> daa]}
    /\ UNCHANGED <<terms, daa, funded, reorgs, node, switches, obsVars, plans, sigs>>

\* Sequences of one or two signatures.
Witnesses == {<<s>> : s \in sigs} \cup (sigs \X sigs)

\* Whoever submits chooses the selector and the signatures that the tool encodes:
\* any path may be tried with any of them.
AcceptSpend(op) ==
    \E tx \in KnownTxs, path \in Paths :
        /\ tx.outpoint = op
        /\ \E witness \in Witnesses : Accept(tx, path, witness)

Reorg(a) ==
    /\ reorgs < MaxReorgs
    /\ reorgs' = reorgs + 1
    /\ accepted' = accepted \ {a}
    /\ UNCHANGED <<terms, daa, funded, node, switches, obsVars, plans, sigs>>

-----------------------------------------------------------------------------
(* The connection: a provider change is invisible to the tool between two  *)
(* calls.                                                                  *)

\* History only: up to two moves during one observation are told apart.
CountMove ==
    history' = IF obs.step \in {"utxos", "fees", "recheck"} /\ history.moves < 2
               THEN [history EXCEPT !.moves = @ + 1]
               ELSE history

SwitchNode(info) ==
    /\ switches < MaxSwitches
    /\ info # node
    /\ node' = info
    /\ switches' = switches + 1
    /\ CountMove
    /\ UNCHANGED <<chainVars, obs, plans, sigs>>

\* A connection that fails the gate is eventually replaced by one that passes.
Reconnect(info) ==
    /\ ~ValidateNode(node)
    /\ ValidateNode(info)
    /\ node' = info
    /\ CountMove
    /\ UNCHANGED <<chainVars, switches, obs, plans, sigs>>

-----------------------------------------------------------------------------
(* observe: four RPC calls, one step each.                                 *)

LiveRows == [op \in AllOutpoints |-> IF op \in Unspent THEN 1 ELSE 0]

\* The answer to get_utxos_by_addresses.
RowsAnswered ==
    IF ValidateNode(node) THEN {LiveRows} ELSE UntrustedRows

ObserveServerInfo ==
    /\ obs.step \in {"idle", "ready"}
    /\ obs' = [NoObservation(node) EXCEPT
                 !.step = IF ValidateNode(node) THEN "utxos" ELSE "idle"]
    /\ history' = NoHistory
    /\ UNCHANGED <<chainVars, nodeVars, plans, sigs>>

\* A node without the UTXO index answers with an error.
ObserveUtxos ==
    /\ obs.step = "utxos"
    /\ node.has_utxo_index
    /\ \E rows \in RowsAnswered :
           obs' = [obs EXCEPT !.step = "fees", !.rows = rows]
    /\ history' = [history EXCEPT !.trusted = ValidateNode(node)]
    /\ UNCHANGED <<chainVars, nodeVars, plans, sigs>>

ObserveFeeEstimate ==
    /\ obs.step = "fees"
    /\ obs' = [obs EXCEPT !.step = "recheck"]
    /\ UNCHANGED <<chainVars, nodeVars, history, plans, sigs>>

\* The second answer is kept unread (a slip, see EscrowRules).
ObserveRecheck_Slip ==
    /\ obs.step = "recheck"
    /\ obs' = [obs EXCEPT !.step = "ready", !.score = daa, !.info = node]
    /\ UNCHANGED <<chainVars, nodeVars, history, plans, sigs>>

\* The second get_server_info: its answer is the one the observation keeps.
ObserveRecheck ==
    /\ obs.step = "recheck"
    /\ ValidateNode(node)
    /\ obs' = [obs EXCEPT !.step = "ready", !.score = daa, !.info = node]
    /\ UNCHANGED <<chainVars, nodeVars, history, plans, sigs>>

\* An RPC error, a node that fails the recheck, or the caller's timeout around
\* the whole sequence: nothing of the observation is kept.
ObserveFails ==
    /\ obs.step \in {"utxos", "fees", "recheck"}
    /\ obs' = NoObservation(node)
    /\ history' = NoHistory
    /\ UNCHANGED <<chainVars, nodeVars, plans, sigs>>

-----------------------------------------------------------------------------
(* Planning.                                                               *)

\* The deadline is taken to have passed when it is reached (a slip).
PlanObserved_Slip(op, path, fee, computeBudget) ==
    /\ obs.step = "ready" /\ ValidateNode(obs.info)
    /\ path = "refund" => obs.score >= terms.refund_daa_score
    /\ obs.rows[op] = 1
    /\ SpendAccepted(terms, op, fee, computeBudget)
    /\ Cardinality(plans) < MaxPlans
    /\ plans' = plans \cup {[tx |-> UnsignedSpend(terms, op, path, fee),
                             path |-> path, observed |-> TRUE]}
    /\ UNCHANGED <<chainVars, nodeVars, obsVars, sigs>>

\* EscrowObservation::unsigned_spend.
PlanObserved(op, path, fee, computeBudget) ==
    /\ obs.step = "ready"
    /\ ValidateNode(obs.info)
    /\ path = "refund" => obs.score > terms.refund_daa_score
    /\ obs.rows[op] = 1
    /\ SpendAccepted(terms, op, fee, computeBudget)
    /\ Cardinality(plans) < MaxPlans
    /\ plans' = plans \cup {[tx |-> UnsignedSpend(terms, op, path, fee),
                             path |-> path, observed |-> TRUE]}
    /\ UNCHANGED <<chainVars, nodeVars, obsVars, sigs>>

\* BuyerSellerEscrow::unsigned_spend, from metadata the caller supplies.
PlanOffline(op, path, fee, computeBudget) ==
    /\ SpendAccepted(terms, op, fee, computeBudget)
    /\ Cardinality(plans) < MaxPlans
    /\ plans' = plans \cup {[tx |-> UnsignedSpend(terms, op, path, fee),
                             path |-> path, observed |-> FALSE]}
    /\ UNCHANGED <<chainVars, nodeVars, obsVars, sigs>>

-----------------------------------------------------------------------------
(* Wallets.                                                                *)

PlannedTxs == {plan.tx : plan \in plans}

\* A wallet signs a planned transaction the way the tool asks for.
SignPlanned(key, tx) ==
    /\ tx \in PlannedTxs
    /\ sigs' = sigs \cup {[key |-> key, tx |-> tx, hash |-> "all"]}
    /\ UNCHANGED <<chainVars, nodeVars, obsVars, plans>>

Unprompted == {s \in sigs : s.tx \notin PlannedTxs \/ s.hash # "all"}

\* A wallet signs something else, or signs it loosely.
SignUnprompted(key, tx, hash) ==
    /\ tx \in KnownTxs
    /\ tx \notin PlannedTxs \/ hash # "all"
    /\ Cardinality(Unprompted) < MaxHandSigned
    /\ sigs' = sigs \cup {[key |-> key, tx |-> tx, hash |-> hash]}
    /\ UNCHANGED <<chainVars, nodeVars, obsVars, plans>>

-----------------------------------------------------------------------------

Chain ==
    \/ Tick
    \/ \E op \in Outpoints : Fund(op) \/ AcceptSpend(op)
    \/ \E a \in accepted : Reorg(a)

Connection == \E info \in Endpoints : SwitchNode(info) \/ Reconnect(info)

Observe ==
    \/ ObserveServerInfo
    \/ ObserveUtxos
    \/ ObserveFeeEstimate
    \/ ObserveRecheck
    \/ ObserveFails

PlanSpend ==
    \E op \in AllOutpoints, path \in Paths, fee \in Fees, budget \in ComputeBudgets :
        PlanObserved(op, path, fee, budget) \/ PlanOffline(op, path, fee, budget)

Sign ==
    \E key \in Keys, tx \in KnownTxs :
        SignPlanned(key, tx) \/ \E hash \in HashTypes : SignUnprompted(key, tx, hash)

Next == Chain \/ Connection \/ Observe \/ PlanSpend \/ Sign

Spec == Init /\ [][Next]_vars

-----------------------------------------------------------------------------
(* Safety.                                                                 *)

\* The key's holder signed exactly this transaction, all of it.
Signed(key, tx) == [key |-> key, tx |-> tx, hash |-> "all"] \in sigs

\* A settled escrow paid a party who was entitled to it: the seller, and then
\* buyer and seller each signed exactly the accepted transaction, or the buyer,
\* and then the buyer did.  Whichever selector the submitter pushed before whichever
\* signatures signature_script encodes, and whatever else the wallets signed, no
\* signature given for one transaction settles the escrow by another one.  Scripts
\* assembled around signature_script, with a looser hash type, are outside.
PaidByAgreement ==
    \A a \in accepted :
        /\ Signed(terms.buyer, a.tx)
        /\ \/ a.tx.script = terms.buyer
           \/ a.tx.script = terms.seller /\ Signed(terms.seller, a.tx)

\* No refund is accepted at a DAA score that has not passed the deadline.  Needs
\* three things to agree: the lock time the script demands, the sequence that
\* makes the lock time count, and the node's finality rule.
NoEarlyRefund ==
    \A a \in accepted : a.tx.script = terms.buyer => a.score > terms.refund_daa_score

\* The recipient gets everything but a miner fee within the agreed cap.
FeeWithinCap ==
    \A a \in accepted :
        LET amount == Entry[a.tx.outpoint].amount IN
            /\ ~a.tx.extraInput /\ ~a.tx.extraOutput
            /\ a.tx.value <= amount
            /\ amount - a.tx.value <= terms.max_fee

\* Keeping to the tool costs a party nothing.  Whenever the chain accepts a spend,
\* planned or built by hand, the tool would have built one of the same outpoint that
\* pays the same party the same amount and is final at the same score: its guards on
\* amounts are no stricter than the script's, and its refund no later than any the
\* script lets through.  It only insists on some miner fee, and on outpoints that
\* are neither of a covenant nor of a coinbase.
ToolDoesAsWell ==
    \A a \in accepted :
        LET op  == a.tx.outpoint
            fee == Entry[op].amount - a.tx.value
        IN  ~Entry[op].covenant /\ ~Entry[op].coinbase /\ fee # 0 =>
                /\ SpendAccepted(terms, op, fee, 1)
                /\ \E path \in Paths :
                        LET tx == UnsignedSpend(terms, op, path, fee)
                        IN  tx.script = a.tx.script /\ IsFinalAt(tx, a.score)

\* Every transaction the tool hands out is one the redeem script accepts as soon
\* as the required signers have signed it, and a plan made from an observation is
\* already final on the chain, however long ago the observation was made.
PlansAreSpendable ==
    \A plan \in plans :
        LET signature(key) == [key |-> key, tx |-> plan.tx, hash |-> "all"]
            witness == IF plan.path = "release"
                       THEN <<signature(terms.buyer), signature(terms.seller)>>
                       ELSE <<signature(terms.buyer)>>
        IN  /\ SignatureScriptAccepted(plan.path, witness)
            /\ RedeemScript(terms, plan.path, plan.tx, witness)
            /\ NoInflation(plan.tx)
            /\ plan.observed => IsFinalAt(plan.tx, daa)

\* The recheck after the reads does its work: rows that a node failing the gate
\* answered with are kept only if the connection moved at least twice within one
\* observation, to that node and away from it again.
RecheckCatchesOneMove ==
    obs.step = "ready" /\ ~history.trusted => history.moves >= 2

-----------------------------------------------------------------------------
(* Refinement.                                                             *)

Outcome(op) ==
    CASE op \notin funded -> "unfunded"
      [] op \in Unspent -> "locked"
      [] \E a \in accepted : a.tx.outpoint = op /\ a.tx.script = terms.seller -> "released"
      [] OTHER -> "refunded"

PaidOut(op) ==
    IF op \in Spent
    THEN (CHOOSE a \in accepted : a.tx.outpoint = op).tx.value
    ELSE 0

Promise ==
    INSTANCE EscrowPromise WITH
        Amount     <- [op \in Outpoints |-> Entry[op].amount],
        clock      <- daa,
        settlement <- [op \in Outpoints |-> Outcome(op)],
        paid       <- [op \in Outpoints |-> PaidOut(op)],
        agreed     <- {<<s.key, s.tx.outpoint, s.tx.script>> :
                          s \in {s \in sigs : s.hash = "all" /\ s.tx.outpoint \in Outpoints}}

\* The escrow as built and as the DAG runs it keeps the abstract promise: money
\* leaves an outpoint at most once (until the DAG itself reverses it), to the
\* right party, with that party's and the other's agreement, in the right amount.
\* As above, of witnesses that signature_script encodes.
PromiseKept == Promise!Spec

-----------------------------------------------------------------------------
(* Liveness.                                                               *)

\* The DAA score advances, a failing connection is replaced, and the buyer keeps
\* at it: observes, asks for a refund plan, signs what was planned, submits.
\* Nothing is assumed of the seller.  Observation and planning get strong
\* fairness, since a provider change or a new run may interrupt them.
Fairness ==
    /\ WF_vars(Tick)
    /\ WF_vars(\E info \in Endpoints : Reconnect(info))
    /\ SF_vars(ObserveServerInfo) /\ SF_vars(ObserveUtxos)
    /\ SF_vars(ObserveFeeEstimate) /\ SF_vars(ObserveRecheck)
    /\ \A op \in Outpoints :
          /\ SF_vars(\E fee \in Fees, budget \in ComputeBudgets :
                        PlanObserved(op, "refund", fee, budget))
          /\ WF_vars(\E tx \in {t \in PlannedTxs : t.outpoint = op} :
                        /\ ~Signed(terms.buyer, tx)
                        /\ SignPlanned(terms.buyer, tx))
          /\ WF_vars(AcceptSpend(op))

FairSpec == Spec /\ Fairness

\* Locked money that the cap does not swallow does not stay locked for ever: the
\* buyer recovers it after the deadline if it is not released before, with no
\* help from the seller and in spite of reorgs, provider changes and stale reads.
MoneyLeaves ==
    \A op \in Outpoints :
        (op \in funded /\ UtxoUsable(Entry[op]) /\ Entry[op].amount > terms.max_fee)
            ~> op \in Spent

=============================================================================
