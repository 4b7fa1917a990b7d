----------------------------- MODULE NativePlan -----------------------------
(***************************************************************************)
(* Native TN10 plans: what Tn10Plan::build makes of a plan, what           *)
(* validate_scripts says of the result, and what a node's ledger does with *)
(* it.  A plan names coins and what the caller claims they are; nothing    *)
(* compares the claims with the chain, and every field of what build       *)
(* returns is public, so a caller may change it before it is submitted.    *)
(*                                                                         *)
(* Scripts are of three kinds: "open" asks nothing, "signed" asks for a    *)
(* signature of the whole transaction, "keeps" that the first output be    *)
(* worth what the input is.  A signature stands for what it commits to.    *)
(***************************************************************************)
EXTENDS Integers, Sequences, FiniteSets

CONSTANTS
    Coins,          \* the ledger at first: outpoints to entries
    Plans,          \* plans callers make, the coins in them as the caller takes them to be
    Alterations,    \* amounts an output may be changed to
    MaxAccepted,    \* bound: transactions accepted
    U64Max

\* Amounts are u64, on the chain, in what callers claim and in what they change.
ASSUME AmountAssumption ==
    /\ U64Max \in Nat /\ Alterations \subseteq 0 .. U64Max
    /\ \A o \in DOMAIN Coins : Coins[o].amount \in 0 .. U64Max

\* Plans have the fields of a Tn10Plan, their outputs those of a TransactionOutput.
ASSUME PlanAssumption ==
    \A plan \in Plans :
        /\ plan.expected_fee \in 0 .. U64Max
        /\ Len(plan.inputs) \in Nat /\ DOMAIN plan.inputs = 1 .. Len(plan.inputs)
        /\ \A i \in DOMAIN plan.inputs : plan.inputs[i].utxo.amount \in 0 .. U64Max
        /\ Len(plan.outputs) \in Nat /\ DOMAIN plan.outputs = 1 .. Len(plan.outputs)
        /\ \A k \in DOMAIN plan.outputs :
              LET o == plan.outputs[k]
              IN  /\ o = [amount |-> o.amount, script |-> o.script, covenant |-> o.covenant]
                  /\ o.amount \in 0 .. U64Max

VARIABLES
    ledger,     \* outpoints to entries
    native,     \* what was built last: [tx, entries, fee], or none
    intact,     \* only witnesses of it have changed since
    accepted,   \* transactions accepted
    settled     \* what has been accepted since: [native, intact, spent], or none

nativeVars == <<ledger, native, intact, accepted, settled>>

None == {}

NoCovenant == <<>>

Amounts(seq) == [i \in DOMAIN seq |-> seq[i].amount]

SumOf(numbers) == LET sum[i \in 0 .. Len(numbers)] == IF i = 0 THEN 0 ELSE sum[i - 1] + numbers[i]
                  IN  sum[Len(numbers)]

\* Of entries or of outputs.
Total(seq) == SumOf(Amounts(seq))

-----------------------------------------------------------------------------
(* Covenants, as rusty-kaspa has them.  A binding on an output names the   *)
(* input that authorises it and an id; the id is the input's own, or that  *)
(* of a new covenant, made of the input's outpoint and the outputs bound.  *)

GenesisId(outpoint, outputs) == <<outpoint, outputs>>

Bound(txn, binding) == {k \in DOMAIN txn.outputs : txn.outputs[k].covenant = binding}

CovenantsHold(txn, entries) ==
    \A k \in DOMAIN txn.outputs :
        LET b == txn.outputs[k].covenant
        IN  b # NoCovenant =>
                /\ b[1] \in DOMAIN txn.inputs
                /\ \/ entries[b[1]].covenant = b[2]
                   \/ b[2] = GenesisId(txn.inputs[b[1]].outpoint, Bound(txn, b))

\* Groups are pairs of an input and the outputs it gives a new covenant.
GroupsFit(groups, txn) ==
    /\ \A g \in groups : /\ g[1] \in DOMAIN txn.inputs /\ g[2] # {} /\ g[2] \subseteq DOMAIN txn.outputs
                         /\ \A k \in g[2] : txn.outputs[k].covenant = NoCovenant
    /\ \A g, h \in groups : g # h => g[2] \cap h[2] = {}

WithGenesis(groups, txn) ==
    [txn EXCEPT !.outputs = [k \in DOMAIN txn.outputs |->
        IF \E g \in groups : k \in g[2]
        THEN LET g == CHOOSE g \in groups : k \in g[2]
             IN  [txn.outputs[k] EXCEPT !.covenant = <<g[1], GenesisId(txn.inputs[g[1]].outpoint, g[2])>>]
        ELSE txn.outputs[k]]]

-----------------------------------------------------------------------------
(* Scripts.  A signature commits to the outpoints, the outputs, and what   *)
(* its own input is worth and pays to, not to what the other inputs are.   *)

SignatureFor(txn, entries, i) ==
    [spends |-> [j \in DOMAIN txn.inputs |-> txn.inputs[j].outpoint], pays |-> txn.outputs,
     index |-> i, amount |-> entries[i].amount, script |-> entries[i].script]

ScriptHolds(txn, entries, i) ==
    CASE entries[i].script = "open"   -> TRUE
      [] entries[i].script = "signed" -> txn.inputs[i].witness = {SignatureFor(txn, entries, i)}
      [] entries[i].script = "keeps"  -> txn.outputs[1].amount >= entries[i].amount

ValidateScripts(n) ==
    IF Len(n.entries) # Len(n.tx.inputs) THEN "InputMetadataMismatch"
    ELSE IF ~CovenantsHold(n.tx, n.entries) THEN "Covenant"
    ELSE IF \E i \in DOMAIN n.tx.inputs : ~ScriptHolds(n.tx, n.entries, i) THEN "Script"
    ELSE "Ok"

-----------------------------------------------------------------------------
(* Building.                                                               *)

Distinct(inputs) == \A i, j \in DOMAIN inputs : inputs[i].outpoint = inputs[j].outpoint => i = j

Claims(plan) == [i \in DOMAIN plan.inputs |-> plan.inputs[i].utxo]

Transaction(plan) ==
    [inputs  |-> [i \in DOMAIN plan.inputs |-> [outpoint |-> plan.inputs[i].outpoint, witness |-> None]],
     outputs |-> plan.outputs]

BuiltTx(plan) == WithGenesis(plan.groups, Transaction(plan))

\* Mutant: a coin may be named twice.
NoDuplicates_Slip(plan) == plan.inputs # << >>

NoDuplicates(plan) == Distinct(plan.inputs)

\* Mutant: a sum that wraps round is not noticed.
Fits_Slip(seq) == Total(seq) >= 0

\* Partial sums only grow: the checked additions fail where the total is too large.
Fits(seq) == Total(seq) <= U64Max

\* Mutant: the fee is anything from the one expected on.
Balanced_Slip(plan) == Total(Claims(plan)) - Total(plan.outputs) >= plan.expected_fee

Balanced(plan) == Total(Claims(plan)) - Total(plan.outputs) = plan.expected_fee

\* What build refuses a plan for, in the order of its checks.
PlanError(plan) ==
    IF plan.network # "kaspa-testnet-10" THEN "WrongNetwork"
    ELSE IF plan.inputs = << >> \/ plan.outputs = << >> THEN "Empty"
    ELSE IF ~NoDuplicates(plan) THEN "DuplicateInput"
    ELSE IF ~Fits(Claims(plan)) \/ ~Fits(plan.outputs) THEN "Overflow"
    ELSE IF ~Balanced(plan) THEN "FeeMismatch"
    ELSE IF ~GroupsFit(plan.groups, Transaction(plan)) THEN "Covenant"
    ELSE IF ~CovenantsHold(BuiltTx(plan), Claims(plan)) THEN "Covenant"
    ELSE "Ok"

\* What is built of a plan that is not refused.
Built == {[tx |-> BuiltTx(plan), entries |-> Claims(plan), fee |-> plan.expected_fee] :
             plan \in {plan \in Plans : PlanError(plan) = "Ok"}}

Build ==
    /\ accepted < MaxAccepted
    /\ \E n \in Built : native' = {n}
    /\ intact' = TRUE
    /\ settled' = None
    /\ UNCHANGED <<ledger, accepted>>

-----------------------------------------------------------------------------
(* What callers do with it.  A wallet signs what it is given, on the       *)
(* entries that came with it.                                              *)

Sign(i) ==
    \E n \in native :
        /\ i \in DOMAIN n.tx.inputs /\ i \in DOMAIN n.entries
        /\ native' = {[n EXCEPT !.tx.inputs[i].witness = {SignatureFor(n.tx, n.entries, i)}]}
        /\ UNCHANGED <<ledger, intact, accepted, settled>>

Altered(n) ==
    {[n EXCEPT !.entries = << >>]} \cup
    {[n EXCEPT !.tx.outputs[k].amount = a] : k \in DOMAIN n.tx.outputs, a \in Alterations} \cup
    {[n EXCEPT !.tx.outputs[k].covenant = NoCovenant] : k \in DOMAIN n.tx.outputs}

\* Bound: once after each Build.
Alter ==
    \E n \in native :
        /\ intact
        /\ \E m \in Altered(n) : native' = {m}
        /\ intact' = FALSE
        /\ UNCHANGED <<ledger, accepted, settled>>

SpentBy(txn) == [i \in DOMAIN txn.inputs |-> ledger[txn.inputs[i].outpoint]]

\* A node goes by its own ledger; fee policy, mass and finality are left out.
NodeTakes(txn) ==
    /\ \A i \in DOMAIN txn.inputs : txn.inputs[i].outpoint \in DOMAIN ledger
    /\ Distinct(txn.inputs)
    /\ Total(SpentBy(txn)) <= U64Max /\ Total(txn.outputs) <= Total(SpentBy(txn))
    /\ CovenantsHold(txn, SpentBy(txn))
    /\ \A i \in DOMAIN txn.inputs : ScriptHolds(txn, SpentBy(txn), i)

IdOf(output) == IF output.covenant = NoCovenant THEN NoCovenant ELSE output.covenant[2]

NewCoins(txn, number) ==
    [o \in {<<number, k>> : k \in DOMAIN txn.outputs} |->
        [amount |-> txn.outputs[o[2]].amount, script |-> txn.outputs[o[2]].script,
         covenant |-> IdOf(txn.outputs[o[2]])]]

With(f, g) == [x \in DOMAIN f \cup DOMAIN g |-> IF x \in DOMAIN g THEN g[x] ELSE f[x]]

\* What was submitted stays with the caller, who may submit it again.
Submit ==
    \E n \in native :
        LET spent == {n.tx.inputs[i].outpoint : i \in DOMAIN n.tx.inputs}
        IN  /\ accepted < MaxAccepted
            /\ NodeTakes(n.tx)
            /\ accepted' = accepted + 1
            /\ settled' = {[native |-> n, intact |-> intact, spent |-> SpentBy(n.tx)]}
            /\ ledger' = With([o \in DOMAIN ledger \ spent |-> ledger[o]], NewCoins(n.tx, accepted'))
            /\ UNCHANGED <<native, intact>>

-----------------------------------------------------------------------------

NativeInit ==
    /\ ledger = Coins
    /\ native = None /\ intact = TRUE
    /\ accepted = 0 /\ settled = None

NativeNext ==
    \/ Build
    \/ \E n \in native : \E i \in DOMAIN n.tx.inputs : Sign(i)
    \/ Alter
    \/ Submit

NativeSpec == NativeInit /\ [][NativeNext]_nativeVars

-----------------------------------------------------------------------------
(* Properties.                                                             *)

Signed(txn, entries) == \A i \in DOMAIN txn.inputs : entries[i].script = "signed"

\* A signed plan pays the fee it was built for, whatever the caller took its coins
\* to be worth: build makes the claims, the outputs and the fee add up, each
\* signature commits to what its own input is claimed to be worth, and the node
\* checks it against what the input is.  One unsigned input and it need not be so.
FeeIsAsPlanned ==
    \A s \in settled :
        s.intact /\ Signed(s.native.tx, s.spent)
            => Total(s.spent) - Total(s.native.tx.outputs) = s.native.fee

ClaimsAreTrue(n) ==
    \A i \in DOMAIN n.tx.inputs :
        n.tx.inputs[i].outpoint \in DOMAIN ledger /\ n.entries[i] = ledger[n.tx.inputs[i].outpoint]

\* Build and validate_scripts leave nothing to the node but what only it can know:
\* an unaltered transaction whose scripts validate is taken as long as its coins
\* are what they were claimed to be.
ValidatedIsTaken ==
    \A n \in native : intact /\ ValidateScripts(n) = "Ok" /\ ClaimsAreTrue(n) => NodeTakes(n.tx)

\* Amounts stay in range, what is claimed in all too, and entries go with inputs,
\* unless a caller dropped them.
NativeTypeOK ==
    /\ \A o \in DOMAIN ledger : ledger[o].amount \in 0 .. U64Max
    /\ \A n \in native :
            /\ n.fee \in 0 .. U64Max /\ Total(n.entries) \in 0 .. U64Max
            /\ n.entries # << >> => Len(n.entries) = Len(n.tx.inputs)
    /\ intact \in BOOLEAN

=============================================================================
