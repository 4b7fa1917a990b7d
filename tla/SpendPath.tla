----------------------------- MODULE SpendPath -----------------------------
(***************************************************************************)
(* One contract from the tree that was read to a spend on chain: checked,  *)
(* lowered, compiled for a target, instantiated with parameters, and       *)
(* spent, either by the testnet harness (which builds a spend of its own   *)
(* and runs it through the engine first) or by whoever holds the locking   *)
(* script.  SourcePath puts the lexer and the parser before it.            *)
(*                                                                         *)
(* The questions are what the source promises of a spend on chain: the     *)
(* checker, the lowering, the encoding, the binding of parameters and the  *)
(* order of values on the stack all stand between the two.                 *)
(***************************************************************************)
EXTENDS ScriptEngine

CONSTANTS Contracts,        \* the contracts that may be read
          Bindings,         \* what a caller may pass as contract parameters
          CompileTargets,   \* targets compiled for
          Transactions,     \* transactions that may be offered to the chain
          Moments,          \* [score, time] at which they may be
          Signers,          \* keys with a signature over them
          Wallet,           \* the key of the harness
          LockAmount        \* what the harness locks

Declarations == Seq([name : STRING, ty : STRING])
Statements   == [kind : {"let", "require", "return"}, name : STRING, expr : Exprs]
Paths        == [name : STRING, params : Declarations, body : Seq(Statements)]

ASSUME ContractsAssumption ==
    \A c \in Contracts : c \in [params : Declarations, finality_depth : Int, spends : Seq(Paths)]

ASSUME TargetsAssumption == CompileTargets \subseteq Targets

\* What is bound has a kind, and is a u64 where it is a number.
ASSUME BindingsAssumption ==
    \A b \in Bindings : \A x \in DOMAIN b : b[x] = <<b[x][1], b[x][2]>> /\ (IsNum(b[x]) => b[x][2] \in Nat)

IsCoin(c) == /\ c = [value |-> Num(c.value[2]), script |-> Script(c.script[2])]
             /\ c.value[2] \in 0 .. I64Max

IsTransaction(tx) ==
    /\ tx.inputs \in Seq(ToSet(tx.inputs)) /\ tx.outputs \in Seq(ToSet(tx.outputs))
    /\ \A c \in ToSet(tx.inputs) \cup ToSet(tx.outputs) : IsCoin(c)
    /\ tx.lockTime \in Nat /\ tx.sequence \in Nat

ASSUME ChainAssumption ==
    /\ \A tx \in Transactions : IsTransaction(tx)
    /\ \A now \in Moments : now.score \in Nat /\ now.time \in Nat
    /\ LockAmount \in 0 .. I64Max /\ LockTimeThreshold \in Nat /\ MaxSequence \in Nat \ {0}

VARIABLES stage,        \* how far the contract has come
          contract,     \* the tree that was read
          target,       \* what it was compiled for
          warnings,     \* gated records it was compiled with
          bound,        \* its parameters' values
          redeem,       \* the instantiated script: [script, usesLockTime, lockTime]
          spend         \* a spend: [tx, witness, now]

vars == <<stage, contract, target, warnings, bound, redeem, spend>>

Nothing == "nothing"

ContractScript == Script("contract")

Only(seq) == Len(seq) = 1

Path == contract.spends[1]

Code == LowerSpend(Path)

Init ==
    /\ stage = "source" /\ contract = Nothing
    /\ target = Nothing /\ warnings = {} /\ bound = Nothing /\ redeem = Nothing /\ spend = Nothing

Reject == stage' = "rejected" /\ UNCHANGED <<contract, target, warnings, bound, redeem, spend>>

\* What the parser makes of a source: its tree, or nothing.
Read(c) ==
    /\ stage = "source"
    /\ stage' = "read" /\ contract' = c
    /\ UNCHANGED <<target, warnings, bound, redeem, spend>>

Unreadable ==
    /\ stage = "source"
    /\ stage' = "unreadable"
    /\ UNCHANGED <<contract, target, warnings, bound, redeem, spend>>

Analyze ==
    /\ stage = "read"
    /\ stage' = IF ContractChecks(contract) THEN "checked" ELSE "rejected"
    /\ UNCHANGED <<contract, target, warnings, bound, redeem, spend>>

LowerContract ==
    /\ stage = "checked"
    /\ stage' = IF Lowers(contract) THEN "lowered" ELSE "rejected"
    /\ UNCHANGED <<contract, target, warnings, bound, redeem, spend>>

CompileFor(t) ==
    /\ stage = "lowered"
    /\ IF Compiles(contract, t)
       THEN /\ stage' = "compiled"
            /\ target' = t
            /\ warnings' = WarningsOf(contract)
            /\ UNCHANGED <<contract, bound, redeem, spend>>
       ELSE Reject

-----------------------------------------------------------------------------
(* Binding the parameters.                                                 *)

ValueIsOfType(v, ty) ==
    CASE ty = "PublicKey"                 -> v[1] = "key"
      [] ty = "Hash"                      -> v[1] = "digest"
      [] ty \in {"BlockHeight", "Amount"} -> IsNum(v)
      [] ty = "Bool"                      -> v \in {Truth(TRUE), Truth(FALSE)}
      [] ty = "Bytes"                     -> v[1] = "bytes"
      [] OTHER                            -> FALSE

IsSpendParam(name) == name \in ToSet(NamesOf(Path.params))

ValidBindings(b) ==
    \A p \in ToSet(contract.params) : p.name \in DOMAIN b /\ ValueIsOfType(b[p.name], p.ty)

\* Mutant: the instruction looked at is the key's own.
FollowsScriptRead_Slip(code, i) == code[i][1] \in {"input_script", "output_script"}

FollowsScriptRead(code, i) == i > 1 /\ code[i - 1][1] \in {"input_script", "output_script"}

\* A key is bound as the script that pays to it right after a script was read.
BoundValue(code, i, b) ==
    LET v == b[code[i][2]]
    IN  IF v[1] = "key" /\ FollowsScriptRead(code, i) THEN Script(v[2]) ELSE v

\* Spend arguments are left out of the script; the witness puts them on the stack.
BindInstruction(code, i, b) ==
    IF code[i][1] # "symbol" THEN <<code[i]>>
    ELSE IF IsSpendParam(code[i][2]) THEN << >> ELSE <<Push(BoundValue(code, i, b))>>

BindCode(code, b) == Concat([i \in DOMAIN code |-> BindInstruction(code, i, b)])

Unbound(code) ==
    \E ins \in ToSet(code) : /\ ins[1] = "symbol" /\ ~IsSpendParam(ins[2])
                             /\ ins[2] \notin ToSet(NamesOf(contract.params))

\* Mutant: only locks with a literal are looked for.
LockTimeRequirement_Slip(code) ==
    LET locks == {i \in DOMAIN code : code[i][1] = "check_lock"}
        first == CHOOSE i \in locks : \A j \in locks : i <= j
    IN  IF locks = {} THEN [usesLockTime |-> FALSE, lockTime |-> 0]
        ELSE [usesLockTime |-> TRUE, lockTime |-> code[first][2]]

\* The first lock in the code decides; a lock taken from the stack is not evaluated.
LockTimeRequirement(code) ==
    LET locks == {i \in DOMAIN code : code[i][1] \in {"check_lock", "check_lock_from_stack"}}
        first == CHOOSE i \in locks : \A j \in locks : i <= j
    IN  IF locks = {} THEN [usesLockTime |-> FALSE, lockTime |-> 0]
        ELSE [usesLockTime |-> TRUE,
              lockTime |-> IF code[first][1] = "check_lock" THEN code[first][2] ELSE 0]

InstantiateScript(b) ==
    [script |-> CompileSpendScript(BindCode(Code, b)),
     usesLockTime |-> LockTimeRequirement(BindCode(Code, b)).usesLockTime,
     lockTime |-> LockTimeRequirement(BindCode(Code, b)).lockTime]

CanInstantiate(b) ==
    /\ Only(contract.spends)
    /\ ValidBindings(b)
    /\ ~Unbound(Code)
    /\ BindCode(Code, b) # << >>
    /\ FitsScriptNumbers(BindCode(Code, b))

InstantiateContract(b) ==
    /\ stage = "compiled"
    /\ IF CanInstantiate(b)
       THEN /\ stage' = "instantiated"
            /\ bound' = b
            /\ redeem' = InstantiateScript(b)
            /\ UNCHANGED <<contract, target, warnings, spend>>
       ELSE Reject

-----------------------------------------------------------------------------
(* The harness's own spend.                                                *)

DefaultOf(ty) ==
    CASE ty = "PublicKey"                 -> {Key(Wallet)}
      [] ty = "Hash"                      -> {Digest("zero", Num(0))}
      [] ty \in {"BlockHeight", "Amount"} -> {Num(0)}
      [] ty = "Bool"                      -> {Truth(TRUE)}
      [] ty = "Bytes"                     -> {Bytes("")}
      [] OTHER                            -> {}

IsDefaultBinding(b) == \A p \in ToSet(contract.params) : b[p.name] \in DefaultOf(p.ty)

\* Input 0 is the contract's coin, output 0 returns its value to the wallet; one
\* or two coins pay the fee, and change comes back unless it is dust.
BuiltTransaction(feeCoins, change) ==
    LET fees == [i \in 1 .. feeCoins |-> [value |-> Num(LockAmount), script |-> Script(Wallet)]]
    IN  [inputs   |-> <<[value |-> Num(LockAmount), script |-> ContractScript]>> \o fees,
         outputs  |-> <<[value |-> Num(LockAmount), script |-> Script(Wallet)]>> \o change,
         lockTime |-> redeem.lockTime,
         sequence |-> IF redeem.usesLockTime THEN 0 ELSE MaxSequence]

Changes == {<< >>, <<[value |-> Num(1), script |-> Script(Wallet)]>>}

\* Every argument must be a signature, and each gets the wallet's one signature.
WalletWitness == [i \in DOMAIN Path.params |-> Sig(Wallet)]

OnlySignatures == \A p \in ToSet(Path.params) : p.ty = "Signature"

BuildSpend(feeCoins, change) ==
    LET tx == BuiltTransaction(feeCoins, change)
    IN  /\ stage = "instantiated" /\ target = "verified-tn12" /\ IsDefaultBinding(bound)
        /\ IF OnlySignatures /\ Accepts(redeem.script, WalletWitness, tx)
           THEN /\ stage' = "ready"
                /\ spend' = [tx |-> tx, witness |-> WalletWitness]
                /\ UNCHANGED <<contract, target, warnings, bound, redeem>>
           ELSE Reject

\* The harness broadcasts what it built; a node takes it when it is final.
SubmitBuilt(now) ==
    /\ stage = "ready"
    /\ Final(spend.tx, now)
    /\ Accepts(redeem.script, spend.witness, spend.tx)
    /\ stage' = "spent"
    /\ spend' = [tx |-> spend.tx, witness |-> spend.witness, now |-> now]
    /\ UNCHANGED <<contract, target, warnings, bound, redeem>>

\* One signature for each argument, from any of the signers.
Witnesses == {[i \in DOMAIN Path.params |-> Sig(by[i])] : by \in [DOMAIN Path.params -> Signers]}

\* A spend from elsewhere: any program may instantiate a contract and spend it.
SubmitOther(tx, witness, now) ==
    /\ stage = "instantiated" /\ OnlySignatures
    /\ Final(tx, now)
    /\ Accepts(redeem.script, witness, tx)
    /\ stage' = "spent"
    /\ spend' = [tx |-> tx, witness |-> witness, now |-> now]
    /\ UNCHANGED <<contract, target, warnings, bound, redeem>>

\* What is done with a contract that was read.
Steps ==
    \/ Analyze
    \/ LowerContract
    \/ \E t \in CompileTargets : CompileFor(t)
    \/ \E b \in Bindings : InstantiateContract(b)
    \/ \E feeCoins \in 1 .. 2, change \in Changes : BuildSpend(feeCoins, change)
    \/ \E now \in Moments : SubmitBuilt(now)
    \/ \E tx \in Transactions, now \in Moments :
            stage = "instantiated" /\ \E w \in Witnesses : SubmitOther(tx, w, now)

Next == (\E c \in Contracts : Read(c)) \/ Unreadable \/ Steps

Spec == Init /\ [][Next]_vars

-----------------------------------------------------------------------------
(* Properties.                                                             *)

Stages == {"source", "unreadable", "read", "checked", "lowered", "compiled", "instantiated", "ready",
           "spent", "rejected"}

ScriptOps == {"push", "input_count", "output_count", "input_value", "input_script", "output_value",
              "output_script", "checksig", "checkmultisig", "checklocktimeverify", "sha256", "blake2b",
              "verify", "equal", "numnotequal", "not", "booland", "boolor", "add", "sub",
              "greaterthan", "greaterthanorequal", "lessthan", "lessthanorequal"}

\* Every stage has what the stages before it made, and a script is made of
\* operations the engine has: the gate, the lowering and the encoding agree.
TypeOK ==
    /\ stage \in Stages
    /\ stage \in {"source", "unreadable"} => contract = Nothing
    /\ target \in Targets \cup {Nothing}
    /\ warnings \subseteq {16, 20}
    /\ stage \in {"instantiated", "ready", "spent"} =>
            /\ bound \in Bindings
            /\ redeem.lockTime \in 0 .. I64Max /\ redeem.usesLockTime \in BOOLEAN
            /\ \A op \in ToSet(redeem.script) :
                    op[1] \in ScriptOps /\ (op[1] = "push" /\ IsNum(op[2]) => op[2][2] <= I64Max)
    /\ stage = "spent" => spend.now \in Moments

Environment(tx, witness, now) ==
    LET names == NamesOf(Path.params)
        place(name) == CHOOSE i \in DOMAIN names : names[i] = name
    IN  [tx |-> tx, now |-> now,
         values |-> [name \in ToSet(names) \cup DOMAIN bound |->
                        IF name \in ToSet(names) THEN witness[place(name)] ELSE bound[name]]]

Means(tx, witness, now) == SourceHolds(Path, Environment(tx, witness, now))

\* The same signatures, given to the arguments in another order.
Arrangements(witness) ==
    {[i \in DOMAIN witness |-> witness[p[i]]] : p \in Bijection(DOMAIN witness, DOMAIN witness)}

Locks(e) == {t \in ToSet(Subterms[e]) : IsLock(t)}

SpendLocks == UNION {Locks(e) : e \in ToSet(Requires(Path))}

LockValue(lock, tx, witness, now) == Meaning(lock.kids[2], Environment(tx, witness, now))

\* Heights below the threshold, times at or above it: what the engine tells apart.
LocksOfTheirKind(tx, witness, now) ==
    \A lock \in SpendLocks :
        LET v == LockValue(lock, tx, witness, now)
        IN  IsNum(v) => (v[2] < LockTimeThreshold) = (lock.kids[1].name = "height")

\* What a requirement may be made of for the language to give it a meaning.  Names
\* of parameters stand for their values, and names of arguments for signatures: a
\* signature is asked for by verify or multisig, and that it is there may be
\* negated and combined with other conditions, not computed or compared with.
Counts == {"input_count", "output_count"}

ParamNames == ToSet(NamesOf(contract.params)) \ Counts
ArgNames   == ToSet(NamesOf(Path.params)) \ Counts

TypedNames(types) == {p.name : p \in {p \in ToSet(contract.params) : p.ty \in types}}

ReadsCoin(e) ==
    /\ e.op = "field" /\ e.name \in {"value", "script"}
    /\ \E root \in {"input", "output"} : IsCallOf(e.kids[1], root)
    /\ IsLiteralIndex(Args(e.kids[1])) /\ Len(Args(e.kids[1])) = 1

ReadsScript(e) == ReadsCoin(e) /\ e.name = "script"

\* A script is compared with a name, a literal or another field.
ValueFrom(args, e, value) ==
    CASE e.op = "ident"                    -> e.name \notin args
      [] e.op \in {"int", "bool", "string"} -> TRUE
      [] e.op = "field"                    -> ReadsCoin(e)
      [] e.op = "not"                      -> value[e.kids[1]]
      [] IsPlainLock(e)                    -> value[e.kids[2]]
      [] IsBinary(e) /\ ~IsLock(e)         ->
            /\ e.op \notin {"*", "/", "%"} /\ value[e.kids[1]] /\ value[e.kids[2]]
            /\ ReadsScript(e.kids[1]) => e.kids[2].op \in {"ident", "int", "bool", "string", "field"}
      [] IsCallOf(e, "continuation")       ->
            Len(Args(e)) = 2 /\ Args(e)[1].op = "string" /\ OutputIndex(Args(e)[2]) # {}
      [] IsCallOf(e, "sha256") \/ IsCallOf(e, "blake2b") -> Len(Args(e)) = 1 /\ value[Args(e)[1]]
      [] OTHER                             -> FALSE

IsValue(e, args) == LET value[d \in Exprs] == ValueFrom(args, d, value) IN value[e]

\* A signing term that names its keys and its arguments.
SignsByName(e, params, args) ==
    LET names(list, of) == list.op = "array" /\ \A i \in DOMAIN list.kids : IsNameIn(list.kids[i], of)
    IN  \/ /\ IsVerify(e) /\ Len(Args(e)) = 1
           /\ IsNameIn(Callee(e).kids[1], args) /\ IsNameIn(Args(e)[1], params)
        \/ /\ IsCallOf(e, "multisig") /\ Len(Args(e)) = 3 /\ IsLiteralIndex(Args(e))
           /\ names(Args(e)[2], params) /\ names(Args(e)[3], args)

ConditionFrom(params, args, e, condition) ==
    \/ IsValue(e, args)
    \/ SignsByName(e, params, args)
    \/ /\ e.op \in {"not"} \cup Logical /\ ~ReadsScript(e.kids[1])
       /\ \A i \in DOMAIN e.kids : condition[e.kids[i]]

IsCondition(e, params, args) ==
    LET condition[d \in Exprs] == ConditionFrom(params, args, d, condition) IN condition[e]

\* Requirements alone: what a let or a return leaves on the stack, the signature
\* checks after it take for signatures.
RegularForm ==
    /\ \A s \in ToSet(Path.body) : s.kind = "require"
    /\ \A e \in ToSet(Requires(Path)) : IsCondition(e, ParamNames, ArgNames)

\* Names of the arguments an expression uses, in the order it is evaluated.
ArgumentsFrom(e, of) ==
    IF IsSigning(e)
    THEN [i \in DOMAIN SigningRequirement(e).arguments |-> SigningRequirement(e).arguments[i].name]
    ELSE Concat([i \in DOMAIN e.kids |-> of[e.kids[i]]])

ArgumentsOf[e \in Exprs] == ArgumentsFrom(e, ArgumentsOf)

UsedArguments ==
    Concat([i \in DOMAIN Requires(Path) |-> ArgumentsOf[Requires(Path)[i]]])

\* A script cannot tell that it is to use a signature twice: it takes the next one.
ArgumentsUsedOnce == IsInjective(UsedArguments)

\* A key is bound as a script only where the script was read just before it.
KeysFollowScripts ==
    \A t \in ToSet(RequiredTerms(Path)) :
        t.op = "==" /\ ReadsScript(t.kids[2]) => ~IsNameIn(t.kids[1], TypedNames({"PublicKey"}))

\* A multisig takes as many signatures as it asks for off the stack, those it
\* lists or others: the checker compares the threshold with the keys only.
MultisigsListEnough ==
    \A t \in ToSet(RequiredTerms(Path)) :
        IsSigning(t) => SigningRequirement(t).threshold <= Len(SigningRequirement(t).arguments)

\* A parameter with the name of a builtin has the builtin's type for the checker
\* and its own value for the script, so that a number passes for a truth value.
NoBuiltinIsRequired ==
    \A e \in ToSet(Requires(Path)) : ~IsNameIn(e, DOMAIN BuiltinTypes)

\* A spend the chain accepts is one the source permits, its signatures given to
\* the arguments in some order: nothing between the source and the bytes (the
\* places where values meet on the stack, the lock that aborts instead of being
\* false) lets through what a require forbids.  Besides what has no meaning, five
\* forms are left out: locks of the wrong kind; a key to the left of a script,
\* which is compared with it as a key (negated, that is true where the source is
\* false); a multisig that lists fewer signatures than it asks for; a signature
\* that is asked for twice; and a builtin's name as a whole requirement.
ScriptIsSound ==
    (/\ stage = "spent" /\ RegularForm /\ KeysFollowScripts /\ MultisigsListEnough /\ ArgumentsUsedOnce
     /\ NoBuiltinIsRequired /\ LocksOfTheirKind(spend.tx, spend.witness, spend.now))
        => \E w \in Arrangements(spend.witness) : Means(spend.tx, w, spend.now)

FirstEvaluated[e \in Exprs] == IF IsBinary(e) \/ e.op = "not" THEN FirstEvaluated[e.kids[1]] ELSE e

\* Signatures wait at the bottom of the stack: a signing term finds them only
\* before anything else of its requirement is on the stack.
SigningLeads ==
    \A e \in ToSet(Requires(Path)) : \A t \in ToSet(Subterms[e]) : IsSigning(t) => t = FirstEvaluated[e]

\* Every argument is used, and no multisig is given more or less than it asks for.
ArgumentsAreUsed ==
    /\ ArgumentsUsedOnce /\ Len(UsedArguments) = Len(Path.params)
    /\ \A t \in ToSet(RequiredTerms(Path)) :
            IsSigning(t) => SigningRequirement(t).threshold = Len(SigningRequirement(t).arguments)

\* A lock aborts when it is not reached: it can be demanded but not weighed.
LocksAreDemands ==
    \A e \in ToSet(Requires(Path)) : Locks(e) \subseteq ToSet(Conjuncts[e])

\* Inequality is numeric.
IsNumeric(e) ==
    \/ e.op \in {"int", "bool", "not"} \cup Logical \cup Comparisons \cup Arithmetic
    \/ IsNameIn(e, Counts \cup TypedNames({"Amount", "BlockHeight", "Bool"}))
    \/ e.op = "field" /\ e.name = "value"
    \/ IsCallOf(e, "continuation")

InequalitiesAreNumeric ==
    \A t \in ToSet(RequiredTerms(Path)) : t.op = "!=" => \A i \in 1 .. 2 : IsNumeric(t.kids[i])

LocksCommitted(tx, witness, now) ==
    \A lock \in SpendLocks :
        LET v == LockValue(lock, tx, witness, now) IN IsNum(v) /\ LockTimeReached(v[2], tx)

\* Whatever the source permits, the script accepts.
AcceptsAllMeant ==
    \A tx \in Transactions, now \in Moments, w \in Witnesses :
        Final(tx, now) /\ Means(tx, w, now) /\ LocksCommitted(tx, w, now) =>
            \E arranged \in Arrangements(w) : Accepts(redeem.script, arranged, tx)

SpendableForm == OnlySignatures /\ RegularForm /\ SigningLeads /\ ArgumentsAreUsed /\ LocksAreDemands
                 /\ InequalitiesAreNumeric

\* A source in the form above, with keys to the right of scripts, loses nothing in
\* compilation: each spend it permits is accepted, so no coin locked under such a
\* script is locked more tightly than the source says.
NothingLost ==
    stage = "instantiated" /\ SpendableForm /\ KeysFollowScripts => AcceptsAllMeant

SimpleLock ==
    Cardinality(SpendLocks) <= 1 /\ \A lock \in SpendLocks : lock.kids[2].op \in {"int", "ident"}

\* The harness can spend what it locks: where there is one lock and no arithmetic
\* in it, the spend it builds (its lock time read off the code, its sequence
\* following from that) passes its own validation whenever the source permits that
\* spend, so that what was locked on chain by then is not left there.
HarnessMeetsItsLock ==
    stage = "instantiated" /\ IsDefaultBinding(bound) /\ SpendableForm /\ KeysFollowScripts /\ SimpleLock =>
        \A feeCoins \in 1 .. 2, change \in Changes :
            LET tx == BuiltTransaction(feeCoins, change)
            IN  (\E now \in Moments : Final(tx, now) /\ Means(tx, WalletWitness, now))
                    => Accepts(redeem.script, WalletWitness, tx)

BindingHolds(b, env) ==
    BinaryMeaning(b.relation, CoinMeaning(env.tx.outputs, b.index, b.field), Meaning(b.expected, env)) = Truth(TRUE)

\* What the application model tells a wallet of a spend holds of every accepted
\* one: exact counts, output bindings (which it may have turned round), and the
\* named outputs that are demanded outright.
ModelIsTrue ==
    (/\ stage = "spent" /\ RegularForm /\ KeysFollowScripts
     /\ LocksOfTheirKind(spend.tx, spend.witness, spend.now)) =>
        LET model == TransitionModel(Path)
        IN  /\ \A fact \in model.counts :
                    fact.n = Len(IF fact.of = "input_count" THEN spend.tx.inputs ELSE spend.tx.outputs)
            /\ \A b \in model.bindings : BindingHolds(b, Environment(spend.tx, spend.witness, spend.now))
            /\ \A e \in ToSet(Requires(Path)) : \A c \in ToSet(Conjuncts[e]) :
                    IsCallOf(c, "continuation") => \A i \in OutputIndex(c.kids[3]) : i < Len(spend.tx.outputs)

\* A wallet that is told a spend needs k signatures by certain keys, outright, can
\* rely on it: as many of the spend's signatures are by those keys.
SignersAreNeeded ==
    stage = "spent" /\ RegularForm =>
        \A e \in ToSet(Requires(Path)) : \A c \in ToSet(Conjuncts[e]) : IsSigning(c) =>
            LET need == SigningRequirement(c)
                keys == {bound[need.keys[i].name] : i \in DOMAIN need.keys}
            IN  Cardinality({i \in DOMAIN spend.witness : Key(spend.witness[i][2]) \in keys}) >= need.threshold

=============================================================================
