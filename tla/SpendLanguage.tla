---------------------------- MODULE SpendLanguage ----------------------------
(***************************************************************************)
(* The contract language: its syntax trees, the semantic checker, the      *)
(* application model a wallet is given, and what an expression means of a  *)
(* transaction (the reference the emitted script is held against).         *)
(*                                                                         *)
(* A node of a tree is [op, name, n, kids]; the callee of a call is its    *)
(* first kid.  A label that is no identifier is the empty string.          *)
(***************************************************************************)
EXTENDS Integers, SequencesExt

CONSTANTS U32Max,
          I64Max,       \* the largest number of a script
          Depth,        \* how deep each expression is that may be read
          MaxDepth      \* how deep they may be

ASSUME WidthsAssumption == U32Max \in Nat /\ I64Max \in Nat \ {0} /\ U32Max <= I64Max

\* Sequences one after the other, each of them computed once.
Concat(parts) == FlattenSeq(<< >> \o parts)

Node(op, name, n, kids) == [op |-> op, name |-> name, n |-> n, kids |-> kids]

Ident(name)         == Node("ident", name, 0, << >>)
Number(n)           == Node("int", "", n, << >>)
Text(s)             == Node("string", s, 0, << >>)
Flag(b)             == Node("bool", "", IF b THEN 1 ELSE 0, << >>)
ListOf(es)          == Node("array", "", 0, es)
Unary(op, e)        == Node(op, "", 0, <<e>>)
Binary(op, l, r)    == Node(op, "", 0, <<l, r>>)
Field(object, name) == Node("field", name, 0, <<object>>)
Call(f, args)       == Node("call", "", 0, <<Ident(f)>> \o args)
Method(object, f, args) == Node("call", "", 0, <<Field(object, f)>> \o args)

Logical     == {"and", "or"}
Comparisons == {"==", "!=", ">", ">=", "<", "<="}
Arithmetic  == {"+", "-", "*", "/", "%"}

Let(name, e) == [kind |-> "let", name |-> name, expr |-> e]
Require(e)   == [kind |-> "require", name |-> "", expr |-> e]
Return(e)    == [kind |-> "return", name |-> "", expr |-> e]

Callee(e) == e.kids[1]
Args(e)   == Tail(e.kids)

IsBinary(e)    == e.op \in Logical \cup Comparisons \cup Arithmetic
IsName(e, x)   == e.op = "ident" /\ e.name = x
IsNameIn(e, xs) == e.op = "ident" /\ e.name \in xs
IsCallOf(e, f) == e.op = "call" /\ IsName(Callee(e), f)
IsVerify(e)    == e.op = "call" /\ Callee(e).op = "field" /\ Callee(e).name = "verify"

\* The names along e are x alone: what is neither a name nor a field is not looked at,
\* so that [a].x passes for x.
IsPath(e, x) == IsName(e, x) \/ (e.op = "field" /\ e.name = x /\ e.kids[1].op \notin {"ident", "field"})

\* block.height >= e and block.time >= e.
IsBlockField(e) == e.op = "field" /\ e.name \in {"height", "time"} /\ IsPath(e.kids[1], "block")
IsLock(e)       == e.op = ">=" /\ IsBlockField(e.kids[1])

\* Only of the block itself has the comparison a meaning.
IsPlainLock(e)  == IsLock(e) /\ IsName(e.kids[1].kids[1], "block")

\* The expressions that may be read, with all their parts.
Exprs == DOMAIN Depth

\* The parts each kind of node has, and what else it says.
Shaped(e) ==
    /\ CASE e.op \in {"ident", "int", "string", "bool"} -> Len(e.kids) = 0
         [] e.op \in {"not", "negate", "field"}         -> Len(e.kids) = 1
         [] e.op = "call"                               -> Len(e.kids) > 0
         [] e.op = "array"                              -> TRUE
         [] OTHER                                       -> IsBinary(e) /\ Len(e.kids) = 2
    /\ e.op = "bool" => e.n \in {0, 1}

\* Expressions are finite trees.
ASSUME ExprsAssumption ==
    /\ MaxDepth \in Nat /\ Depth \in [Exprs -> 0 .. MaxDepth]
    /\ \A e \in Exprs :
          /\ e = Node(e.op, e.name, e.n, e.kids) /\ e.name \in STRING /\ e.n \in Nat /\ e.kids \in Seq(Exprs)
          /\ Shaped(e)
          /\ \A i \in DOMAIN e.kids : Depth[e.kids[i]] < Depth[e]

\* The expression and all its parts, from the outside in and from the left.
SubtermsFrom(e, of) == <<e>> \o Concat([i \in DOMAIN e.kids |-> of[e.kids[i]]])
Subterms[e \in Exprs] == SubtermsFrom(e, Subterms)

\* Names an expression mentions, those of fields included.
Mentions(e, name) == \E t \in ToSet(Subterms[e]) : t.op \in {"ident", "field"} /\ t.name = name

Requires(spend) ==
    Concat([i \in DOMAIN spend.body |->
                    IF spend.body[i].kind = "require" THEN <<spend.body[i].expr>> ELSE << >>])

\* Every part of every requirement of a spend path, in source order.
RequiredTerms(spend) ==
    Concat([i \in DOMAIN Requires(spend) |-> Subterms[Requires(spend)[i]]])

-----------------------------------------------------------------------------
(* What both the checker and the application model read off a body.        *)

\* output(n) with a literal index: the set of its index, or the empty set.
OutputIndex(e) ==
    IF IsCallOf(e, "output") /\ Len(Args(e)) = 1 /\ Args(e)[1].op = "int" /\ Args(e)[1].n <= U32Max
    THEN {Args(e)[1].n} ELSE {}

CountSubject(e) ==
    IF e.op = "ident" /\ e.name \in {"input_count", "output_count"} THEN {e.name} ELSE {}

\* input_count == n, either way round: the set of its fact, or the empty set.
ExactCount(e) ==
    IF e.op # "==" THEN {}
    ELSE LET l == e.kids[1]  r == e.kids[2]
         IN  CASE CountSubject(l) # {} /\ r.op = "int" -> {[of |-> s, n |-> r.n] : s \in CountSubject(l)}
               [] CountSubject(r) # {} /\ l.op = "int" -> {[of |-> s, n |-> l.n] : s \in CountSubject(r)}
               [] OTHER -> {}

ConjunctsFrom(e, of) == IF e.op = "and" THEN of[e.kids[1]] \o of[e.kids[2]] ELSE <<e>>
Conjuncts[e \in Exprs] == ConjunctsFrom(e, Conjuncts)

\* The exact counts a body states outside every negation and alternative.
ExactCounts(spend) ==
    UNION {ExactCount(c) : c \in ToSet(Concat([i \in DOMAIN Requires(spend) |->
                                                        Conjuncts[Requires(spend)[i]]]))}

\* Indexes used with input(n) and output(n).
IndexesOf(spend, f) ==
    {t.kids[2].n : t \in {t \in ToSet(RequiredTerms(spend)) :
                            IsCallOf(t, f) /\ Args(t) # << >> /\ Args(t)[1].op = "int"}}

\* Continuations in source order, those under a negation or an alternative included.
Continuations(spend) ==
    LET isContinuation(t) == IsCallOf(t, "continuation") /\ Args(t) # << >> /\ Args(t)[1].op = "string"
    IN  SelectSeq(RequiredTerms(spend), isContinuation)

-----------------------------------------------------------------------------
(* Semantic checker.  A context is the set of spend names and a scope from *)
(* names to types; "none" is the type of what has none.                    *)

BuiltinTypes ==
    [name \in {"block", "covenant_id", "sequencing", "input_count", "output_count", "input", "output",
               "multisig", "zk_verify", "sha256", "blake2b", "hash160"} |->
        CASE name = "block"                          -> "BlockHeight"
          [] name = "covenant_id"                    -> "CovenantID"
          [] name = "sequencing"                     -> "Hash"
          [] name \in {"input_count", "output_count"} -> "Amount"
          [] OTHER                                   -> "Bool"]

HashFunctions == {"sha256", "blake2b", "hash160"}

IdentType(name, ctx) ==
    IF name \in ctx.spends THEN "none"
    ELSE IF name \in DOMAIN BuiltinTypes THEN BuiltinTypes[name]
    ELSE IF name \in DOMAIN ctx.scope THEN ctx.scope[name] ELSE "none"

CallType(e) ==
    CASE IsVerify(e)               -> "Bool"
      [] IsCallOf(e, "input")      -> "Input"
      [] IsCallOf(e, "output")     -> "Output"
      [] \E f \in HashFunctions : IsCallOf(e, f) -> "Hash"
      [] OTHER                     -> "Bool"

FieldType(e, ctx, type) ==
    LET object == e.kids[1]
    IN  CASE IsName(object, "block") -> IF e.name \in {"height", "time"} THEN "BlockHeight" ELSE "none"
          [] IsName(object, "covenant_id") /\ e.name = "depth" -> "BlockHeight"
          [] IsName(object, "sequencing") -> "BlockHeight"
          [] type[object] \in {"Input", "Output"} ->
                CASE e.name = "value"       -> "Amount"
                  [] e.name = "script"      -> "Bytes"
                  [] e.name = "covenant_id" -> "CovenantID"
                  [] OTHER                  -> "none"
          [] OTHER -> type[object]

TypeFrom(ctx, e, type) ==
    CASE e.op = "ident"             -> IdentType(e.name, ctx)
      [] e.op \in {"int"} \cup Arithmetic -> "Amount"
      [] e.op \in {"string", "array"}     -> "Bytes"
      [] e.op \in {"bool", "not", "negate"} \cup Logical \cup Comparisons -> "Bool"
      [] e.op = "call"              -> CallType(e)
      [] e.op = "field"             -> FieldType(e, ctx, type)

TypeOf(e, ctx) == LET type[d \in Exprs] == TypeFrom(ctx, d, type) IN type[e]

CallWellTyped(e, ctx, ok) ==
    LET args == Args(e)
        all  == \A i \in DOMAIN args : ok[args[i]]
    IN  CASE IsVerify(e) ->
                /\ ok[Callee(e).kids[1]] /\ TypeOf(Callee(e).kids[1], ctx) = "Signature"
                /\ Len(args) = 1 /\ all /\ TypeOf(args[1], ctx) = "PublicKey"
          [] IsCallOf(e, "input") \/ IsCallOf(e, "output") ->
                Len(args) = 1 /\ args[1].op = "int" /\ args[1].n <= U32Max
          [] IsCallOf(e, "continuation") ->
                Len(args) = 2 /\ args[1].op = "string" /\ args[1].name # "" /\ OutputIndex(args[2]) # {}
          [] IsCallOf(e, "zk_verify") -> Len(args) = 1 /\ all /\ TypeOf(args[1], ctx) = "ZKProof"
          [] IsCallOf(e, "multisig") ->
                Len(args) = 3 /\ all /\ args[1].op = "int"
                /\ (args[2].op = "array" => args[1].n <= Len(args[2].kids))
          [] \E f \in HashFunctions : IsCallOf(e, f) -> Len(args) = 1 /\ all
          [] OTHER -> ok[Callee(e)] /\ all

WellTypedFrom(ctx, e, ok) ==
    CASE e.op = "ident" -> IdentType(e.name, ctx) # "none"
      [] e.op = "call"  -> CallWellTyped(e, ctx, ok)
      [] e.op = "field" ->
            /\ TypeOf(e, ctx) # "none"
            /\ \/ IsName(e.kids[1], "block") \/ IsName(e.kids[1], "sequencing")
               \/ IsName(e.kids[1], "covenant_id") /\ e.name = "depth"
               \/ ok[e.kids[1]]
      [] OTHER -> /\ \A i \in DOMAIN e.kids : ok[e.kids[i]]
                  /\ e.op \in {"not"} \cup Logical => \A i \in DOMAIN e.kids : TypeOf(e.kids[i], ctx) = "Bool"

\* No error is reported for e: operands of a comparison or a sum may be of any type.
WellTyped(e, ctx) == LET ok[d \in Exprs] == WellTypedFrom(ctx, d, ok) IN ok[e]

\* A named value is in scope from the next statement on.
ContextFrom(body, ctx, i, before) ==
    IF i = 1 THEN ctx
    ELSE LET s == body[i - 1]
         IN  IF s.kind = "let"
             THEN [before[i - 1] EXCEPT !.scope = @ @@ s.name :> TypeOf(s.expr, before[i - 1])]
             ELSE before[i - 1]

StatementsCheck(body, ctx) ==
    LET before[i \in 1 .. Len(body) + 1] == ContextFrom(body, ctx, i, before)
    IN  \A i \in DOMAIN body :
            /\ WellTyped(body[i].expr, before[i])
            /\ body[i].kind = "require" => TypeOf(body[i].expr, before[i]) = "Bool"
            /\ body[i].kind = "let" => body[i].name \notin DOMAIN before[i].scope

\* Exact counts agree with each other and exceed every index used.
ShapeChecks(spend) ==
    \A fact \in ExactCounts(spend) :
        /\ fact.n <= U32Max
        /\ \A other \in ExactCounts(spend) : other.of = fact.of => other.n = fact.n
        /\ \A i \in IndexesOf(spend, IF fact.of = "input_count" THEN "input" ELSE "output") : i < fact.n

NamesOf(params) == [i \in DOMAIN params |-> params[i].name]
ScopeOf(params) == [x \in ToSet(NamesOf(params)) |->
                        (CHOOSE p \in ToSet(params) : p.name = x).ty]

SpendChecks(contract, spend) ==
    LET scope == ScopeOf(contract.params \o spend.params)
        ctx   == [scope |-> scope, spends |-> {s.name : s \in ToSet(contract.spends)}]
    IN  /\ IsInjective(NamesOf(contract.params \o spend.params))
        /\ StatementsCheck(spend.body, ctx)
        /\ Requires(spend) # << >>
        /\ IsInjective([i \in DOMAIN Continuations(spend) |-> Continuations(spend)[i].kids[2].name])
        /\ (\E s \in ToSet(spend.body) : Mentions(s.expr, "covenant_id")) => contract.finality_depth > 0
        /\ ShapeChecks(spend)

\* finality_depth is -1 where the source declares none; an explicit zero is refused.
ContractChecks(contract) ==
    /\ contract.finality_depth # 0
    /\ IsInjective(NamesOf(contract.spends))
    /\ \A s \in ToSet(contract.spends) : SpendChecks(contract, s)

\* KIPs a contract stands on.
KipRequirements(contract) ==
    LET uses(name) == \E s \in ToSet(contract.spends) : \E st \in ToSet(s.body) : Mentions(st.expr, name)
        named(name) == \E s \in ToSet(contract.spends) : \E st \in ToSet(s.body) :
                            \E t \in ToSet(Subterms[st.expr]) : IsName(t, name)
    IN  {k \in {10, 15, 16, 20} :
            CASE k = 10 -> \E f \in {"input", "output", "input_count", "output_count"} : named(f)
              [] k = 15 -> named("sequencing")
              [] k = 16 -> named("zk_verify")
              [] k = 20 -> uses("covenant_id")}

-----------------------------------------------------------------------------
(* Application model of a spend path.                                      *)

\* Mutant: a comparison is turned round without its sign.
ReverseRelation_Slip(op) == op

ReverseRelation(op) ==
    CASE op = ">"  -> "<"
      [] op = ">=" -> "<="
      [] op = "<"  -> ">"
      [] op = "<=" -> ">="
      [] OTHER     -> op

\* output(n).f: the set of its index and field, or the empty set.
OutputField(e) ==
    IF e.op = "field" /\ e.name \in {"value", "script", "covenant_id"}
    THEN {[index |-> i, field |-> e.name] : i \in OutputIndex(e.kids[1])}
    ELSE {}

\* What a requirement says of one output: only where it is the whole requirement.
OutputBinding(e) ==
    IF ~IsBinary(e) THEN {}
    ELSE LET of(i) == OutputField(e.kids[i])
             bind(o, rel, x) == [index |-> o.index, field |-> o.field, relation |-> rel, expected |-> x]
         IN  IF of(1) # {} THEN {bind(o, e.op, e.kids[2]) : o \in of(1)}
             ELSE {bind(o, ReverseRelation(e.op), e.kids[1]) : o \in of(2)}

IsSigning(t) == IsVerify(t) \/ IsCallOf(t, "multisig")

\* Mutant: every listed key is said to be needed.
SigningRequirement_Slip(t) ==
    IF IsVerify(t)
    THEN [threshold |-> 1, keys |-> <<Args(t)[1]>>, arguments |-> <<Callee(t).kids[1]>>]
    ELSE [threshold |-> Len(Args(t)[2].kids), keys |-> Args(t)[2].kids, arguments |-> Args(t)[3].kids]

\* Whose keys a signing term names, with which arguments, and how many must sign.
SigningRequirement(t) ==
    LET items(e) == IF e.op = "array" THEN e.kids ELSE <<e>>
    IN  IF IsVerify(t)
        THEN [threshold |-> 1, keys |-> <<Args(t)[1]>>, arguments |-> <<Callee(t).kids[1]>>]
        ELSE [threshold |-> Args(t)[1].n, keys |-> items(Args(t)[2]), arguments |-> items(Args(t)[3])]

\* Who must sign with which argument, wherever in a requirement it is asked.
SigningRequirements(spend) ==
    LET terms == SelectSeq(RequiredTerms(spend), IsSigning)
    IN  [i \in DOMAIN terms |-> SigningRequirement(terms[i])]

Successors(spend) ==
    UNION {{[name |-> c.kids[2].name, index |-> i] : i \in OutputIndex(c.kids[3])} :
            c \in ToSet(Continuations(spend))}

\* How strongly the source binds what comes next.
ContinuationKind(bindings, successors) ==
    IF \E b \in bindings : b.field = "covenant_id" THEN "covenant-lineage-bound"
    ELSE IF \E b \in bindings : b.field = "script" THEN "output-script-bound"
    ELSE IF successors # {} THEN "named-output" ELSE "unspecified"

TransitionModel(spend) ==
    LET bindings == UNION {OutputBinding(e) : e \in ToSet(Requires(spend))}
    IN  [signing    |-> SigningRequirements(spend),
         counts     |-> ExactCounts(spend),
         bindings   |-> bindings,
         successors |-> Successors(spend),
         kind       |-> ContinuationKind(bindings, Successors(spend))]

-----------------------------------------------------------------------------
(* What an expression means of a transaction.  A value is a pair of a kind *)
(* and what it is of that kind; a truth value is the number 0 or 1.  An    *)
(* expression without a meaning is Undefined, and so is all that contains  *)
(* it.  An environment has the transaction, the moment it is accepted at,  *)
(* and the values of the contract's parameters and the spend's arguments.  *)

Num(n)    == <<"num", n>>
Truth(b)  == Num(IF b THEN 1 ELSE 0)
Key(k)    == <<"key", k>>
Script(k) == <<"script", k>>
Sig(k)    == <<"sig", k>>
Bytes(s)  == <<"bytes", s>>
Digest(f, v) == <<"digest", <<f, v>>>>
Undefined == <<"undefined">>

IsNum(v) == v[1] = "num"

\* A key equals a script when the script pays to that key.
SameValue(v, w) ==
    CASE v[1] = "key" /\ w[1] = "script" -> w = Script(v[2])
      [] v[1] = "script" /\ w[1] = "key" -> v = Script(w[2])
      [] OTHER                           -> v = w

\* A number that a script can hold.
Fitting(n) == IF n \in -I64Max .. I64Max THEN Num(n) ELSE Undefined

NumericResult(op, m, n) ==
    CASE op = "and" -> Truth(m # 0 /\ n # 0)
      [] op = "or"  -> Truth(m # 0 \/ n # 0)
      [] op = ">"   -> Truth(m > n)
      [] op = ">="  -> Truth(m >= n)
      [] op = "<"   -> Truth(m < n)
      [] op = "<="  -> Truth(m <= n)
      [] op = "+"   -> Fitting(m + n)
      [] op = "-"   -> Fitting(m - n)
      [] OTHER      -> Undefined

BinaryMeaning(op, v, w) ==
    IF Undefined \in {v, w} THEN Undefined
    ELSE CASE op = "=="                -> Truth(SameValue(v, w))
           [] op = "!="                -> Truth(~SameValue(v, w))
           [] op \notin {"==", "!="}   ->
                IF IsNum(v) /\ IsNum(w) THEN NumericResult(op, v[2], w[2]) ELSE Undefined

\* At least k of the signatures are by as many of the keys.
EnoughSign(k, keys, sigs) ==
    \E chosen \in SUBSET DOMAIN sigs :
        /\ Cardinality(chosen) = k
        /\ \E by \in Injection(chosen, DOMAIN keys) :
                \A i \in chosen : sigs[i][1] = "sig" /\ keys[by[i]] = Key(sigs[i][2])

IdentMeaning(name, env) ==
    CASE name = "input_count"  -> Num(Len(env.tx.inputs))
      [] name = "output_count" -> Num(Len(env.tx.outputs))
      [] OTHER                 -> IF name \in DOMAIN env.values THEN env.values[name] ELSE Undefined

CoinMeaning(coins, n, field) ==
    IF n < Len(coins) /\ field \in {"value", "script"} THEN coins[n + 1][field] ELSE Undefined

FieldMeaning(e, env) ==
    LET object == e.kids[1]
        of(coins) == IF Args(object) # << >> THEN CoinMeaning(coins, Args(object)[1].n, e.name) ELSE Undefined
    IN  CASE IsName(object, "block") /\ e.name = "height" -> Num(env.now.score)
          [] IsName(object, "block") /\ e.name = "time"   -> Num(env.now.time)
          [] IsCallOf(object, "input")  -> of(env.tx.inputs)
          [] IsCallOf(object, "output") -> of(env.tx.outputs)
          [] OTHER -> Undefined

VerifyMeaning(sig, key) ==
    IF sig[1] = "sig" /\ key[1] = "key" THEN Truth(sig = Sig(key[2])) ELSE Undefined

MultisigMeaning(k, keys, sigs) ==
    IF Undefined \in ToSet(keys) \cup ToSet(sigs) THEN Undefined ELSE Truth(EnoughSign(k, keys, sigs))

CallMeaning(e, env, of) ==
    LET args == Args(e)
        all(list) == [i \in DOMAIN list.kids |-> of[list.kids[i]]]
    IN  CASE IsVerify(e) /\ Len(args) = 1 -> VerifyMeaning(of[Callee(e).kids[1]], of[args[1]])
          [] IsCallOf(e, "multisig") /\ Len(args) = 3 ->
                MultisigMeaning(args[1].n, all(args[2]), all(args[3]))
          [] IsCallOf(e, "continuation") /\ Len(args) = 2 ->
                Truth(\A i \in OutputIndex(args[2]) : i < Len(env.tx.outputs))
          [] (\E f \in HashFunctions : IsCallOf(e, f)) /\ Len(args) = 1 ->
                IF of[args[1]] = Undefined THEN Undefined ELSE Digest(Callee(e).name, of[args[1]])
          [] OTHER -> Undefined

MeaningFrom(env, e, of) ==
    CASE e.op = "ident"            -> IdentMeaning(e.name, env)
      [] e.op \in {"int", "bool"}  -> Num(e.n)
      [] e.op = "string"           -> Bytes(e.name)
      [] e.op = "not"   -> IF IsNum(of[e.kids[1]]) THEN Truth(of[e.kids[1]][2] = 0) ELSE Undefined
      [] IsBinary(e)    -> BinaryMeaning(e.op, of[e.kids[1]], of[e.kids[2]])
      [] e.op = "field" -> FieldMeaning(e, env)
      [] e.op = "call"  -> CallMeaning(e, env, of)
      [] OTHER          -> Undefined

Meaning(e, env) == LET of[d \in Exprs] == MeaningFrom(env, d, of) IN of[e]

\* What a spend path asks of a transaction: that all its requirements be true.
SourceHolds(spend, env) == \A e \in ToSet(Requires(spend)) : Meaning(e, env) = Truth(TRUE)

=============================================================================
