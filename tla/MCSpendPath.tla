---------------------------- MODULE MCSpendPath ----------------------------
(***************************************************************************)
(* Small contracts for SpendPath: conditions of every kind the language    *)
(* has, alone, in pairs under each connective, and the repository's own    *)
(* single-path contracts.                                                  *)
(***************************************************************************)
EXTENDS SourcePath

owner  == Ident("owner")
heir   == Ident("heir")
unlock == Ident("unlock")
floor  == Ident("floor")
sig    == Ident("sig")
sig2   == Ident("sig2")

Out(i, f) == Field(Call("output", <<Number(i)>>), f)
In(i, f)  == Field(Call("input", <<Number(i)>>), f)
Height    == Field(Ident("block"), "height")
Time      == Field(Ident("block"), "time")

Verify(s, k) == Method(s, "verify", <<k>>)
Signed       == Verify(sig, owner)
Continue(n)  == Call("continuation", <<Text("next"), Call("output", <<Number(n)>>)>>)

Param(name, ty) == [name |-> name, ty |-> ty]

Params == <<Param("owner", "PublicKey"), Param("heir", "PublicKey"),
            Param("unlock", "BlockHeight"), Param("floor", "Amount")>>

Path1(args, body) ==
    [name |-> "claim", params |-> [i \in DOMAIN args |-> Param(args[i], "Signature")], body |-> body]

Source(spends) == [params |-> Params, finality_depth |-> -1, spends |-> spends]

One(args, exprs) == Source(<<Path1(args, [i \in DOMAIN exprs |-> Require(exprs[i])])>>)

\* Conditions on a transaction: some compile and bind, some do not.
PairedConditions ==
    {Binary(">=", Height, Number(2)), Binary(">=", Height, unlock),
     Binary("==", Out(0, "script"), owner), Binary("==", owner, Out(0, "script")),
     Binary("<=", floor, Out(0, "value")), Binary("==", Ident("output_count"), Number(1)),
     Continue(1), Binary("==", owner, heir)}

SingleConditions ==
    PairedConditions \cup
    {Binary(">=", Time, Number(6)), Binary(">=", Time, Number(2)),
     Binary(">=", Height, Binary("+", Number(1), unlock)),
     Binary(">", Height, Number(2)), Binary("<=", Number(2), Height),
     Binary("!=", owner, heir), Binary("!=", Out(0, "value"), floor),
     Binary("<", floor, Out(1, "value")), Binary(">", Number(2), Out(0, "value")),
     Binary("==", Out(0, "script"), In(0, "script")),
     Binary(">=", Out(0, "value"), Binary("-", In(0, "value"), floor)),
     Binary("==", Number(1), Ident("input_count")),
     Binary("==", Call("sha256", <<owner>>), Call("sha256", <<heir>>)),
     Flag(TRUE), Call("output", <<Number(0)>>)}

Refused ==
    {Binary(">=", Out(0, "value"), Number(I64Max + 1)),
     Binary(">=", Out(U32Max + 1, "value"), floor),
     Binary(">=", Out(0, "value"), Unary("negate", floor)),
     Binary(">=", Binary("*", Out(0, "value"), Number(2)), floor),
     Binary(">=", Out(0, "owner"), floor),
     Binary("==", Call("hash160", <<owner>>), Call("hash160", <<heir>>)),
     Binary("==", Field(Ident("sequencing"), "depth"), floor),
     Binary("==", Ident("sequencing"), owner),
     Call("zk_verify", <<owner>>), Ident("zk_verify"), Ident("nobody"), floor,
     Call("multisig", <<Number(3), ListOf(<<owner, heir>>), ListOf(<<sig, sig2>>)>>)}

With(c) == One(<<"sig">>, <<Signed, c>>)

Singles == {With(c) : c \in SingleConditions} \cup {With(Unary("not", c)) : c \in SingleConditions}

Pairs ==
    LET both(op) == {Binary(op, c, d) : c \in PairedConditions, d \in PairedConditions}
        pairs    == both("and") \cup both("or")
    IN  {With(e) : e \in pairs} \cup {With(Unary("not", e)) : e \in pairs}

\* Where a signature stands in its requirement, and which requirement it is in.
Placed ==
    UNION {{One(<<"sig">>, <<Binary(op, Signed, c)>>), One(<<"sig">>, <<Binary(op, c, Signed)>>),
            One(<<"sig">>, <<c, Signed>>), One(<<"sig">>, <<c, Unary("not", Signed)>>), One(<<"sig">>, <<c>>)}
            : op \in {"and", "or"}, c \in PairedConditions}

Signings ==
    {One(<<"sig", "sig2">>, <<Verify(sig, owner), Verify(sig2, heir)>>),
     One(<<"sig", "sig2">>, <<Verify(sig2, heir), Verify(sig, owner)>>),
     One(<<"sig", "sig2">>, <<Binary("and", Verify(sig, owner), Verify(sig2, heir))>>),
     One(<<"sig", "sig2">>, <<Verify(sig, owner)>>),
     One(<<"sig">>, <<Verify(sig, owner), Verify(sig, heir)>>)} \cup
    {One(args, <<Call("multisig", <<Number(k), ListOf(<<owner, heir>>), ListOf(sigs)>>), c>>) :
        k \in 1 .. 2, args \in {<<"sig">>, <<"sig", "sig2">>},
        sigs \in {<<sig, sig2>>, <<sig2, sig>>, <<sig>>},
        c \in {Binary("<=", floor, Out(0, "value")), Binary(">=", Height, unlock)}}

\* Statements other than requires, several locks, several paths, other arguments.
Shapes ==
    {Source(<<Path1(<<"sig">>, <<Let("due", unlock), Require(Signed), Require(Binary(">=", Height, Ident("due")))>>)>>),
     Source(<<Path1(<<"sig">>, <<Require(Signed), Return(floor)>>)>>),
     Source(<<Path1(<<"sig">>, <<Return(floor)>>)>>),
     One(<<"sig">>, <<Signed, Binary(">=", Height, Number(1)), Binary(">=", Height, Number(2))>>),
     One(<<"sig">>, <<Signed, Binary(">=", Height, Number(2)), Binary(">=", Height, Number(1))>>),
     One(<<"sig">>, <<Signed, Binary("==", Ident("output_count"), Number(1)), Continue(1)>>),
     One(<<"sig">>, <<Signed, Continue(0), Binary("==", Ident("output_count"), Number(2))>>),
     One(<<"sig">>, <<Signed, Continue(0), Continue(1)>>),
     Source(<<Path1(<<"sig">>, <<Require(Signed)>>),
              [Path1(<<"sig">>, <<Require(Verify(sig, heir))>>) EXCEPT !.name = "recover"]>>),
     Source(<<[Path1(<<"sig">>, <<Require(Signed)>>) EXCEPT !.params = Append(@, Param("secret", "Bytes"))]>>),
     [One(<<"sig">>, <<Signed, Binary("==", Ident("covenant_id"), Ident("covenant_id"))>>) EXCEPT !.finality_depth = 10],
     [One(<<"sig">>, <<Signed>>) EXCEPT !.finality_depth = 0],
     One(<<"sig", "sig2">>,                     \* buyer_seller_escrow.ks, its release alone
         <<Call("multisig", <<Number(2), ListOf(<<owner, heir>>), ListOf(<<sig, sig2>>)>>),
           Binary("==", Ident("input_count"), Number(1)), Binary("==", Ident("output_count"), Number(1)),
           Binary(">", In(0, "value"), floor),
           Binary(">=", Out(0, "value"), Binary("-", In(0, "value"), floor)),
           Binary("==", Out(0, "script"), heir)>>),
     One(<<"sig", "sig">>, <<Signed>>), One(<<"owner">>, <<Signed>>)} \cup
    {With(c) : c \in Refused}

\* Signatures computed with, used twice, left over or eaten by what a return
\* leaves on the stack; lists that are no multisig's; sums and hashes of what is
\* not there; arguments with the names of what the language has.
Odd ==
    LET sha(e) == Call("sha256", <<e>>)
        none   == Out(3, "script")
        multi(k, sigs) == Call("multisig", <<Number(k), ListOf(<<owner, heir>>), ListOf(sigs)>>)
        refund == Unary("not", Verify(sig, heir))
        both   == <<"sig", "sig2">>
    IN  {One(both, <<e>>) :
            e \in {Binary("==", Ident("output_count"), Signed), Binary("==", Signed, Number(1)),
                  Binary("<", Signed, Verify(sig2, heir)), Binary("==", sig, sig2),
                  Binary("and", Signed, Verify(sig, heir)), Binary("and", Signed, refund),
                  Binary("and", Unary("not", Verify(sig2, owner)), refund),
                  Binary("and", Binary("==", Number(1), Number(1)), Signed),
                  Binary("and", owner, Signed), Binary("or", multi(1, <<sig>>), Verify(sig2, heir)),
                  multi(2, <<sig>>), multi(1, <<sig, sig2>>), multi(0, << >>), multi(1, <<sig, owner>>),
                  Unary("not", multi(1, <<sig>>)), Call("multisig", <<Number(1), owner, sig>>)}} \cup
        {With(Binary("==", l, r)) : l \in {none, sha(none), ListOf(<<owner>>), owner}, r \in {none, sha(none), owner}} \cup
        {With(Binary("==", sha(Out(0, "script")), sha(owner))), With(Binary("==", sha(owner), sha(Out(0, "script"))))} \cup
        {With(Binary(op, Binary(plus, Out(0, "value"), Number(I64Max - 2)), floor)) :
            op \in {">=", "=="}, plus \in {"+", "-"}} \cup
        {Source(<<Path1(<<"sig">>, <<Return(Number(1)), Return(Number(0)),
                                     Require(Binary("and", Signed, refund)), Require(refund)>>)>>),
         One(<<"input_count">>, <<Verify(Ident("input_count"), owner)>>),
         One(<<"block", "height">>, <<Binary(">", Height, Number(2))>>),
         With(Binary(">=", Field(Field(ListOf(<<owner>>), "block"), "height"), unlock)),
         [With(Binary(">=", Field(In(0, "covenant_id"), "depth"), Number(1))) EXCEPT !.finality_depth = 10],
         One(<<"value">>, <<Binary("==", Field(Ident("value"), "value"), Number(0))>>),
         [One(<<"sig">>, <<Signed, Ident("multisig")>>) EXCEPT !.params = <<Param("owner", "PublicKey"),
                                                                           Param("multisig", "Amount")>>]}

Forms == Singles \cup Pairs \cup Placed \cup Signings \cup Shapes \cup Odd

\* Operators side by side and in each other, and numbers at the edge of u64.
Mixed ==
    LET sum(l, op, r) == Binary(op, l, r)
        ops == {"-", "*", "==", ">", "and", "or"}
        l3(op, op2) == {sum(sum(floor, op, unlock), op2, floor), sum(floor, op, sum(unlock, op2, floor))}
        all == UNION {l3(op, op2) : op \in ops, op2 \in ops}
    IN  {With(e) : e \in all} \cup {With(Unary(u, e)) : u \in {"not", "negate"}, e \in all} \cup
        {With(Binary("-", Unary("not", floor), Unary("negate", Unary("not", floor)))),
         With(Call("continuation", <<Text("\""), Text("")>>)),
         With(Field(Field(ListOf(<<owner, Ident("finality_depth")>>), "block"), "covenant_id")),
         With(Field(Call("output", << >>), "value")),
         With(Node("call", "", 0, <<Call("output", <<owner, heir>>), ListOf(<< >>)>>)),
         With(Number(U64Max)), With(Number(U64Max + 1))}

As(program, style) == [program |-> program, style |-> style, layout |-> << >>]

\* Comments, plain ones and others.
Line(body)   == [form |-> "line", body |-> body]
Aside(body) == [form |-> "block", body |-> body]

Star == Char("*")

Comments ==
    {Line(<< >>), Line(<<Word("x"), Char("/"), Char("/"), Star>>), Line(<<Star, Word("x")>>), Line(<<Quote>>),
     Aside(<< >>), Aside(<<Char("/"), Star, Newline, Char("@")>>), Aside(<<Star, Word("x"), Char("/")>>),
     Aside(<<Word("x"), Star>>), Aside(<<Star, Star>>), Aside(<<Quote>>)}

Vault == One(<<"sig">>, <<Signed, Binary("<=", floor, Out(0, "value"))>>)

Gaps == 0 .. Len(Tokens(Vault, "lean"))

\* Gaps before a statement, where what a comment swallows leaves a contract behind.
BetweenStatements == {g \in Gaps \ {0} : Tokens(Vault, "lean")[g] = Mark(";")}

Commented ==
    {[As(Vault, "lean") EXCEPT !.layout = g :> c] : g \in Gaps, c \in Comments} \cup
    {[As(Vault, "lean") EXCEPT !.layout = g :> c @@ h :> d] :
        g \in BetweenStatements, h \in BetweenStatements, c \in Comments, d \in Comments}

Written == {As(c, style) : c \in Forms \cup Mixed, style \in {"lean", "full"}} \cup Commented

\* A comment may swallow a requirement of the vault: what is left is a contract too.
Programs == Forms \cup Mixed \cup {Vault, One(<<"sig">>, <<Signed>>)}

\* Every expression of a contract, with its parts, and how deep each is.
RECURSIVE Parts(_), DepthOf(_)
Parts(e) == {e} \cup UNION {Parts(e.kids[i]) : i \in DOMAIN e.kids}
DepthOf(e) == IF e.kids = << >> THEN 0
              ELSE 1 + Max({DepthOf(e.kids[i]) : i \in DOMAIN e.kids})

AllExprs == UNION {UNION {UNION {Parts(st.expr) : st \in ToSet(s.body)} : s \in ToSet(c.spends)} : c \in Programs}

AllDepths == [e \in AllExprs |-> DepthOf(e)]

Bind(o, h, u, f) == "owner" :> o @@ "heir" :> h @@ "unlock" :> u @@ "floor" :> f

LiveBinding == Bind(Key("wallet"), Key("wallet"), Num(0), Num(0))
ApiBinding  == Bind(Key("wallet"), Key("other"), Num(2), Num(2))
BadBinding  == Bind(Key("wallet"), Num(1), Num(2), Num(2))
HugeBinding == Bind(Key("wallet"), Key("other"), Num(I64Max + 1), Num(2))
MoreBinding == ApiBinding @@ "multisig" :> Num(2)

AllBindings == {LiveBinding, MoreBinding, BadBinding, HugeBinding}
JustApi     == {ApiBinding}

Coin(v, s) == [value |-> Num(v), script |-> s]

SomeOutputs ==
    {<<Coin(1, Script("wallet"))>>, <<Coin(2, Script("other"))>>, <<Coin(3, ContractScript)>>,
     <<Coin(2, Script("wallet")), Coin(3, Script("other"))>>}

SomeInputs == {<<Coin(LockAmount, ContractScript)>>,
               <<Coin(LockAmount, ContractScript), Coin(1, Script("wallet"))>>}

SomeTransactions ==
    {[inputs |-> i, outputs |-> o, lockTime |-> l[1], sequence |-> l[2]] :
        i \in SomeInputs, o \in SomeOutputs,
        l \in {<<0, MaxSequence>>, <<2, 0>>, <<6, 0>>, <<2, MaxSequence>>}}

SomeMoments == {[score |-> 1, time |-> 6], [score |-> 3, time |-> 8]}

=============================================================================
