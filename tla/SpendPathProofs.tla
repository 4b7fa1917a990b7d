--------------------------- MODULE SpendPathProofs ---------------------------
(* What an accepted spend proves of its source, for every contract whose      *)
(* conditions have the form the model calls regular, every key, transaction   *)
(* and witness.  The code of each requirement takes its signatures off the    *)
(* stack and leaves one value; an accepted spend has therefore handed every   *)
(* requirement a stretch of its witness.                                      *)
EXTENDS SpendScriptProofs

-----------------------------------------------------------------------------
(* Every value.  By induction on the tree.                                 *)

RunsAsValue(e) == IsPart(e) /\ IsValue(e, ArgNames) /\ Bindable(Lower[e]) => ValueRuns(e) /\ ValueReads(e)

LEMMA BindableFront ==
    ASSUME NEW e \in Exprs, NEW d \in Exprs, NEW ins, Lower[e] = Lower[d] \o <<ins>>, Bindable(Lower[e])
    PROVE  Bindable(Lower[d])
<1>1. IsSeq(Lower[d]) /\ IsSeq(<<ins>>)
  BY LowerSeq, OneIsSeq
<1> DEFINE c == Lower[d]
           one == <<ins>>
<1>2. IsSeq(c) /\ IsSeq(one) /\ Bindable(c \o one)
  BY <1>1
<1> HIDE DEF c, one
<1>3. Bindable(c)
  BY <1>2, BindableApart
<1> QED BY <1>3 DEF c

LEMMA ValueStep ==
    ASSUME OnChain, NEW e \in Exprs, IsPart(e), IsValue(e, ArgNames), Bindable(Lower[e]),
           \A y \in Below(e) : RunsAsValue(y)
    PROVE  ValueRuns(e) /\ ValueReads(e)
<1>1. ASSUME NEW i \in 1 .. Len(e.kids) PROVE e.kids[i] \in Exprs /\ IsPart(e.kids[i]) /\ e.kids[i] \in Below(e)
  BY Trees, PartsOfParts
<1>2. \/ e.op = "ident" /\ e.name \notin ArgNames
      \/ e.op \in {"int", "bool", "string"}
      \/ e.op = "field" /\ ReadsCoin(e)
      \/ e.op = "not" /\ IsValue(e.kids[1], ArgNames)
      \/ IsPlainLock(e) /\ IsBinary(e) /\ IsValue(e.kids[2], ArgNames)
      \/ IsBinary(e) /\ ~IsLock(e) /\ e.op \notin {"*", "/", "%"}
         /\ IsValue(e.kids[1], ArgNames) /\ IsValue(e.kids[2], ArgNames)
         /\ (ReadsScript(e.kids[1]) => e.kids[2].op \in {"ident", "int", "bool", "string", "field"})
      \/ IsCallOf(e, "continuation") /\ Len(Args(e)) = 2 /\ Args(e)[1].op = "string" /\ OutputIndex(Args(e)[2]) # {}
      \/ (IsCallOf(e, "sha256") \/ IsCallOf(e, "blake2b")) /\ Len(Args(e)) = 1 /\ IsValue(Args(e)[1], ArgNames)
  BY ValueCases
<1>3. CASE e.op = "ident" /\ e.name \notin ArgNames
  <2>1. CASE e.name \in Counts
    BY <1>3, <2>1, CountValue
  <2>2. CASE e.name \notin Counts
    BY <1>3, <2>2, ParameterValue
  <2> QED BY <2>1, <2>2
<1>4. CASE e.op \in {"int", "bool", "string"}
  BY <1>4, LiteralValue
<1>5. CASE e.op = "field" /\ ReadsCoin(e)
  BY <1>5, FieldValue
<1>6. CASE e.op = "not" /\ IsValue(e.kids[1], ArgNames)
  <2>1. 1 \in 1 .. Len(e.kids)
    BY <1>6, Kinds
  <2>2. Lower[e] = Lower[e.kids[1]] \o <<<<"not">>>>
    BY <1>6, LowerCases
  <2>3. e.kids[1] \in Exprs /\ IsPart(e.kids[1]) /\ e.kids[1] \in Below(e)
    BY <1>1, <2>1
  <2>4. Bindable(Lower[e.kids[1]])
    BY <2>2, <2>3, BindableFront
  <2>5. ValueRuns(e.kids[1])
    BY <1>6, <2>3, <2>4 DEF RunsAsValue
  <2> QED BY <1>6, <2>5, NotValue
<1>7. CASE IsPlainLock(e) /\ IsBinary(e) /\ IsValue(e.kids[2], ArgNames)
  <2> DEFINE r == e.kids[2]
  <2>1. 2 \in 1 .. Len(e.kids)
    BY <1>7, Kinds
  <2>2. r \in Exprs /\ IsPart(r) /\ r \in Below(e)
    BY <1>1, <2>1
  <2>3. ValueRuns(r)
    <3>1. CASE r.op = "int"
      BY <2>2, <3>1, LiteralValue
    <3>2. CASE r.op # "int"
      <4>1. Lower[e] = LowerBinary(e, Lower)
        BY <1>7, LowerCases
      <4>2. Lower[e] = Lower[r] \o <<<<"check_lock_from_stack">>>>
        BY <1>7, <3>2, <4>1, Zenon DEF LowerBinary, IsPlainLock
      <4>3. Bindable(Lower[r])
        BY <2>2, <4>2, BindableFront
      <4> QED BY <1>7, <2>2, <4>3 DEF RunsAsValue
    <3> QED BY <3>1, <3>2
  <2> QED BY <1>7, <2>3, LockRuns
<1>8. CASE /\ IsBinary(e) /\ ~IsLock(e) /\ e.op \notin {"*", "/", "%"}
           /\ IsValue(e.kids[1], ArgNames) /\ IsValue(e.kids[2], ArgNames)
           /\ (ReadsScript(e.kids[1]) => e.kids[2].op \in {"ident", "int", "bool", "string", "field"})
  <2> DEFINE l == e.kids[1]
             r == e.kids[2]
             c == Lower[l]
             d == Lower[r]
             one == <<<<Opcode(e.op)>>>>
  <2>1. 1 \in 1 .. Len(e.kids) /\ 2 \in 1 .. Len(e.kids)
    BY <1>8, Kinds
  <2>2. l \in Exprs /\ IsPart(l) /\ l \in Below(e) /\ r \in Exprs /\ IsPart(r) /\ r \in Below(e)
    BY <1>1, <2>1
  <2>3. Lower[e] = (c \o d) \o one
    BY <1>8, BinaryParts
  <2>4. IsSeq(c) /\ IsSeq(d) /\ IsSeq(one) /\ IsSeq(c \o d)
    BY <2>2, LowerSeq, OneIsSeq, ConcatSeq
  <2>5. Bindable(c) /\ Bindable(d)
    <3> HIDE DEF c, d, one
    <3>1. Bindable((c \o d) \o one)
      BY <2>3
    <3> DEFINE cd == c \o d
    <3>2. Bindable(cd \o one) /\ IsSeq(cd)
      BY <2>4, <3>1
    <3> HIDE DEF cd
    <3>3. Bindable(cd)
      BY <2>4, <3>2, BindableApart
    <3>4. Bindable(c \o d)
      BY <3>3 DEF cd
    <3> QED BY <2>4, <3>4, BindableApart
  <2>6. ValueRuns(l) /\ ValueReads(l) /\ ValueRuns(r)
    BY <1>8, <2>2, <2>5 DEF RunsAsValue
  <2>7. ReadsScript(l) => Leaf(r)
    BY <1>8 DEF Leaf
  <2> HIDE DEF c, d, one
  <2> QED BY <1>8, <2>6, <2>7, BinaryValue
<1>9. CASE IsCallOf(e, "continuation") /\ Len(Args(e)) = 2 /\ Args(e)[1].op = "string" /\ OutputIndex(Args(e)[2]) # {}
  BY <1>9, ContinuationValue
<1>10. ASSUME NEW f \in {"sha256", "blake2b"}, IsCallOf(e, f), Len(Args(e)) = 1, IsValue(Args(e)[1], ArgNames)
       PROVE  ValueRuns(e) /\ ValueReads(e)
  <2> DEFINE d == Args(e)[1]
  <2>1. e.op = "call"
    BY <1>10, NamedCall
  <2>2. 2 \in 1 .. Len(e.kids) /\ d = e.kids[2]
    BY <1>10, <2>1, Calls, Trees
  <2>3. d \in Exprs /\ IsPart(d) /\ d \in Below(e)
    BY <1>1, <2>2
  <2>4. Lower[e] = Lower[d] \o <<<<f>>>>
    <3>1. Lower[e] = LowerCall(e, Lower)
      BY <2>1, LowerCases
    <3>2. ~IsVerify(e) /\ Callee(e).name = f /\ \A g : IsCallOf(e, g) => g = f
      BY <1>10, NamedCall
    <3>3. /\ ~\E g \in {"input", "output"} : IsCallOf(e, g)
          /\ ~\E g \in {"continuation"} : IsCallOf(e, g)
          /\ ~\E g \in {"multisig"} : IsCallOf(e, g)
          /\ ~\E g \in {"zk_verify"} : IsCallOf(e, g)
          /\ \E g \in HashFunctions : IsCallOf(e, g)
      BY <1>10, <3>2 DEF HashFunctions
    <3>4. LowerCall(e, Lower) = LowerNth(Args(e), 1, Lower) \o <<<<Callee(e).name>>>>
      BY <3>2, <3>3, Zenon DEF LowerCall
    <3>5. LowerNth(Args(e), 1, Lower) = Lower[d]
      <4>1. 1 \in DOMAIN Args(e)
        BY <1>10, <2>1, Calls
      <4> QED BY <4>1 DEF LowerNth
    <3> QED BY <3>1, <3>2, <3>4, <3>5, Zenon
  <2>5. Bindable(Lower[d])
    <3> DEFINE ins == <<f>>
    <3>1. Lower[e] = Lower[d] \o <<ins>>
      BY <2>4
    <3> HIDE DEF ins
    <3> QED BY <2>3, <3>1, BindableFront
  <2>6. ValueRuns(d)
    BY <1>10, <2>3, <2>5 DEF RunsAsValue
  <2> QED BY <1>10, <2>6, HashValue
<1> QED BY <1>2, <1>3, <1>4, <1>5, <1>6, <1>7, <1>8, <1>9, <1>10

\* Every value of a requirement leaves what it means on the stack, and nothing else.
LEMMA ValuesRun ==
    ASSUME OnChain, NEW e, IsPart(e), IsValue(e, ArgNames), Bindable(Lower[e])
    PROVE  ValueRuns(e) /\ ValueReads(e)
<1> DEFINE T == {x \in Exprs : RunsAsValue(x)}
<1>1. ASSUME NEW x \in Exprs, \A y \in Below(x) : y \in T PROVE x \in T
  <2>1. \A y \in Below(x) : RunsAsValue(y)
    BY <1>1
  <2>2. RunsAsValue(x)
    BY <2>1, ValueStep DEF RunsAsValue
  <2> QED BY <2>2
<1>2. T \subseteq Exprs
  OBVIOUS
<1> HIDE DEF T
<1>3. T = Exprs
  BY <1>1, <1>2, TreeInduction
<1>4. RunsAsValue(e)
  BY <1>3 DEF T, IsPart
<1> QED BY <1>4 DEF RunsAsValue

-----------------------------------------------------------------------------
(* Conditions and their conjuncts.  What a condition in the regular form is made of.*)

LEMMA ConditionCases ==
    ASSUME NEW e \in Exprs, NEW params, NEW args, IsCondition(e, params, args)
    PROVE  \/ IsValue(e, args)
           \/ SignsByName(e, params, args)
           \/ /\ e.op \in {"not"} \cup Logical /\ ~ReadsScript(e.kids[1])
              /\ \A i \in 1 .. Len(e.kids) : e.kids[i] \in Below(e) /\ IsCondition(e.kids[i], params, args)
<1>1. PICK condition : /\ \A d \in Exprs : condition[d] = ConditionFrom(params, args, d, condition)
                       /\ \A d : IsCondition(d, params, args) = condition[d]
  BY ConditionUnfolds
<1>2. ConditionFrom(params, args, e, condition)
  BY <1>1
<1>3. DOMAIN e.kids = 1 .. Len(e.kids) /\ \A i \in 1 .. Len(e.kids) : e.kids[i] \in Below(e)
  BY Trees
<1>4. \A i \in DOMAIN e.kids : condition[e.kids[i]] = IsCondition(e.kids[i], params, args)
  BY <1>1
<1> QED BY <1>2, <1>3, <1>4 DEF ConditionFrom

LEMMA ConjunctsAre ==
    ASSUME NEW e \in Exprs
    PROVE  /\ IsSeq(Conjuncts[e]) /\ ToSet(Conjuncts[e]) \subseteq ToSet(Subterms[e])
           /\ e.op # "and" => ToSet(Conjuncts[e]) = {e}
           /\ e.op = "and" => ToSet(Conjuncts[e]) = ToSet(Conjuncts[e.kids[1]]) \cup ToSet(Conjuncts[e.kids[2]])
<1> DEFINE Holds(x) == IsSeq(Conjuncts[x]) /\ ToSet(Conjuncts[x]) \subseteq ToSet(Subterms[x])
           T == {x \in Exprs : Holds(x)}
<1>1. ASSUME NEW x \in Exprs, x.op # "and"
      PROVE  IsSeq(Conjuncts[x]) /\ ToSet(Conjuncts[x]) = {x}
  <2>1. Conjuncts[x] = ConjunctsFrom(x, Conjuncts)
    BY ConjunctsUnfolds
  <2>2. Conjuncts[x] = <<x>>
    BY <1>1, <2>1 DEF ConjunctsFrom
  <2> QED BY <2>2, OneIsSeq, ToSetOne
<1>2. ASSUME NEW x \in Exprs, x.op = "and", Holds(x.kids[1]), Holds(x.kids[2])
      PROVE  /\ IsSeq(Conjuncts[x])
             /\ ToSet(Conjuncts[x]) = ToSet(Conjuncts[x.kids[1]]) \cup ToSet(Conjuncts[x.kids[2]])
  <2>1. Conjuncts[x] = ConjunctsFrom(x, Conjuncts)
    BY ConjunctsUnfolds
  <2>2. Conjuncts[x] = Conjuncts[x.kids[1]] \o Conjuncts[x.kids[2]]
    BY <1>2, <2>1 DEF ConjunctsFrom
  <2> DEFINE a == Conjuncts[x.kids[1]]
             b == Conjuncts[x.kids[2]]
  <2>3. IsSeq(a) /\ IsSeq(b)
    BY <1>2
  <2> HIDE DEF a, b
  <2>4. IsSeq(a \o b) /\ ToSet(a \o b) = ToSet(a) \cup ToSet(b)
    BY <2>3, ConcatSeq, ToSetConcat
  <2>5. Conjuncts[x] = a \o b
    BY <2>2 DEF a, b
  <2>6. IsSeq(Conjuncts[x]) /\ ToSet(Conjuncts[x]) = ToSet(a) \cup ToSet(b)
    BY <2>4, <2>5, Zenon
  <2> QED BY <2>6 DEF a, b
<1>3. ASSUME NEW x \in Exprs, x.op = "and"
      PROVE  /\ x.kids[1] \in Below(x) /\ x.kids[2] \in Below(x)
             /\ ToSet(Subterms[x.kids[1]]) \subseteq ToSet(Subterms[x])
             /\ ToSet(Subterms[x.kids[2]]) \subseteq ToSet(Subterms[x])
  <2>1. Len(x.kids) = 2
    BY <1>3, Kinds DEF IsBinary, Logical
  <2>2. 1 \in 1 .. Len(x.kids) /\ 2 \in 1 .. Len(x.kids)
    BY <2>1
  <2> QED BY <2>2, Trees, SubtermsAre
<1>4. ASSUME NEW x \in Exprs, \A y \in Below(x) : y \in T PROVE x \in T
  <2>1. CASE x.op # "and"
    <3>1. x \in ToSet(Subterms[x])
      BY SubtermsAre
    <3> QED BY <1>1, <2>1, <3>1
  <2>2. CASE x.op = "and"
    <3>1. Holds(x.kids[1]) /\ Holds(x.kids[2])
      BY <1>3, <1>4, <2>2
    <3>2. Holds(x)
      <4> DEFINE c == ToSet(Conjuncts[x])
                 a == ToSet(Conjuncts[x.kids[1]])
                 b == ToSet(Conjuncts[x.kids[2]])
                 t == ToSet(Subterms[x])
      <4>1. IsSeq(Conjuncts[x]) /\ c = a \cup b
        BY <1>2, <2>2, <3>1, Zenon
      <4>2. a \subseteq t /\ b \subseteq t
        BY <1>3, <2>2, <3>1, Zenon
      <4> HIDE DEF a, b, c, t
      <4>3. c \subseteq t
        BY <4>1, <4>2
      <4> QED BY <4>1, <4>3, Zenon DEF c, t
    <3> QED BY <3>2
  <2> QED BY <2>1, <2>2
<1>5. T \subseteq Exprs
  OBVIOUS
<1> HIDE DEF T
<1>6. T = Exprs
  BY <1>4, <1>5, TreeInduction
<1>7. \A x \in Exprs : Holds(x)
  BY <1>6 DEF T
<1> HIDE DEF Holds
<1>8. e.op = "and" => Holds(e.kids[1]) /\ Holds(e.kids[2])
  <2>1. e.op = "and" => e.kids[1] \in Exprs /\ e.kids[2] \in Exprs
    BY <1>3 DEF Below
  <2> QED BY <1>7, <2>1
<1>9. e.op = "and" => ToSet(Conjuncts[e]) = ToSet(Conjuncts[e.kids[1]]) \cup ToSet(Conjuncts[e.kids[2]])
  BY <1>2, <1>8
<1> QED BY <1>1, <1>7, <1>9 DEF Holds

Truthful(m) == m # Undefined /\ Truthy(m)

\* What is true of two values is true of each.
LEMMA BothTruthy ==
    ASSUME NEW m, NEW n, IsNum(m), IsNum(n), Truthy(NumericResult("and", m[2], n[2]))
    PROVE  Truthful(m) /\ Truthful(n)
<1>1. NumericResult("and", m[2], n[2]) = Truth(m[2] # 0 /\ n[2] # 0)
  BY Zenon DEF NumericResult
<1>2. m[2] # 0 /\ n[2] # 0
  BY <1>1 DEF Truthy, Truth
<1>3. ASSUME NEW v, IsNum(v), v[2] # 0 PROVE Truthful(v)
  <2>1. v[1] = "num"
    BY <1>3 DEF IsNum
  <2>2. v # Num(0)
    BY <1>3, NumIs
  <2>3. Bytes("")[1] = "bytes" /\ Undefined[1] = "undefined"
    BY DEF Bytes, Undefined
  <2> QED BY <2>1, <2>2, <2>3 DEF Truthful, Truthy
<1> QED BY <1>2, <1>3

\* Nobody signs a value, and a true one has only true conjuncts.
LEMMA ValueConjuncts ==
    ASSUME NEW e \in Exprs, NEW args, IsValue(e, args), NEW c \in ToSet(Conjuncts[e])
    PROVE  /\ IsValue(c, args) /\ ~IsSigning(c)
           /\ \A env : Truthful(Meaning(e, env)) => Truthful(Meaning(c, env))
<1> DEFINE Holds(x) ==
              IsValue(x, args) =>
                  \A d \in ToSet(Conjuncts[x]) :
                      /\ IsValue(d, args) /\ ~IsSigning(d)
                      /\ \A env : Truthful(Meaning(x, env)) => Truthful(Meaning(d, env))
           T == {x \in Exprs : Holds(x)}
<1>1. ASSUME NEW x \in Exprs, IsValue(x, args), x.op # "and" PROVE Holds(x)
  <2>1. ToSet(Conjuncts[x]) = {x}
    BY <1>1, ConjunctsAre
  <2>2. ~IsSigning(x)
    <3>1. x.op = "call" => IsCallOf(x, "continuation") \/ IsCallOf(x, "sha256") \/ IsCallOf(x, "blake2b")
      BY <1>1, ValueCases DEF IsBinary, Logical, Comparisons, Arithmetic
    <3>2. \A f : IsCallOf(x, f) => ~IsVerify(x) /\ \A g : IsCallOf(x, g) => g = f
      BY NamedCall
    <3>3. IsSigning(x) => x.op = "call"
      BY DEF IsSigning, IsVerify, IsCallOf
    <3>4. IsSigning(x) => IsVerify(x) \/ IsCallOf(x, "multisig")
      BY DEF IsSigning
    <3> QED BY <3>1, <3>2, <3>3, <3>4
  <2> QED BY <1>1, <2>1, <2>2
<1>2. ASSUME NEW x \in Exprs, IsValue(x, args), x.op = "and", \A y \in Below(x) : y \in T PROVE Holds(x)
  <2> DEFINE l == x.kids[1]
             r == x.kids[2]
  <2>1. Len(x.kids) = 2 /\ IsBinary(x)
    BY <1>2, Kinds DEF IsBinary, Logical
  <2>2. l \in Below(x) /\ r \in Below(x)
    BY <2>1, Trees
  <2>3. IsValue(l, args) /\ IsValue(r, args)
    <3>1. ~IsPlainLock(x) /\ x.op \notin {"ident", "int", "bool", "string", "field", "not", "call"} /\ \A f : ~IsCallOf(x, f)
      BY <1>2 DEF IsLock, IsPlainLock, IsCallOf
    <3> QED BY <1>2, <3>1, ValueCases
  <2>4. Holds(l) /\ Holds(r)
    BY <1>2, <2>2
  <2>5. ToSet(Conjuncts[x]) = ToSet(Conjuncts[l]) \cup ToSet(Conjuncts[r])
    BY <1>2, ConjunctsAre
  <2>6. ASSUME NEW env, Truthful(Meaning(x, env)) PROVE Truthful(Meaning(l, env)) /\ Truthful(Meaning(r, env))
    <3> DEFINE m == Meaning(l, env)
               n == Meaning(r, env)
    <3>1. Meaning(x, env) = BinaryMeaning("and", m, n)
      BY <1>2, <2>1, MeaningOfBinary
    <3> HIDE DEF m, n, l, r
    <3>2. Meaning(x, env) # Undefined
      BY <2>6 DEF Truthful
    <3>3. IsNum(m) /\ IsNum(n) /\ Meaning(x, env) = NumericResult("and", m[2], n[2])
      <4>1. BinaryMeaning("and", m, n) = IF Undefined \in {m, n} THEN Undefined
                                         ELSE IF IsNum(m) /\ IsNum(n) THEN NumericResult("and", m[2], n[2]) ELSE Undefined
        BY Zenon DEF BinaryMeaning
      <4> QED BY <3>1, <3>2, <4>1
    <3>4. Truthy(NumericResult("and", m[2], n[2]))
      BY <2>6, <3>3 DEF Truthful
    <3> QED BY <3>3, <3>4, BothTruthy DEF m, n
  <2> HIDE DEF l, r
  <2>7. ASSUME NEW d \in ToSet(Conjuncts[x])
        PROVE  /\ IsValue(d, args) /\ ~IsSigning(d)
               /\ \A env : Truthful(Meaning(x, env)) => Truthful(Meaning(d, env))
    BY <2>3, <2>4, <2>5, <2>6
  <2> QED BY <2>7
<1>3. ASSUME NEW x \in Exprs, \A y \in Below(x) : y \in T PROVE x \in T
  <2>1. IsValue(x, args) => Holds(x)
    <3> HIDE DEF T, Holds
    <3> QED BY <1>1, <1>2, <1>3
  <2> QED BY <2>1
<1>4. T \subseteq Exprs
  OBVIOUS
<1> HIDE DEF T
<1>5. T = Exprs
  BY <1>3, <1>4, TreeInduction
<1>6. Holds(e)
  BY <1>5 DEF T
<1> QED BY <1>6

-----------------------------------------------------------------------------
(* What is taken off the stack.  A value takes no signature.               *)

\* A condition takes n values off the stack and leaves one.
Kept(s, st, n, v) == n \in 0 .. Len(st) /\ s = SubSeq(st, 1, Len(st) - n) \o <<v>>

TopSigs(st, n) == \A i \in 1 .. Len(st) : i > Len(st) - n => st[i] = Sig(st[i][2])

KeysOf(c) == {bound[SigningRequirement(c).keys[i].name] : i \in DOMAIN SigningRequirement(c).keys}

By(st, c) == {i \in 1 .. Len(st) : Key(st[i][2]) \in KeysOf(c)}

Signed(c, st) == Cardinality(By(st, c)) >= SigningRequirement(c).threshold

Demands(e, st, v) == Truthy(v) => \A c \in ToSet(Conjuncts[e]) : IsSigning(c) => Signed(c, st)

Weighs(e, v) ==
    Truthy(v) => \A c \in ToSet(Conjuncts[e]) : \A env :
                    IsValue(c, ArgNames) /\ Agrees(env) => Truthful(Meaning(c, env))

\* The environment gives the arguments of e the values e takes off the stack.
Given(e, env, st, n) ==
    /\ n = Len(ArgumentsOf[e])
    /\ \A i \in 1 .. n : /\ ArgumentsOf[e][i] \in DOMAIN env.values
                         /\ env.values[ArgumentsOf[e][i]] = st[Len(st) - n + i]

IsResult(v) == v # Undefined /\ (IsNum(v) => \E k \in Int : v = Num(k))

Meant(e, st, n, v) ==
    \A env : Agrees(env) /\ Given(e, env, st, n) => Meaning(e, env) = v /\ IsResult(v)

Outcome(e, st, n, v) ==
    TopSigs(st, n) => /\ Demands(e, st, v)
                      /\ Sane => Weighs(e, v)
                      /\ Sane /\ MultisigsListEnough => Meant(e, st, n, v)

Listed(e, n) ==
    /\ n \in Nat
    /\ IsSeq(ArgumentsOf[e]) /\ (MultisigsListEnough => n <= Len(ArgumentsOf[e]))
    /\ \A c \in ToSet(Conjuncts[e]) : IsSigning(c) => SigningRequirement(c).threshold \in 0 .. n

Takes(e, n) ==
    /\ Listed(e, n)
    /\ \A read : ReadAfter(read, Lower[e]) = ReadsScript(e)
    /\ \A st, s : IsSeq(st) /\ s \in Exec(FALSE, Lower[e], st, spend.tx) =>
                        \E v : Kept(s, st, n, v) /\ Outcome(e, st, n, v)

LEMMA WholePrefix == ASSUME NEW s, IsSeq(s) PROVE SubSeq(s, 1, Len(s)) = s
<1>1. Len(s) \in Nat
  BY SeqProps
<1>2. Len(s) \in 0 .. Len(s)
  BY <1>1
<1> DEFINE p == SubSeq(s, 1, Len(s))
<1>3. IsSeq(p) /\ Len(p) = Len(s) /\ \A i \in 1 .. Len(s) : p[i] = s[i]
  BY <1>2, PrefixSeq
<1> HIDE DEF p
<1>4. p = s
  BY <1>3, SameSeq
<1> QED BY <1>4 DEF p

LEMMA KeptNone == ASSUME NEW s, NEW st, IsSeq(st), NEW v, LeavesOne(s, st, v) PROVE Kept(s, st, 0, v)
<1>1. Len(st) \in Nat
  BY SeqProps
<1>2. 0 \in 0 .. Len(st) /\ Len(st) - 0 = Len(st)
  BY <1>1
<1>3. SubSeq(st, 1, Len(st) - 0) = st
  BY <1>2, WholePrefix
<1>4. s = SubSeq(st, 1, Len(st) - 0) \o <<v>>
  BY <1>3 DEF LeavesOne
<1> QED BY <1>2, <1>4 DEF Kept

LEMMA NoArguments ==
    ASSUME NEW e \in Exprs, ~IsSigning(e), \A i \in 1 .. Len(e.kids) : ArgumentsOf[e.kids[i]] = << >>
    PROVE  ArgumentsOf[e] = << >>
<1> DEFINE ps == [i \in DOMAIN e.kids |-> ArgumentsOf[e.kids[i]]]
<1>1. ArgumentsOf[e] = ArgumentsFrom(e, ArgumentsOf)
  BY ArgumentsUnfold
<1>2. ArgumentsOf[e] = Concat(ps)
  BY <1>1, Zenon DEF ArgumentsFrom
<1>3. IsSeq(e.kids) /\ DOMAIN e.kids = 1 .. Len(e.kids)
  BY Trees
<1>4. \A i \in 1 .. Len(e.kids) : ps[i] = << >>
  BY <1>3
<1>5. \A i \in 1 .. Len(e.kids) : IsSeq(ps[i]) /\ ToSet(ps[i]) \subseteq {}
  BY <1>4, EmptyIsSeq, ToSetEmpty
<1>6. ps = [i \in DOMAIN e.kids |-> ps[i]]
  BY Zenon
<1> HIDE DEF ps
<1>7. IsSeq(Concat(ps)) /\ ToSet(Concat(ps)) \subseteq {}
  <2> DEFINE S == {}
  <2>1. \A i \in 1 .. Len(e.kids) : IsSeq(ps[i]) /\ ToSet(ps[i]) \subseteq S
    BY <1>5
  <2> HIDE DEF S
  <2>2. /\ IsSeq(Concat(ps))
        /\ \A U : (\A i \in 1 .. Len(e.kids) : ToSet(ps[i]) \subseteq U) => ToSet(Concat(ps)) \subseteq U
    BY <1>3, <1>6, <2>1, Pieces
  <2>3. ToSet(Concat(ps)) \subseteq S
    BY <2>1, <2>2
  <2> QED BY <2>2, <2>3 DEF S
<1> DEFINE all == Concat(ps)
<1>8. IsSeq(all) /\ ToSet(all) \subseteq {}
  BY <1>7
<1> HIDE DEF all
<1>9. all = << >>
  <2>1. Len(all) \in Nat /\ \A i \in 1 .. Len(all) : all[i] \in {}
    BY <1>8, Members, SeqProps
  <2>2. Len(all) = 0
    BY <2>1
  <2> QED BY <1>8, <2>2, EmptyLen
<1> QED BY <1>2, <1>9 DEF all

LEMMA LeafHasNoArguments ==
    ASSUME NEW e \in Exprs, e.op \in {"ident", "int", "bool", "string"}
    PROVE  ArgumentsOf[e] = << >>
<1>1. Len(e.kids) = 0 /\ ~IsSigning(e)
  BY Kinds DEF IsSigning, IsVerify, IsCallOf
<1>2. \A i \in 1 .. Len(e.kids) : ArgumentsOf[e.kids[i]] = << >>
  BY <1>1
<1> QED BY <1>1, <1>2, NoArguments

\* A builtin applied to arguments without signatures.
LEMMA CallHasNoArguments ==
    ASSUME NEW e \in Exprs, NEW f, IsCallOf(e, f), f # "multisig",
           \A i \in 1 .. Len(Args(e)) : ArgumentsOf[Args(e)[i]] = << >>
    PROVE  ArgumentsOf[e] = << >>
<1>1. e.op = "call" /\ ~IsVerify(e) /\ ~IsCallOf(e, "multisig") /\ Callee(e).op = "ident"
  BY NamedCall
<1>2. /\ Callee(e) \in Exprs /\ Len(Args(e)) = Len(e.kids) - 1 /\ Len(Args(e)) \in Nat
      /\ \A i \in 1 .. Len(Args(e)) : Args(e)[i] = e.kids[i + 1]
  BY <1>1, Calls
<1>3. ArgumentsOf[Callee(e)] = << >>
  BY <1>1, <1>2, LeafHasNoArguments
<1>4. ASSUME NEW i \in 1 .. Len(e.kids) PROVE ArgumentsOf[e.kids[i]] = << >>
  <2>1. CASE i = 1
    BY <1>3, <2>1 DEF Callee
  <2>2. CASE i # 1
    <3>1. Len(e.kids) \in Nat
      BY Trees
    <3> DEFINE j == i - 1
    <3>2. j \in 1 .. Len(Args(e)) /\ j + 1 = i
      BY <1>2, <2>2, <3>1
    <3> HIDE DEF j
    <3>3. Args(e)[j] = e.kids[i]
      BY <1>2, <3>2
    <3> QED BY <3>2, <3>3
  <2> QED BY <2>1, <2>2
<1>5. ~IsSigning(e)
  BY <1>1 DEF IsSigning
<1> QED BY <1>4, <1>5, NoArguments

LEMMA ValueHasNoArguments ==
    ASSUME NEW e \in Exprs, NEW args, IsValue(e, args)
    PROVE  ArgumentsOf[e] = << >>
<1> DEFINE T == {x \in Exprs : IsValue(x, args) => ArgumentsOf[x] = << >>}
<1>1. ASSUME NEW x \in Exprs, IsValue(x, args), \A y \in Below(x) : y \in T PROVE ArgumentsOf[x] = << >>
  <2>1. \A i \in 1 .. Len(x.kids) : x.kids[i] \in Exprs /\ x.kids[i] \in Below(x)
    BY Trees
  <2>2. \/ x.op = "ident" /\ x.name \notin args
        \/ x.op \in {"int", "bool", "string"}
        \/ x.op = "field" /\ ReadsCoin(x)
        \/ x.op = "not" /\ IsValue(x.kids[1], args)
        \/ IsPlainLock(x) /\ IsBinary(x) /\ IsValue(x.kids[2], args)
        \/ IsBinary(x) /\ ~IsLock(x) /\ IsValue(x.kids[1], args) /\ IsValue(x.kids[2], args)
        \/ IsCallOf(x, "continuation") /\ Len(Args(x)) = 2 /\ Args(x)[1].op = "string" /\ OutputIndex(Args(x)[2]) # {}
        \/ (IsCallOf(x, "sha256") \/ IsCallOf(x, "blake2b")) /\ Len(Args(x)) = 1 /\ IsValue(Args(x)[1], args)
    BY <1>1, ValueCases
  <2>3. x.op # "call" => ~IsSigning(x)
    BY DEF IsSigning, IsVerify, IsCallOf
  <2>4. IsBinary(x) => x.op # "call"
    BY DEF IsBinary, Logical, Comparisons, Arithmetic
  <2>5. \A i \in 1 .. Len(x.kids) : IsValue(x.kids[i], args) => ArgumentsOf[x.kids[i]] = << >>
    BY <1>1, <2>1
  <2>6. CASE x.op \in {"ident", "int", "bool", "string"}
    BY <2>6, LeafHasNoArguments
  <2>7. CASE x.op = "field" /\ ReadsCoin(x)
    <3> DEFINE object == x.kids[1]
    <3>1. Len(x.kids) = 1
      BY <2>7, Kinds
    <3>2. object \in Exprs
      BY <2>1, <3>1
    <3>3. /\ \E root \in {"input", "output"} : IsCallOf(object, root)
          /\ IsLiteralIndex(Args(object)) /\ Len(Args(object)) = 1
      BY <2>7 DEF ReadsCoin
    <3>4. object.op = "call"
      BY <3>3 DEF IsCallOf
    <3>5. Args(object)[1] \in Exprs /\ Args(object)[1].op = "int"
      BY <3>2, <3>3, <3>4, Calls DEF IsLiteralIndex
    <3>6. ArgumentsOf[Args(object)[1]] = << >>
      BY <3>5, LeafHasNoArguments
    <3>7. \A i \in 1 .. Len(Args(object)) : ArgumentsOf[Args(object)[i]] = << >>
      BY <3>3, <3>6
    <3>8. ArgumentsOf[object] = << >>
      BY <3>2, <3>3, <3>7, CallHasNoArguments
    <3>9. \A i \in 1 .. Len(x.kids) : ArgumentsOf[x.kids[i]] = << >>
      BY <3>1, <3>8
    <3> QED BY <2>3, <2>7, <3>9, NoArguments
  <2>8. CASE x.op = "not" /\ IsValue(x.kids[1], args)
    <3>1. Len(x.kids) = 1
      BY <2>8, Kinds
    <3>2. \A i \in 1 .. Len(x.kids) : ArgumentsOf[x.kids[i]] = << >>
      BY <2>5, <2>8, <3>1
    <3> QED BY <2>3, <2>8, <3>2, NoArguments
  <2>9. CASE IsPlainLock(x) /\ IsBinary(x) /\ IsValue(x.kids[2], args)
    <3> DEFINE l == x.kids[1]
    <3>1. Len(x.kids) = 2 /\ l \in Exprs
      BY <2>9, Kinds, LockParts
    <3>2. l.op = "field" /\ IsName(l.kids[1], "block")
      BY <2>9 DEF IsLock, IsPlainLock, IsBlockField
    <3>3. ArgumentsOf[l] = << >>
      <4>1. Len(l.kids) = 1 /\ l.kids[1] \in Exprs /\ ~IsSigning(l)
        BY <3>1, <3>2, Kinds, Trees DEF IsSigning, IsVerify, IsCallOf
      <4>2. ArgumentsOf[l.kids[1]] = << >>
        BY <3>2, <4>1, LeafHasNoArguments DEF IsName
      <4>3. \A i \in 1 .. Len(l.kids) : ArgumentsOf[l.kids[i]] = << >>
        BY <4>1, <4>2
      <4> HIDE DEF l
      <4> QED BY <3>1, <4>1, <4>3, NoArguments
    <3>4. ASSUME NEW i \in 1 .. Len(x.kids) PROVE ArgumentsOf[x.kids[i]] = << >>
      <4>1. i = 1 \/ i = 2
        BY <3>1
      <4> QED BY <2>5, <2>9, <3>3, <4>1
    <3> QED BY <2>3, <2>4, <2>9, <3>4, NoArguments
  <2>10. CASE IsBinary(x) /\ ~IsLock(x) /\ IsValue(x.kids[1], args) /\ IsValue(x.kids[2], args)
    <3>1. Len(x.kids) = 2
      BY <2>10, Kinds
    <3>2. ASSUME NEW i \in 1 .. Len(x.kids) PROVE ArgumentsOf[x.kids[i]] = << >>
      <4>1. i = 1 \/ i = 2
        BY <3>1
      <4> QED BY <2>5, <2>10, <4>1
    <3> QED BY <2>3, <2>4, <2>10, <3>2, NoArguments
  <2>11. CASE IsCallOf(x, "continuation") /\ Len(Args(x)) = 2 /\ Args(x)[1].op = "string" /\ OutputIndex(Args(x)[2]) # {}
    <3> DEFINE a == Args(x)[1]
               b == Args(x)[2]
    <3>1. x.op = "call"
      BY <2>11 DEF IsCallOf
    <3>2. a \in Exprs /\ b \in Exprs
      BY <2>11, <3>1, Calls
    <3>3. ArgumentsOf[a] = << >>
      BY <2>11, <3>2, LeafHasNoArguments
    <3>4. IsCallOf(b, "output") /\ Len(Args(b)) = 1 /\ Args(b)[1].op = "int"
      BY <2>11 DEF OutputIndex
    <3>5. ArgumentsOf[b] = << >>
      <4> HIDE DEF b
      <4>1. b.op = "call"
        BY <3>4 DEF IsCallOf
      <4>2. Args(b)[1] \in Exprs
        BY <3>2, <3>4, <4>1, Calls
      <4>3. ArgumentsOf[Args(b)[1]] = << >>
        BY <3>4, <4>2, LeafHasNoArguments
      <4>4. \A i \in 1 .. Len(Args(b)) : ArgumentsOf[Args(b)[i]] = << >>
        BY <3>4, <4>3
      <4> QED BY <3>2, <3>4, <4>4, CallHasNoArguments
    <3>6. ASSUME NEW i \in 1 .. Len(Args(x)) PROVE ArgumentsOf[Args(x)[i]] = << >>
      <4>1. i = 1 \/ i = 2
        BY <2>11
      <4> QED BY <3>3, <3>5, <4>1
    <3> QED BY <2>11, <3>6, CallHasNoArguments
  <2>12. ASSUME NEW f \in {"sha256", "blake2b"}, IsCallOf(x, f), Len(Args(x)) = 1, IsValue(Args(x)[1], args)
         PROVE  ArgumentsOf[x] = << >>
    <3>1. x.op = "call"
      BY <2>12 DEF IsCallOf
    <3>2. Args(x)[1] \in Below(x)
      BY <2>12, <3>1, Calls
    <3>3. ArgumentsOf[Args(x)[1]] = << >>
      BY <1>1, <2>12, <3>2
    <3>4. \A i \in 1 .. Len(Args(x)) : ArgumentsOf[Args(x)[i]] = << >>
      BY <2>12, <3>3
    <3> HIDE DEF T
    <3> QED BY <2>12, <3>4, CallHasNoArguments
  <2> HIDE DEF T
  <2> QED BY <2>2, <2>6, <2>7, <2>8, <2>9, <2>10, <2>11, <2>12
<1>2. ASSUME NEW x \in Exprs, \A y \in Below(x) : y \in T PROVE x \in T
  <2>1. IsValue(x, args) => ArgumentsOf[x] = << >>
    <3> HIDE DEF T
    <3> QED BY <1>1, <1>2
  <2> QED BY <2>1
<1>3. T \subseteq Exprs
  OBVIOUS
<1> HIDE DEF T
<1>4. T = Exprs
  BY <1>2, <1>3, TreeInduction
<1> QED BY <1>4 DEF T

\* A value takes nothing off the stack.
LEMMA ValueTakes ==
    ASSUME OnChain, NEW e \in Exprs, IsPart(e), IsValue(e, ArgNames), Bindable(Lower[e])
    PROVE  Takes(e, 0)
<1>1. ValueRuns(e) /\ ValueReads(e)
  BY ValuesRun
<1>2. Listed(e, 0)
  <2>1. ArgumentsOf[e] = << >>
    BY ValueHasNoArguments
  <2>2. IsSeq(ArgumentsOf[e]) /\ Len(ArgumentsOf[e]) = 0
    BY <2>1, EmptyIsSeq
  <2>3. \A c \in ToSet(Conjuncts[e]) : ~IsSigning(c)
    BY ValueConjuncts
  <2> QED BY <2>2, <2>3 DEF Listed
<1>3. ASSUME NEW st, NEW s, IsSeq(st), s \in Exec(FALSE, Lower[e], st, spend.tx)
      PROVE  \E v : Kept(s, st, 0, v) /\ Outcome(e, st, 0, v)
  <2>1. PICK v : LeavesOne(s, st, v) /\ (Sane => Worth(e, FALSE, v))
    BY <1>1, <1>3 DEF ValueRuns
  <2>2. Kept(s, st, 0, v)
    BY <1>3, <2>1, KeptNone
  <2>3. Sane => GoodValue(e, v)
    BY <2>1 DEF Worth, BoundAs
  <2>4. Demands(e, st, v)
    BY ValueConjuncts DEF Demands
  <2>5. ASSUME Sane PROVE Weighs(e, v)
    <3>1. \A env : Agrees(env) => Meaning(e, env) = v /\ v # Undefined
      BY <2>3, <2>5 DEF GoodValue
    <3> SUFFICES ASSUME Truthy(v), NEW c \in ToSet(Conjuncts[e]), NEW env, Agrees(env)
                 PROVE  Truthful(Meaning(c, env))
      BY DEF Weighs
    <3>2. Truthful(Meaning(e, env))
      BY <3>1 DEF Truthful
    <3> QED BY <3>2, ValueConjuncts
  <2>6. ASSUME Sane PROVE Meant(e, st, 0, v)
    BY <2>3, <2>6 DEF GoodValue, Meant, IsResult
  <2> QED BY <2>2, <2>4, <2>5, <2>6 DEF Outcome
<1> QED BY <1>1, <1>2, <1>3 DEF Takes, ValueReads

-----------------------------------------------------------------------------
(* One signature.  The code of x.verify(k) takes one signature off the stack.*)

LEMMA SamePrefix ==
    ASSUME NEW s, NEW t, IsSeq(s), IsSeq(t), NEW k, k \in 0 .. Len(s), k \in 0 .. Len(t),
           \A i \in 1 .. k : s[i] = t[i]
    PROVE  SubSeq(s, 1, k) = SubSeq(t, 1, k)
<1> DEFINE p == SubSeq(s, 1, k)
           q == SubSeq(t, 1, k)
<1>1. IsSeq(p) /\ Len(p) = k /\ \A i \in 1 .. k : p[i] = s[i]
  BY PrefixSeq
<1>2. IsSeq(q) /\ Len(q) = k /\ \A i \in 1 .. k : q[i] = t[i]
  BY PrefixSeq
<1> HIDE DEF p, q
<1>3. p = q
  BY <1>1, <1>2, SameSeq
<1> QED BY <1>3 DEF p, q

SigBy(sig, key) == sig[1] = "sig" /\ sig[2] = key[2]

\* A key is checked against the topmost value under it.
LEMMA ExecCheckSig ==
    ASSUME NEW read, NEW st, IsSeq(st), NEW key, NEW full, LeavesOne(full, st, key), NEW tx,
           NEW s \in Exec(read, <<<<"checksig">>>>, full, tx)
    PROVE  /\ key[1] = "key" /\ Len(st) \in Nat /\ Len(st) >= 1
           /\ Kept(s, st, 1, Truth(SigBy(st[Len(st)], key)))
<1> DEFINE n == Len(st)
           base == SubSeq(full, 1, Len(full) - 2)
           a == <<full[Len(full) - 1], full[Len(full)]>>
<1>1. /\ IsSeq(full) /\ Len(full) = n + 1 /\ n \in Nat
      /\ (\A i \in 1 .. n : full[i] = st[i]) /\ full[n + 1] = key
  BY OnTop, SeqProps
<1>2. "checksig" \in TwoInput
  BY DEF TwoInput
<1>3. Len(full) >= 2 /\ Leaves(s, base, <<"checksig">>, a, tx)
  BY <1>1, <1>2, ExecTwo
<1>4. n >= 1 /\ Len(full) - 1 = n /\ Len(full) - 2 = n - 1
  BY <1>1, <1>3
<1>5. a[1] = st[n] /\ a[2] = key
  <2>1. n \in 1 .. n
    BY <1>1, <1>4
  <2>2. full[n] = st[n]
    BY <1>1, <2>1
  <2>3. a[1] = full[n] /\ a[2] = full[n + 1]
    BY <1>1, <1>4
  <2> QED BY <1>1, <2>2, <2>3
<1>6. PICK r \in Results(<<"checksig">>, a, tx) : s = base \o r
  BY <1>3 DEF Leaves
<1> HIDE DEF a
<1>7. Results(<<"checksig">>, a, tx) = CheckSig(a[1], a[2])
  BY DEF Results
<1>8. key[1] = "key" /\ r = <<Truth(SigBy(st[n], key))>>
  BY <1>5, <1>6, <1>7 DEF CheckSig, SigBy
<1>9. base = SubSeq(st, 1, n - 1)
  <2> DEFINE k == n - 1
  <2>1. k \in 0 .. Len(st) /\ k \in 0 .. Len(full) /\ Len(full) - 2 = k
    BY <1>1, <1>4
  <2>2. \A i \in 1 .. k : full[i] = st[i]
    BY <1>1
  <2> HIDE DEF k
  <2>3. SubSeq(full, 1, k) = SubSeq(st, 1, k)
    BY <1>1, <2>1, <2>2, SamePrefix
  <2> QED BY <2>1, <2>3 DEF k
<1>10. Kept(s, st, 1, Truth(SigBy(st[n], key)))
  <2>1. 1 \in 0 .. Len(st)
    BY <1>1, <1>4
  <2> HIDE DEF base
  <2> QED BY <1>6, <1>8, <1>9, <2>1 DEF Kept
<1> QED BY <1>1, <1>4, <1>8, <1>10

LEMMA ArgumentLowers ==
    ASSUME NEW x \in Exprs, IsNameIn(x, ArgNames)
    PROVE  x.op = "ident" /\ IsSpendParam(x.name) /\ x.name \notin Counts /\ Lower[x] = <<Symbol(x.name)>>
<1>1. x.op = "ident" /\ x.name \in ToSet(NamesOf(Path.params)) /\ x.name \notin Counts
  BY DEF IsNameIn, ArgNames
<1>2. Lower[x] = <<Symbol(x.name)>>
  BY <1>1, LowerCases
<1> QED BY <1>1, <1>2 DEF IsSpendParam

LEMMA KeyLowers ==
    ASSUME OnChain, NEW x \in Exprs, IsNameIn(x, ParamNames)
    PROVE  /\ x.op = "ident" /\ Known(x.name) /\ ~IsSpendParam(x.name) /\ x.name \notin Counts
           /\ Lower[x] = <<Symbol(x.name)>>
<1>1. x.op = "ident" /\ x.name \in ToSet(NamesOf(contract.params)) /\ x.name \notin Counts
  BY DEF IsNameIn, ParamNames
<1>2. Lower[x] = <<Symbol(x.name)>>
  BY <1>1, LowerCases
<1>3. Known(x.name)
  BY <1>1 DEF Known
<1> QED BY <1>1, <1>2, <1>3, NamesApart

\* What a name is bound to is a pair of a kind and a value of it.
LEMMA BoundPair ==
    ASSUME OnChain, NEW x, Known(x)
    PROVE  bound[x] = <<bound[x][1], bound[x][2]>>
<1>1. bound \in Bindings /\ x \in DOMAIN bound
  BY SpendFacts, BoundKinds
<1> QED BY <1>1, BindingsAssumption

LEMMA NamesMean ==
    ASSUME NEW x \in Exprs, x.op = "ident", x.name \notin Counts, NEW env, x.name \in DOMAIN env.values
    PROVE  Meaning(x, env) = env.values[x.name]
<1>1. Meaning(x, env) = IdentMeaning(x.name, env)
  BY MeaningCases
<1>2. x.name # "input_count" /\ x.name # "output_count"
  BY DEF Counts
<1> QED BY <1>1, <1>2, Zenon DEF IdentMeaning

LEMMA VerifyParts ==
    ASSUME OnChain, NEW e \in Exprs, IsVerify(e), Len(Args(e)) = 1,
           NEW x, x = Callee(e).kids[1], NEW y, y = Args(e)[1], IsNameIn(x, ArgNames), IsNameIn(y, ParamNames)
    PROVE  /\ x \in Exprs /\ y \in Exprs /\ e.op = "call"
           /\ Lower[e] = (<<Symbol(x.name)>> \o <<Symbol(y.name)>>) \o <<<<"checksig">>>>
           /\ ArgumentsOf[e] = <<x.name>>
           /\ SigningRequirement(e) = [threshold |-> 1, keys |-> <<y>>, arguments |-> <<x>>]
           /\ \A env : Meaning(e, env) = VerifyMeaning(Meaning(x, env), Meaning(y, env))
<1>1. e.op = "call" /\ Callee(e).op = "field"
  BY DEF IsVerify
<1>2. Callee(e) \in Exprs /\ y \in Exprs /\ 1 \in DOMAIN Args(e)
  BY <1>1, Calls
<1>3. x \in Exprs
  <2>1. Len(Callee(e).kids) = 1
    BY <1>1, <1>2, Kinds
  <2> QED BY <1>2, <2>1, Trees
<1>4. Lower[e] = (<<Symbol(x.name)>> \o <<Symbol(y.name)>>) \o <<<<"checksig">>>>
  <2>1. Lower[e] = LowerCall(e, Lower)
    BY <1>1, LowerCases
  <2>2. LowerCall(e, Lower) = Lower[Callee(e).kids[1]] \o LowerNth(Args(e), 1, Lower) \o <<<<"checksig">>>>
    <3>1. /\ ~\E g \in {"input", "output"} : IsCallOf(e, g)
          /\ ~\E g \in {"continuation"} : IsCallOf(e, g)
          /\ ~\E g \in {"multisig"} : IsCallOf(e, g)
          /\ ~\E g \in {"zk_verify"} : IsCallOf(e, g)
          /\ ~\E g \in HashFunctions : IsCallOf(e, g)
      BY NamedCall
    <3> QED BY <3>1, Zenon DEF LowerCall
  <2>3. LowerNth(Args(e), 1, Lower) = Lower[y]
    BY <1>2 DEF LowerNth
  <2>4. Lower[x] = <<Symbol(x.name)>> /\ Lower[y] = <<Symbol(y.name)>>
    BY <1>2, <1>3, ArgumentLowers, KeyLowers
  <2> QED BY <2>1, <2>2, <2>3, <2>4, Zenon
<1>5. SigningRequirement(e) = [threshold |-> 1, keys |-> <<y>>, arguments |-> <<x>>]
  BY Zenon DEF SigningRequirement
<1>6. ArgumentsOf[e] = <<x.name>>
  <2>1. ArgumentsOf[e] = ArgumentsFrom(e, ArgumentsOf)
    BY ArgumentsUnfold
  <2>2. IsSigning(e)
    BY DEF IsSigning
  <2> DEFINE as == SigningRequirement(e).arguments
             ns == [i \in DOMAIN as |-> as[i].name]
  <2>3. ArgumentsOf[e] = ns
    BY <2>1, <2>2, Zenon DEF ArgumentsFrom
  <2>4. as = <<x>>
    BY <1>5
  <2>5. ns = [i \in {1} |-> x.name]
    <3>1. DOMAIN as = {1} /\ as[1] = x
      BY <2>4
    <3> HIDE DEF as
    <3> QED BY <3>1
  <2>6. <<x.name>> = [i \in {1} |-> x.name]
    OBVIOUS
  <2> QED BY <2>3, <2>5, <2>6
<1>7. ASSUME NEW env PROVE Meaning(e, env) = VerifyMeaning(Meaning(x, env), Meaning(y, env))
  <2>1. PICK of : Meaning(e, env) = CallMeaning(e, env, of) /\ \A d : of[d] = Meaning(d, env)
    BY <1>1, MeaningOfCall
  <2>2. CallMeaning(e, env, of) = VerifyMeaning(of[Callee(e).kids[1]], of[Args(e)[1]])
    <3>1. ~IsCallOf(e, "multisig") /\ ~IsCallOf(e, "continuation") /\ ~\E f \in HashFunctions : IsCallOf(e, f)
      BY NamedCall
    <3> QED BY <3>1, Zenon DEF CallMeaning
  <2> QED BY <2>1, <2>2
<1> QED BY <1>1, <1>2, <1>3, <1>4, <1>5, <1>6, <1>7

-----------------------------------------------------------------------------
(* One signature, checked.                                                 *)

LEMMA ByIsFinite ==
    ASSUME NEW st, IsSeq(st), NEW c
    PROVE  IsFiniteSet(By(st, c)) /\ Cardinality(By(st, c)) \in Nat
<1>1. Len(st) \in Nat
  BY SeqProps
<1>2. IsFiniteSet(1 .. Len(st))
  BY <1>1, FS_Interval
<1>3. By(st, c) \in SUBSET (1 .. Len(st))
  BY DEF By
<1>4. IsFiniteSet(By(st, c))
  BY <1>2, <1>3, FS_Subset
<1> QED BY <1>4, FS_CardinalityType

\* The topmost k signatures being by certain keys, k are.
LEMMA ManyBy ==
    ASSUME NEW st, IsSeq(st), NEW c, NEW k \in 0 .. Len(st),
           \A i \in 1 .. Len(st) : i > Len(st) - k => i \in By(st, c)
    PROVE  Cardinality(By(st, c)) >= k
<1> DEFINE n == Len(st)
           top == (n - k + 1) .. n
<1>1. n \in Nat /\ k \in Nat /\ k <= n
  BY SeqProps
<1>2. IsFiniteSet(top) /\ Cardinality(top) = k
  BY <1>1, FS_Interval
<1>3. top \in SUBSET By(st, c)
  BY <1>1
<1> HIDE DEF top
<1>4. Cardinality(top) <= Cardinality(By(st, c))
  BY <1>3, ByIsFinite, FS_Subset
<1> QED BY <1>1, <1>2, <1>4, ByIsFinite

\* What a term that is no conjunction demands, weighs and means, for the terms that sign.
LEMMA SigningOutcome ==
    ASSUME NEW e \in Exprs, IsSigning(e), NEW st, NEW n, NEW v,
           TopSigs(st, n) /\ Truthy(v) => Signed(e, st),
           Sane /\ MultisigsListEnough /\ TopSigs(st, n) => Meant(e, st, n, v)
    PROVE  Outcome(e, st, n, v)
<1>1. e.op # "and"
  BY DEF IsSigning, IsVerify, IsCallOf
<1>2. ToSet(Conjuncts[e]) = {e}
  BY <1>1, ConjunctsAre
<1>3. ~IsValue(e, ArgNames)
  <2>1. e \in ToSet(Conjuncts[e])
    BY <1>2
  <2> QED BY <2>1, ValueConjuncts
<1>4. Weighs(e, v)
  BY <1>2, <1>3 DEF Weighs
<1>5. TopSigs(st, n) => Demands(e, st, v)
  BY <1>2 DEF Demands
<1> QED BY <1>4, <1>5 DEF Outcome

\* A signature against a key that the script was bound with.
LEMMA VerifyRuns ==
    ASSUME OnChain, NEW e \in Exprs, IsVerify(e), Len(Args(e)) = 1,
           NEW x, x = Callee(e).kids[1], NEW y, y = Args(e)[1], IsNameIn(x, ArgNames), IsNameIn(y, ParamNames),
           NEW st, IsSeq(st), NEW s \in Exec(FALSE, Lower[e], st, spend.tx)
    PROVE  LET key == bound[y.name]
           IN  /\ key = Key(key[2]) /\ Len(st) \in Nat /\ Len(st) >= 1
               /\ Kept(s, st, 1, Truth(SigBy(st[Len(st)], key)))
<1> DEFINE a == <<Symbol(x.name)>>
           b == <<Symbol(y.name)>>
           c == <<<<"checksig">>>>
           ab == a \o b
           key == bound[y.name]
<1>1. Lower[e] = ab \o c /\ x \in Exprs /\ y \in Exprs
  BY VerifyParts
<1>2. /\ IsSpendParam(x.name) /\ ~IsSpendParam(y.name) /\ Known(y.name)
  BY <1>1, ArgumentLowers, KeyLowers
<1>3. IsSeq(a) /\ IsSeq(b) /\ IsSeq(c)
  BY OneIsSeq
<1>4. ~ReadAfter(FALSE, a)
  <2> DEFINE ins == Symbol(x.name)
  <2>1. ~Reading(ins)
    BY DEF Reading, Symbol
  <2> HIDE DEF ins
  <2>2. ReadAfter(FALSE, <<ins>>) = Reading(ins)
    BY ReadAfterFew
  <2> QED BY <2>1, <2>2 DEF ins
<1> HIDE DEF a, b, c
<1>5. IsSeq(ab)
  BY <1>3, ConcatSeq
<1>6. ExecSplits(FALSE, a, b, st, spend.tx)
  BY <1>3, ExecApart
<1> HIDE DEF ab
<1>7. ExecSplits(FALSE, ab, c, st, spend.tx)
  BY <1>3, <1>5, ExecApart
<1>8. PICK u \in Exec(FALSE, ab, st, spend.tx) : s \in Exec(ReadAfter(FALSE, ab), c, u, spend.tx)
  BY <1>1, <1>7 DEF ExecSplits
<1>9. PICK t \in Exec(FALSE, a, st, spend.tx) : u \in Exec(ReadAfter(FALSE, a), b, t, spend.tx)
  BY <1>6, <1>8 DEF ExecSplits, ab
<1>10. t = st
  BY <1>2, <1>9, ExecArgument DEF a
<1>11. LeavesOne(u, st, key)
  <2> DEFINE after == ReadAfter(FALSE, a)
  <2>1. u \in Exec(after, <<Symbol(y.name)>>, st, spend.tx)
    BY <1>9, <1>10 DEF b
  <2>2. ~after
    BY <1>4
  <2> HIDE DEF after
  <2>3. LeavesOne(u, st, BoundAs(after, bound[y.name]))
    BY <1>2, <2>1, ExecParameter
  <2> QED BY <2>2, <2>3 DEF BoundAs
<1>12. /\ key[1] = "key" /\ Len(st) \in Nat /\ Len(st) >= 1
       /\ Kept(s, st, 1, Truth(SigBy(st[Len(st)], key)))
  <2> HIDE DEF key
  <2> QED BY <1>8, <1>11, ExecCheckSig DEF c
<1>13. key = Key(key[2])
  <2>1. key = <<key[1], key[2]>>
    BY <1>2, BoundPair
  <2> QED BY <1>12, <2>1 DEF Key
<1> QED BY <1>12, <1>13

\* x.verify(k) takes one signature, and leaves whether it is by k.
LEMMA VerifyTakes ==
    ASSUME OnChain, NEW e \in Exprs, IsVerify(e), Len(Args(e)) = 1,
           IsNameIn(Callee(e).kids[1], ArgNames), IsNameIn(Args(e)[1], ParamNames)
    PROVE  Takes(e, 1)
<1> DEFINE x == Callee(e).kids[1]
           y == Args(e)[1]
           key == bound[y.name]
<1>1. /\ x \in Exprs /\ y \in Exprs /\ e.op = "call" /\ IsNameIn(x, ArgNames) /\ IsNameIn(y, ParamNames)
      /\ Lower[e] = (<<Symbol(x.name)>> \o <<Symbol(y.name)>>) \o <<<<"checksig">>>>
      /\ ArgumentsOf[e] = <<x.name>>
      /\ SigningRequirement(e) = [threshold |-> 1, keys |-> <<y>>, arguments |-> <<x>>]
      /\ \A env : Meaning(e, env) = VerifyMeaning(Meaning(x, env), Meaning(y, env))
  BY VerifyParts
<1>2. IsSigning(e) /\ e.op # "and"
  BY <1>1 DEF IsSigning
<1>3. /\ x.op = "ident" /\ x.name \notin Counts /\ y.op = "ident" /\ y.name \notin Counts /\ Known(y.name)
  BY <1>1, ArgumentLowers, KeyLowers
<1>4. KeysOf(e) = {key} /\ SigningRequirement(e).threshold = 1
  <2>1. SigningRequirement(e).keys = <<y>> /\ SigningRequirement(e).threshold = 1
    BY <1>1
  <2>2. \A i \in DOMAIN <<y>> : <<y>>[i] = y
    OBVIOUS
  <2>3. 1 \in DOMAIN <<y>>
    OBVIOUS
  <2> HIDE DEF y
  <2>4. KeysOf(e) = {bound[<<y>>[i].name] : i \in DOMAIN <<y>>}
    BY <2>1 DEF KeysOf
  <2> QED BY <2>1, <2>2, <2>3, <2>4
<1>5. Listed(e, 1)
  <2>1. ToSet(Conjuncts[e]) = {e}
    BY <1>2, ConjunctsAre
  <2>2. IsSeq(ArgumentsOf[e]) /\ Len(ArgumentsOf[e]) = 1
    BY <1>1, OneIsSeq
  <2> QED BY <1>4, <2>1, <2>2 DEF Listed
<1>6. ASSUME NEW read PROVE ReadAfter(read, Lower[e]) = ReadsScript(e)
  <2>1. ~ReadsScript(e)
    BY <1>1, NoReading
  <2> DEFINE ab == <<Symbol(x.name)>> \o <<Symbol(y.name)>>
             ins == <<"checksig">>
  <2>2. IsSeq(ab)
    BY OneIsSeq, ConcatSeq
  <2>3. ~Reading(ins) /\ Lower[e] = ab \o <<ins>>
    BY <1>1 DEF Reading
  <2> HIDE DEF ab, ins
  <2>4. ValueReads(e)
    BY <2>1, <2>2, <2>3, EndsQuietly
  <2> QED BY <2>4 DEF ValueReads
<1>7. ASSUME NEW st, NEW s, IsSeq(st), s \in Exec(FALSE, Lower[e], st, spend.tx)
      PROVE  \E v : Kept(s, st, 1, v) /\ Outcome(e, st, 1, v)
  <2> DEFINE n == Len(st)
             sig == st[n]
             v == Truth(SigBy(sig, key))
  <2>1. key = Key(key[2]) /\ n \in Nat /\ n >= 1 /\ Kept(s, st, 1, v)
    BY <1>1, <1>7, VerifyRuns
  <2>2. SigBy(sig, key) \in BOOLEAN
    BY DEF SigBy
  <2>3. ASSUME TopSigs(st, 1) PROVE sig = Sig(sig[2])
    BY <2>1, <2>3 DEF TopSigs
  <2>4. ASSUME TopSigs(st, 1), Truthy(v) PROVE Signed(e, st)
    <3>1. SigBy(sig, key)
      BY <2>2, <2>4 DEF Truthy, Truth
    <3>2. Key(sig[2]) = key
      BY <2>1, <3>1 DEF SigBy
    <3>3. \A i \in 1 .. n : i > n - 1 => i \in By(st, e)
      <4>1. \A i \in 1 .. n : i > n - 1 => i = n
        BY <2>1
      <4>2. n \in By(st, e)
        BY <1>4, <2>1, <3>2 DEF By
      <4> QED BY <4>1, <4>2
    <3>4. 1 \in 0 .. Len(st)
      BY <2>1
    <3>5. Cardinality(By(st, e)) >= 1
      BY <1>7, <3>3, <3>4, ManyBy
    <3> QED BY <1>4, <3>5 DEF Signed
  <2>5. ASSUME TopSigs(st, 1) PROVE Meant(e, st, 1, v)
    <3> SUFFICES ASSUME NEW env, Agrees(env), Given(e, env, st, 1)
                 PROVE  Meaning(e, env) = v /\ IsResult(v)
      BY DEF Meant
    <3>1. x.name \in DOMAIN env.values /\ env.values[x.name] = sig
      <4>1. /\ ArgumentsOf[e][1] \in DOMAIN env.values
            /\ env.values[ArgumentsOf[e][1]] = st[Len(st) - 1 + 1]
        BY DEF Given
      <4>2. ArgumentsOf[e][1] = x.name
        BY <1>1
      <4>3. Len(st) - 1 + 1 = n
        BY <2>1
      <4> QED BY <4>1, <4>2, <4>3
    <3>2. y.name \in DOMAIN env.values /\ env.values[y.name] = key
      BY <1>3 DEF Agrees
    <3>3. Meaning(x, env) = sig /\ Meaning(y, env) = key
      BY <1>1, <1>3, <3>1, <3>2, NamesMean
    <3>4. sig = Sig(sig[2])
      BY <2>3, <2>5
    <3>5. VerifyMeaning(sig, key) = v
      <4> HIDE DEF sig, key
      <4>1. sig[1] = "sig" /\ key[1] = "key"
        BY <2>1, <3>4 DEF Sig, Key
      <4>2. VerifyMeaning(sig, key) = Truth(sig = Sig(key[2]))
        BY <4>1 DEF VerifyMeaning
      <4>3. SigBy(sig, key) = (sig = Sig(key[2]))
        BY <3>4, <4>1 DEF SigBy, Sig
      <4> QED BY <4>2, <4>3
    <3>6. IsResult(v)
      <4> HIDE DEF sig, key
      <4>1. v # Undefined /\ \E k \in Int : v = Num(k)
        BY <2>2, TruthIs, TruthNumber
      <4> HIDE DEF v
      <4> QED BY <4>1 DEF IsResult
    <3> QED BY <1>1, <3>3, <3>5, <3>6
  <2>6. Outcome(e, st, 1, v)
    <3> HIDE DEF v
    <3> QED BY <1>2, <2>4, <2>5, SigningOutcome
  <2> QED BY <2>1, <2>6
<1> QED BY <1>5, <1>6, <1>7 DEF Takes

-----------------------------------------------------------------------------
(* Lists of names.  The code of a list of arguments or of keys.            *)

\* After code that reads no coin, no coin is being read.
LEMMA QuietCode ==
    ASSUME NEW code, IsSeq(code), \A ins \in ToSet(code) : ~Reading(ins)
    PROVE  ~ReadAfter(FALSE, code)
<1>1. CASE code = << >>
  BY <1>1 DEF ReadAfter
<1>2. CASE code # << >>
  <2>1. Len(code) \in Nat /\ Len(code) # 0
    BY <1>2, EmptyLen, SeqProps
  <2>2. Len(code) \in 1 .. Len(code)
    BY <2>1
  <2> DEFINE ins == code[Len(code)]
  <2>3. ins \in ToSet(code)
    BY <2>2, Members
  <2>4. ~Reading(ins)
    BY <2>3
  <2>5. ReadAfter(FALSE, code) = Reading(ins)
    BY <1>2 DEF ReadAfter
  <2> HIDE DEF ins
  <2> QED BY <2>4, <2>5
<1> QED BY <1>1, <1>2

\* Pieces of code that each name one thing.
Names(ps, xs) == Len(ps) = Len(xs) /\ \A i \in 1 .. Len(ps) : ps[i] = <<Symbol(xs[i])>>

AllButOne(ps, xs, n, qs, ys, x) ==
    /\ IsSeqOfSeqs(qs) /\ IsSeq(ys) /\ Names(qs, ys) /\ Len(ys) = n
    /\ FlattenSeq(ps) = FlattenSeq(qs) \o <<Symbol(x)>>
    /\ x = xs[n + 1] /\ \A i \in 1 .. n : ys[i] = xs[i]

LEMMA NamesFront ==
    ASSUME NEW xs, IsSeq(xs), NEW n \in Nat, Len(xs) = n + 1, NEW ps, IsSeqOfSeqs(ps), Names(ps, xs)
    PROVE  \E qs, ys, x : AllButOne(ps, xs, n, qs, ys, x)
<1> DEFINE ys == SubSeq(xs, 1, n)
           x == xs[n + 1]
<1>1. n \in 0 .. Len(xs) /\ n + 1 \in 1 .. Len(xs)
  OBVIOUS
<1>2. IsSeq(ys) /\ Len(ys) = n /\ \A i \in 1 .. n : ys[i] = xs[i]
  BY <1>1, PrefixSeq
<1>3. PICK qs, q : IsSeqOfSeqs(qs) /\ IsSeq(q) /\ Len(qs) = n /\ ps = Append(qs, q)
  BY SeqsFront DEF Names
<1>4. IsSeq(qs) /\ ps[n + 1] = q /\ \A i \in 1 .. n : ps[i] = qs[i]
  BY <1>3, AppendSeq DEF IsSeqOfSeqs
<1> HIDE DEF ys
<1>5. q = <<Symbol(x)>>
  BY <1>1, <1>4 DEF Names
<1>6. Names(qs, ys)
  <2>1. \A i \in 1 .. n : i \in 1 .. Len(ps)
    BY DEF Names
  <2>2. \A i \in 1 .. n : qs[i] = <<Symbol(ys[i])>>
    BY <1>2, <1>4, <2>1 DEF Names
  <2> QED BY <1>2, <1>3, <2>2 DEF Names
<1>7. FlattenSeq(ps) = FlattenSeq(qs) \o <<Symbol(x)>>
  BY <1>3, <1>5, FlattenAppend, <1>4
<1> QED BY <1>2, <1>3, <1>6, <1>7 DEF AllButOne

LEMMA NoNames ==
    ASSUME NEW ps, IsSeqOfSeqs(ps), NEW xs, Names(ps, xs), Len(xs) = 0
    PROVE  FlattenSeq(ps) = << >>
BY SeqsEmpty, FlattenEmpty DEF Names

\* Named arguments are on the stack already.
LEMMA ExecArguments ==
    ASSUME NEW ps, IsSeqOfSeqs(ps), NEW xs, IsSeq(xs), Names(ps, xs), \A i \in 1 .. Len(xs) : IsSpendParam(xs[i]),
           NEW st, NEW tx, NEW s \in Exec(FALSE, FlattenSeq(ps), st, tx)
    PROVE  s = st
<1> DEFINE Listing(ys) == IsSeq(ys) /\ \A i \in 1 .. Len(ys) : IsSpendParam(ys[i])
           Idle(qs) == \A u \in Exec(FALSE, FlattenSeq(qs), st, tx) : u = st
           Works(n) == \A ys, qs : Listing(ys) /\ Len(ys) = n /\ IsSeqOfSeqs(qs) /\ Names(qs, ys) => Idle(qs)
           T == {n \in Nat : Works(n)}
<1>1. 0 \in T
  <2>1. ASSUME NEW ys, NEW qs, Listing(ys), Len(ys) = 0, IsSeqOfSeqs(qs), Names(qs, ys) PROVE Idle(qs)
    BY <2>1, NoNames, ExecNone
  <2> QED BY <2>1
<1>2. ASSUME NEW n \in T PROVE n + 1 \in T
  <2>1. n \in Nat /\ n + 1 \in Nat
    OBVIOUS
  <2> HIDE DEF Works
  <2>0. Works(n)
    OBVIOUS
  <2> HIDE DEF T
  <2>2. ASSUME NEW ys, NEW qs, Listing(ys), Len(ys) = n + 1, IsSeqOfSeqs(qs), Names(qs, ys),
               NEW u \in Exec(FALSE, FlattenSeq(qs), st, tx)
        PROVE  u = st
    <3>0. PICK rs, zs, x : AllButOne(qs, ys, n, rs, zs, x)
      <4>1. IsSeq(ys) /\ Len(ys) = n + 1 /\ IsSeqOfSeqs(qs) /\ Names(qs, ys)
        BY <2>2
      <4> HIDE DEF Listing
      <4> QED BY <2>1, <4>1, NamesFront
    <3>1. /\ IsSeqOfSeqs(rs) /\ IsSeq(zs) /\ Names(rs, zs) /\ Len(zs) = n
          /\ FlattenSeq(qs) = FlattenSeq(rs) \o <<Symbol(x)>>
          /\ x = ys[n + 1] /\ \A i \in 1 .. n : zs[i] = ys[i]
      BY <3>0 DEF AllButOne
    <3>2. Listing(zs)
      <4>1. \A i \in 1 .. n : i \in 1 .. n + 1
        BY <2>1
      <4> QED BY <2>2, <3>1, <4>1
    <3>3. IsSpendParam(x)
      <4>1. n + 1 \in 1 .. n + 1
        BY <2>1
      <4> QED BY <2>2, <3>1, <4>1
    <3>4. Idle(rs)
      BY <2>0, <3>1, <3>2 DEF Works
    <3> DEFINE c == FlattenSeq(rs)
               d == <<Symbol(x)>>
    <3>5. IsSeq(c) /\ IsSeq(d)
      BY <3>1, FlattenIsSeq, OneIsSeq
    <3>6. u \in Exec(FALSE, c \o d, st, tx)
      BY <2>2, <3>1
    <3>7. \A v \in Exec(FALSE, c, st, tx) : v = st
      BY <3>4
    <3> HIDE DEF c
    <3>8. ExecSplits(FALSE, c, d, st, tx)
      BY <3>5, ExecApart
    <3>9. PICK v \in Exec(FALSE, c, st, tx) : u \in Exec(ReadAfter(FALSE, c), d, v, tx)
      BY <3>6, <3>8 DEF ExecSplits
    <3>10. v = st
      BY <3>7
    <3> DEFINE after == ReadAfter(FALSE, c)
    <3>11. u \in Exec(after, <<Symbol(x)>>, st, tx)
      BY <3>9, <3>10
    <3> HIDE DEF after
    <3> QED BY <3>3, <3>11, ExecArgument
  <2>3. Works(n + 1)
    <3> HIDE DEF Listing
    <3> QED BY <2>2 DEF Works
  <2> QED BY <2>1, <2>3 DEF T
<1>3. T \in SUBSET Nat
  OBVIOUS
<1>4. Listing(xs)
  OBVIOUS
<1> HIDE DEF T
<1>5. T = Nat
  BY <1>1, <1>2, <1>3, NatInductionOnSet
<1>6. Len(xs) \in T
  BY <1>5, SeqProps
<1> QED BY <1>4, <1>6 DEF T

LEMMA NamesAreQuiet ==
    ASSUME NEW ps, IsSeqOfSeqs(ps), NEW xs, Names(ps, xs)
    PROVE  IsSeq(FlattenSeq(ps)) /\ ~ReadAfter(FALSE, FlattenSeq(ps))
<1> DEFINE S == {Symbol(xs[i]) : i \in 1 .. Len(xs)}
           c == FlattenSeq(ps)
<1>1. ASSUME NEW i \in 1 .. Len(ps) PROVE ToSet(ps[i]) \subseteq S
  <2> DEFINE ins == Symbol(xs[i])
  <2>1. ps[i] = <<ins>> /\ ins \in S
    BY DEF Names
  <2> HIDE DEF ins, S
  <2>2. ToSet(<<ins>>) = {ins}
    BY ToSetOne
  <2> QED BY <2>1, <2>2
<1>2. \A ins \in S : ~Reading(ins)
  BY DEF Reading, Symbol
<1> HIDE DEF S
<1>3. IsSeq(c) /\ ToSet(c) \subseteq S
  BY <1>1, FlattenWithin, FlattenIsSeq
<1> HIDE DEF c
<1>4. ~ReadAfter(FALSE, c)
  BY <1>2, <1>3, QuietCode
<1> QED BY <1>3, <1>4 DEF c

PushedAll(xs, st, vs, s) ==
    /\ IsSeq(vs) /\ Len(vs) = Len(xs) /\ JoinOf(st, vs, s)
    /\ \A i \in 1 .. Len(xs) : vs[i] = bound[xs[i]]

\* Named parameters are pushed in turn.
LEMMA ExecParameters ==
    ASSUME NEW ps, IsSeqOfSeqs(ps), NEW xs, IsSeq(xs), Names(ps, xs), \A i \in 1 .. Len(xs) : ~IsSpendParam(xs[i]),
           NEW st, IsSeq(st), NEW tx, NEW s \in Exec(FALSE, FlattenSeq(ps), st, tx)
    PROVE  \E vs : PushedAll(xs, st, vs, s)
<1> DEFINE Listing(ys) == IsSeq(ys) /\ \A i \in 1 .. Len(ys) : ~IsSpendParam(ys[i])
           Left(ys, u) == \E vs : /\ IsSeq(vs) /\ Len(vs) = Len(ys) /\ JoinOf(st, vs, u)
                                  /\ \A i \in 1 .. Len(ys) : vs[i] = bound[ys[i]]
           Leaving(ys, qs) == \A u \in Exec(FALSE, FlattenSeq(qs), st, tx) : Left(ys, u)
           Works(n) == \A ys, qs : Listing(ys) /\ Len(ys) = n /\ IsSeqOfSeqs(qs) /\ Names(qs, ys) => Leaving(ys, qs)
           T == {n \in Nat : Works(n)}
<1>1. 0 \in T
  <2>1. ASSUME NEW ys, NEW qs, Listing(ys), Len(ys) = 0, IsSeqOfSeqs(qs), Names(qs, ys),
               NEW u \in Exec(FALSE, FlattenSeq(qs), st, tx)
        PROVE  Left(ys, u)
    <3>1. u = st
      BY <2>1, NoNames, ExecNone
    <3>2. JoinOf(st, << >>, u)
      BY <3>1, ConcatEmpty DEF JoinOf
    <3>3. \A i \in 1 .. 0 : << >>[i] = bound[ys[i]]
      OBVIOUS
    <3> QED BY <2>1, <3>2, <3>3, EmptyIsSeq
  <2> QED BY <2>1
<1>2. ASSUME NEW n \in T PROVE n + 1 \in T
  <2>1. n \in Nat /\ n + 1 \in Nat
    OBVIOUS
  <2> HIDE DEF Works
  <2>0. Works(n)
    OBVIOUS
  <2> HIDE DEF T
  <2>2. ASSUME NEW ys, NEW qs, Listing(ys), Len(ys) = n + 1, IsSeqOfSeqs(qs), Names(qs, ys),
               NEW u \in Exec(FALSE, FlattenSeq(qs), st, tx)
        PROVE  Left(ys, u)
    <3>0. PICK rs, zs, x : AllButOne(qs, ys, n, rs, zs, x)
      <4>1. IsSeq(ys) /\ Len(ys) = n + 1 /\ IsSeqOfSeqs(qs) /\ Names(qs, ys)
        BY <2>2
      <4> HIDE DEF Listing
      <4> QED BY <2>1, <4>1, NamesFront
    <3>1. /\ IsSeqOfSeqs(rs) /\ IsSeq(zs) /\ Names(rs, zs) /\ Len(zs) = n
          /\ FlattenSeq(qs) = FlattenSeq(rs) \o <<Symbol(x)>>
          /\ x = ys[n + 1] /\ \A i \in 1 .. n : zs[i] = ys[i]
      BY <3>0 DEF AllButOne
    <3>2. Listing(zs)
      <4>1. \A i \in 1 .. n : i \in 1 .. n + 1
        BY <2>1
      <4> QED BY <2>2, <3>1, <4>1
    <3>3. ~IsSpendParam(x)
      <4>1. n + 1 \in 1 .. n + 1
        BY <2>1
      <4> QED BY <2>2, <3>1, <4>1
    <3>4. Leaving(zs, rs)
      <4> HIDE DEF Leaving, Listing
      <4> QED BY <2>0, <3>1, <3>2 DEF Works
    <3> DEFINE c == FlattenSeq(rs)
               d == <<Symbol(x)>>
    <3>5. IsSeq(c) /\ IsSeq(d) /\ ~ReadAfter(FALSE, c)
      BY <3>1, NamesAreQuiet, OneIsSeq
    <3>6. u \in Exec(FALSE, c \o d, st, tx)
      BY <2>2, <3>1
    <3>7. \A v \in Exec(FALSE, c, st, tx) : Left(zs, v)
      BY <3>4
    <3> HIDE DEF c
    <3>8. ExecSplits(FALSE, c, d, st, tx)
      BY <3>5, ExecApart
    <3>9. PICK v \in Exec(FALSE, c, st, tx) : u \in Exec(ReadAfter(FALSE, c), d, v, tx)
      BY <3>6, <3>8 DEF ExecSplits
    <3>10. PICK vs : /\ IsSeq(vs) /\ Len(vs) = Len(zs) /\ JoinOf(st, vs, v)
                     /\ \A i \in 1 .. Len(zs) : vs[i] = bound[zs[i]]
      BY <3>7
    <3>11. IsSeq(v)
      BY <3>10, Joins
    <3> DEFINE after == ReadAfter(FALSE, c)
    <3>12. u \in Exec(after, <<Symbol(x)>>, v, tx)
      BY <3>9
    <3>13. ~after
      BY <3>5
    <3> HIDE DEF after
    <3>14. LeavesOne(u, v, bound[x])
      <4>1. LeavesOne(u, v, BoundAs(after, bound[x]))
        BY <3>3, <3>11, <3>12, ExecParameter
      <4> QED BY <3>13, <4>1 DEF BoundAs
    <3> DEFINE w == bound[x]
               ws == vs \o <<w>>
    <3>15. JoinOf(st, ws, u)
      <4>1. u = (st \o vs) \o <<w>>
        BY <3>10, <3>14 DEF JoinOf, LeavesOne
      <4> HIDE DEF w
      <4>2. (st \o vs) \o <<w>> = st \o (vs \o <<w>>)
        <5>1. IsSeq(st) /\ IsSeq(vs) /\ IsSeq(<<w>>)
          BY <3>10, OneIsSeq
        <5> QED BY <5>1, ConcatAssoc
      <4> QED BY <4>1, <4>2 DEF JoinOf
    <3>16. IsSeq(ws) /\ Len(ws) = n + 1 /\ \A i \in 1 .. n + 1 : ws[i] = bound[ys[i]]
      <4>1. /\ IsSeq(ws) /\ Len(ws) = n + 1 /\ ws[n + 1] = w
            /\ \A i \in 1 .. n : ws[i] = vs[i]
        <5> HIDE DEF w
        <5>1. LeavesOne(ws, vs, w) /\ IsSeq(vs)
          BY <3>10 DEF LeavesOne
        <5> HIDE DEF ws
        <5>2. /\ IsSeq(ws) /\ Len(ws) = Len(vs) + 1
              /\ (\A i \in 1 .. Len(vs) : ws[i] = vs[i]) /\ ws[Len(vs) + 1] = w
          BY <5>1, OnTop
        <5> QED BY <3>1, <3>10, <5>2
      <4> HIDE DEF ws
      <4>2. ASSUME NEW i \in 1 .. n + 1 PROVE ws[i] = bound[ys[i]]
        <5>1. i \in 1 .. n \/ i = n + 1
          BY <2>1
        <5> QED BY <3>1, <3>10, <4>1, <5>1
      <4> QED BY <4>1, <4>2
    <3> HIDE DEF ws
    <3> QED BY <2>2, <3>15, <3>16
  <2>3. Works(n + 1)
    <3> HIDE DEF Listing, Left
    <3> QED BY <2>2 DEF Works
  <2> QED BY <2>1, <2>3 DEF T
<1>3. T \in SUBSET Nat
  OBVIOUS
<1>4. Listing(xs)
  OBVIOUS
<1> HIDE DEF T
<1>5. T = Nat
  BY <1>1, <1>2, <1>3, NatInductionOnSet
<1>6. Len(xs) \in T
  BY <1>5, SeqProps
<1>7. Leaving(xs, ps)
  BY <1>4, <1>6 DEF T
<1>8. PICK vs : /\ IsSeq(vs) /\ Len(vs) = Len(xs) /\ JoinOf(st, vs, s)
                /\ \A i \in 1 .. Len(xs) : vs[i] = bound[xs[i]]
  BY <1>7
<1> QED BY <1>8 DEF PushedAll

-----------------------------------------------------------------------------
(* Several signatures.  What the engine checks of a threshold.             *)

\* Signatures matched to keys, in the order of both.
Matched(st, k, vs) ==
    \E f \in [1 .. k -> 1 .. Len(vs)] :
        /\ \A i, j \in 1 .. k : i < j => f[i] < f[j]
        /\ \A i \in 1 .. k : st[Len(st) - k + i][1] = "sig" /\ vs[f[i]] = Key(st[Len(st) - k + i][2])

\* The stack a threshold, its keys and their number are on.
Stacked(st, k, vs, full) ==
    /\ IsSeq(full) /\ Len(full) = Len(st) + Len(vs) + 2
    /\ \A i \in 1 .. Len(st) : full[i] = st[i]
    /\ full[Len(st) + 1] = Num(k)
    /\ \A i \in 1 .. Len(vs) : full[Len(st) + 1 + i] = vs[i]
    /\ full[Len(full)] = Num(Len(vs))

LEMMA CheckMultisigIs ==
    ASSUME NEW st, IsSeq(st), NEW k \in Nat, NEW vs, IsSeq(vs), NEW full, Stacked(st, k, vs, full),
           NEW s \in CheckMultisig(full)
    PROVE  k <= Len(st) /\ Kept(s, st, k, Truth(TRUE)) /\ Matched(st, k, vs)
<1> DEFINE L == Len(st)
           m == Len(vs)
           n == Last(full)
           at == Len(full) - 1 - n[2]
           keys == SubSeq(full, at + 1, at + n[2])
           sigs == SubSeq(full, at - full[at][2], at - 1)
           rest == SubSeq(full, 1, at - 1 - full[at][2])
           top == full[at][2]
           ordered(f) == \A i, j \in 1 .. top : i < j => f[i] < f[j]
<1>1. L \in Nat /\ m \in Nat /\ IsSeq(full) /\ Len(full) = L + m + 2
  BY SeqProps DEF Stacked
<1>2. full # << >> /\ n = Num(m) /\ IsNum(n) /\ n[2] = m /\ at = L + 1
  <2>1. full # << >>
    BY <1>1, EmptyIsSeq
  <2>2. n = Num(m)
    BY DEF Last, Stacked
  <2>3. IsNum(Num(m)) /\ Num(m)[2] = m
    BY NumIs
  <2>4. n[2] = m /\ IsNum(n)
    BY <2>2, <2>3
  <2> HIDE DEF n
  <2>5. at = L + 1
    BY <1>1, <2>4
  <2> QED BY <2>1, <2>2, <2>4, <2>5
<1>3. top = k /\ IsNum(full[at])
  <2>1. full[at] = Num(k)
    BY <1>2 DEF Stacked
  <2> QED BY <2>1, NumIs
<1>4. CheckMultisig(full) =
         IF top \notin 0 .. n[2] \/ at - top < 1 THEN {}
         ELSE IF \E f \in [1 .. top -> 1 .. n[2]] :
                    ordered(f) /\ \A i \in 1 .. top : sigs[i][1] = "sig" /\ keys[f[i]] = Key(sigs[i][2])
              THEN {Append(rest, Truth(TRUE))} ELSE {}
  <2>1. ~(at < 1)
    BY <1>1, <1>2
  <2> QED BY <1>2, <1>3, <2>1, Zenon DEF CheckMultisig
<1>5. /\ ~(top \notin 0 .. n[2] \/ at - top < 1)
      /\ (\E f \in [1 .. top -> 1 .. n[2]] :
                    ordered(f) /\ \A i \in 1 .. top : sigs[i][1] = "sig" /\ keys[f[i]] = Key(sigs[i][2]))
      /\ s = Append(rest, Truth(TRUE))
  <2> HIDE DEF at, n, keys, sigs, rest, top
  <2> QED BY <1>4, Zenon
<1>6. k \in 0 .. m /\ k <= L
  BY <1>1, <1>2, <1>3, <1>5
<1>7. Kept(s, st, k, Truth(TRUE))
  <2> DEFINE j == L - k
  <2>1. j \in 0 .. Len(full) /\ j \in 0 .. Len(st) /\ k \in 0 .. Len(st) /\ \A i \in 1 .. j : full[i] = st[i]
    BY <1>1, <1>6 DEF Stacked
  <2>2. at - 1 - top = j
    BY <1>1, <1>2, <1>3
  <2>3. rest = SubSeq(full, 1, j)
    BY <2>2, Zenon
  <2> HIDE DEF j, rest
  <2>4. SubSeq(full, 1, j) = SubSeq(st, 1, j) /\ IsSeq(rest)
    BY <1>1, <2>1, <2>3, SamePrefix, PrefixSeq
  <2>5. s = rest \o <<Truth(TRUE)>>
    BY <1>5, <2>4, AppendSeq
  <2> QED BY <2>1, <2>3, <2>4, <2>5 DEF Kept, j
<1>8. ASSUME NEW i \in 1 .. k PROVE sigs[i] = st[L - k + i]
  <2> DEFINE lo == at - top
             hi == at - 1
  <2>1. lo \in 1 .. Len(full) + 1 /\ hi \in 0 .. Len(full) /\ lo <= hi + 1 /\ hi - lo + 1 = k /\ lo = L + 1 - k
    BY <1>1, <1>2, <1>3, <1>6
  <2> HIDE DEF lo, hi
  <2>2. SubSeq(full, lo, hi)[i] = full[lo + i - 1]
    BY <1>1, <2>1, StretchSeq
  <2>3. lo + i - 1 = L - k + i /\ L - k + i \in 1 .. L
    BY <1>1, <1>6, <2>1
  <2>4. sigs[i] = full[L - k + i]
    BY <2>2, <2>3 DEF lo, hi
  <2> QED BY <2>3, <2>4 DEF Stacked
<1>9. ASSUME NEW i \in 1 .. m PROVE keys[i] = vs[i]
  <2> DEFINE lo == at + 1
             hi == at + n[2]
  <2>1. lo \in 1 .. Len(full) + 1 /\ hi \in 0 .. Len(full) /\ lo <= hi + 1 /\ hi - lo + 1 = m /\ lo = L + 2
    BY <1>1, <1>2
  <2> HIDE DEF lo, hi
  <2>2. SubSeq(full, lo, hi)[i] = full[lo + i - 1]
    BY <1>1, <2>1, StretchSeq
  <2>3. lo + i - 1 = L + 1 + i
    BY <1>1, <2>1
  <2>4. keys[i] = full[L + 1 + i]
    BY <2>2, <2>3 DEF lo, hi
  <2> QED BY <2>4 DEF Stacked
<1>10. Matched(st, k, vs)
  <2> HIDE DEF keys, sigs, at, n, rest, top
  <2>1. PICK f \in [1 .. top -> 1 .. n[2]] :
               ordered(f) /\ \A i \in 1 .. top : sigs[i][1] = "sig" /\ keys[f[i]] = Key(sigs[i][2])
    BY <1>5
  <2>2. f \in [1 .. k -> 1 .. m] /\ \A i, j \in 1 .. k : i < j => f[i] < f[j]
    BY <1>2, <1>3, <2>1
  <2>3. ASSUME NEW i \in 1 .. k
        PROVE  st[L - k + i][1] = "sig" /\ vs[f[i]] = Key(st[L - k + i][2])
    <3>1. sigs[i][1] = "sig" /\ keys[f[i]] = Key(sigs[i][2])
      BY <1>3, <2>1
    <3>2. f[i] \in 1 .. m
      BY <2>2
    <3> QED BY <1>8, <1>9, <3>1, <3>2
  <2> QED BY <2>2, <2>3 DEF Matched
<1> QED BY <1>6, <1>7, <1>10

NamedBy(list, of) == list.op = "array" /\ \A i \in DOMAIN list.kids : IsNameIn(list.kids[i], of)

IsMultisig(e) ==
    /\ IsCallOf(e, "multisig") /\ Len(Args(e)) = 3 /\ IsLiteralIndex(Args(e))
    /\ NamedBy(Args(e)[2], ParamNames) /\ NamedBy(Args(e)[3], ArgNames)

ListNames(list, ps, xs) ==
    /\ IsSeqOfSeqs(ps) /\ IsSeq(xs) /\ Names(ps, xs) /\ Lower[list] = FlattenSeq(ps)
    /\ Len(xs) = Len(list.kids) /\ \A i \in 1 .. Len(xs) : xs[i] = list.kids[i].name

LEMMA NamesOfList ==
    ASSUME NEW list \in Exprs, list.op = "array", \A i \in DOMAIN list.kids : Lower[list.kids[i]] = <<Symbol(list.kids[i].name)>>
    PROVE  \E ps, xs : ListNames(list, ps, xs)
<1> DEFINE es == list.kids
           ps == [i \in DOMAIN es |-> Lower[es[i]]]
           xs == [i \in DOMAIN es |-> es[i].name]
<1>1. IsSeq(es) /\ DOMAIN es = 1 .. Len(es) /\ Len(es) \in Nat
  BY Trees
<1>2. Lower[list] = LowerAll(es, Lower)
  BY LowerCases
<1>3. Lower[list] = Concat(ps)
  BY <1>2, Zenon DEF LowerAll
<1>4. \A i \in 1 .. Len(es) : ps[i] = <<Symbol(xs[i])>>
  BY <1>1
<1>5. ASSUME NEW i \in 1 .. Len(es) PROVE IsSeq(ps[i])
  <2> DEFINE ins == Symbol(xs[i])
  <2>1. ps[i] = <<ins>>
    BY <1>4
  <2> HIDE DEF ins, ps
  <2> QED BY <2>1, OneIsSeq
<1>6. ps = [i \in DOMAIN es |-> ps[i]]
  BY Zenon
<1>7. xs = [i \in DOMAIN es |-> xs[i]]
  BY Zenon
<1>9. \A i \in 1 .. Len(es) : xs[i] = es[i].name
  BY <1>1
<1> HIDE DEF ps, xs
<1>8. IsSeqOfSeqs(ps) /\ Len(ps) = Len(es) /\ Concat(ps) = FlattenSeq(ps) /\ IsSeq(xs) /\ Len(xs) = Len(es)
  <2> HIDE DEF es
  <2>1. IsSeqOfSeqs(ps) /\ Len(ps) = Len(es) /\ Concat(ps) = FlattenSeq(ps)
    BY <1>1, <1>5, <1>6, Pieces
  <2>2. IsSeq(xs) /\ Len(xs) = Len(es)
    BY <1>1, <1>7, Mapped
  <2> QED BY <2>1, <2>2
<1>10. Names(ps, xs)
  BY <1>4, <1>8 DEF Names
<1> QED BY <1>3, <1>8, <1>9, <1>10 DEF ListNames

-----------------------------------------------------------------------------
(* The code of a multisig.                                                 *)

LEMMA ExecCheckMultisig ==
    ASSUME NEW read, NEW st, IsSeq(st), NEW m, NEW tx, NEW s \in Exec(read, <<<<"checkmultisig", m>>>>, st, tx)
    PROVE  \E full : LeavesOne(full, st, Num(m)) /\ s \in CheckMultisig(full)
<1> DEFINE ins == <<"checkmultisig", m>>
           op  == <<"checkmultisig">>
<1>1. ins[1] = "checkmultisig" /\ ins[2] = m
  OBVIOUS
<1>2. Encode(ins) = <<Push(Num(m))>> \o <<op>>
  BY <1>1 DEF Encode, EncodedNumber
<1>3. s \in Exec(read, <<ins>>, st, tx)
  OBVIOUS
<1>8. op[1] = "checkmultisig"
  OBVIOUS
<1> HIDE DEF ins
<1>4. s \in Run(<<Push(Num(m))>> \o <<op>>, st, tx)
  BY <1>1, <1>2, <1>3, ExecPlain
<1> DEFINE a == Push(Num(m))
<1>5. PICK u \in After(st, a, tx) : s \in After(u, op, tx)
  <2>1. s \in Run(<<a>> \o <<op>>, st, tx)
    BY <1>4
  <2> HIDE DEF a, op
  <2> QED BY <2>1, RunTwo
<1>6. LeavesOne(u, st, Num(m))
  BY <1>5, AfterPush
<1>7. After(u, op, tx) = CheckMultisig(u)
  <2> HIDE DEF op
  <2> QED BY <1>8, Zenon DEF After
<1> QED BY <1>5, <1>6, <1>7

MultisigShape(e, k, ks, as) ==
    /\ k \in Nat /\ e.op = "call"
    /\ IsSeq(ks) /\ DOMAIN ks = 1 .. Len(ks) /\ Len(ks) \in Nat
    /\ IsSeq(as) /\ DOMAIN as = 1 .. Len(as) /\ Len(as) \in Nat
    /\ \A i \in 1 .. Len(ks) : ks[i] \in Exprs /\ IsNameIn(ks[i], ParamNames)
    /\ \A i \in 1 .. Len(as) : as[i] \in Exprs /\ IsNameIn(as[i], ArgNames)
    /\ Args(e)[2] \in Exprs /\ Args(e)[3] \in Exprs
    /\ Lower[e] = ((Lower[Args(e)[3]] \o <<Push(Num(k))>>) \o Lower[Args(e)[2]]) \o <<<<"checkmultisig", Len(ks)>>>>
    /\ ArgumentsOf[e] = [i \in DOMAIN as |-> as[i].name]
    /\ SigningRequirement(e) = [threshold |-> k, keys |-> ks, arguments |-> as]

MultisigMeans(e, env, k, ks, as) ==
    Meaning(e, env) = MultisigMeaning(k, [i \in DOMAIN ks |-> Meaning(ks[i], env)],
                                         [i \in DOMAIN as |-> Meaning(as[i], env)])

LEMMA MultisigParts ==
    ASSUME OnChain, NEW e \in Exprs, IsMultisig(e),
           NEW k, k = Args(e)[1].n, NEW ks, ks = Args(e)[2].kids, NEW as, as = Args(e)[3].kids
    PROVE  MultisigShape(e, k, ks, as) /\ \A env : MultisigMeans(e, env, k, ks, as)
<1> DEFINE args == Args(e)
<1>1. e.op = "call" /\ ~IsVerify(e) /\ (\A g : IsCallOf(e, g) => g = "multisig") /\ IsCallOf(e, "multisig")
  BY NamedCall DEF IsMultisig
<1>2. Len(args) = 3 /\ DOMAIN args = 1 .. 3 /\ args[1] \in Exprs /\ args[2] \in Exprs /\ args[3] \in Exprs
  BY <1>1, Calls DEF IsMultisig
<1>3. /\ IsLiteralIndex(args)
      /\ args[2].op = "array" /\ \A i \in DOMAIN ks : IsNameIn(ks[i], ParamNames)
      /\ args[3].op = "array" /\ \A i \in DOMAIN as : IsNameIn(as[i], ArgNames)
  BY DEF IsMultisig, NamedBy
<1> HIDE DEF args
<1>4. /\ IsSeq(ks) /\ DOMAIN ks = 1 .. Len(ks) /\ Len(ks) \in Nat /\ \A i \in 1 .. Len(ks) : ks[i] \in Exprs
  BY <1>2, Trees DEF args
<1>5. /\ IsSeq(as) /\ DOMAIN as = 1 .. Len(as) /\ Len(as) \in Nat /\ \A i \in 1 .. Len(as) : as[i] \in Exprs
  BY <1>2, Trees DEF args
<1>6. k \in Nat
  BY <1>2, Trees DEF args
<1>7. Lower[e] = ((Lower[args[3]] \o <<Push(Num(k))>>) \o Lower[args[2]]) \o <<<<"checkmultisig", Len(ks)>>>>
  <2>1. Lower[e] = LowerCall(e, Lower)
    BY <1>1, LowerCases
  <2>2. /\ ~\E g \in {"input", "output"} : IsCallOf(e, g)
        /\ ~\E g \in {"continuation"} : IsCallOf(e, g)
        /\ \E g \in {"multisig"} : IsCallOf(e, g)
        /\ ~\E g \in {"zk_verify"} : IsCallOf(e, g)
        /\ ~\E g \in HashFunctions : IsCallOf(e, g)
    BY <1>1 DEF HashFunctions
  <2>3. LowerCall(e, Lower) = LowerMultisig(args, Lower)
    BY <1>1, <2>2, Zenon DEF LowerCall, args
  <2>4. LowerNth(args, 3, Lower) = Lower[args[3]] /\ LowerNth(args, 2, Lower) = Lower[args[2]]
    BY <1>2 DEF LowerNth
  <2>5. (IF Len(args) > 1 /\ args[2].op = "array" THEN Len(args[2].kids) ELSE 0) = Len(ks)
    BY <1>2, <1>3 DEF args
  <2>6. LowerMultisig(args, Lower) =
           LowerNth(args, 3, Lower) \o <<Push(Num(args[1].n))>> \o LowerNth(args, 2, Lower)
         \o <<<<"checkmultisig", IF Len(args) > 1 /\ args[2].op = "array" THEN Len(args[2].kids) ELSE 0>>>>
    BY <1>3, Zenon DEF LowerMultisig
  <2>7. args[1].n = k
    BY DEF args
  <2> QED BY <2>1, <2>3, <2>4, <2>5, <2>6, <2>7, Zenon
<1>8. SigningRequirement(e) = [threshold |-> k, keys |-> ks, arguments |-> as]
  BY <1>1, <1>3, Zenon DEF SigningRequirement, args
<1>9. ArgumentsOf[e] = [i \in DOMAIN as |-> as[i].name]
  <2>1. ArgumentsOf[e] = ArgumentsFrom(e, ArgumentsOf)
    BY ArgumentsUnfold
  <2>2. IsSigning(e)
    BY <1>1 DEF IsSigning
  <2>3. SigningRequirement(e).arguments = as
    BY <1>8
  <2> QED BY <2>1, <2>2, <2>3, Zenon DEF ArgumentsFrom
<1>10. ASSUME NEW env PROVE MultisigMeans(e, env, k, ks, as)
  <2>1. PICK of : Meaning(e, env) = CallMeaning(e, env, of) /\ \A d : of[d] = Meaning(d, env)
    BY <1>1, MeaningOfCall
  <2> DEFINE all(list) == [i \in DOMAIN list.kids |-> of[list.kids[i]]]
  <2>2. CallMeaning(e, env, of) = MultisigMeaning(args[1].n, all(args[2]), all(args[3]))
    <3>1. ~IsCallOf(e, "continuation") /\ ~\E f \in HashFunctions : IsCallOf(e, f)
      BY <1>1 DEF HashFunctions
    <3> QED BY <1>1, <1>2, <3>1, Zenon DEF CallMeaning, args
  <2>3. all(args[2]) = [i \in DOMAIN ks |-> Meaning(ks[i], env)]
    BY <2>1, Zenon DEF args
  <2>4. all(args[3]) = [i \in DOMAIN as |-> Meaning(as[i], env)]
    BY <2>1, Zenon DEF args
  <2> HIDE DEF all
  <2> QED BY <2>1, <2>2, <2>3, <2>4, Zenon DEF args, MultisigMeans
<1>11. MultisigShape(e, k, ks, as)
  BY <1>1, <1>2, <1>3, <1>4, <1>5, <1>6, <1>7, <1>8, <1>9, Zenon DEF args, MultisigShape
<1> QED BY <1>10, <1>11

\* The keys a multisig is checked against are those its names are bound to.
BoundKeys(ks, vs) == IsSeq(vs) /\ Len(vs) = Len(ks) /\ \A i \in 1 .. Len(ks) : vs[i] = bound[ks[i].name]

\* The code of a multisig that does not fail has matched k signatures, and leaves true.
LEMMA MultisigRuns ==
    ASSUME OnChain, NEW e \in Exprs, IsMultisig(e), NEW k, k = Args(e)[1].n, NEW ks, ks = Args(e)[2].kids,
           NEW st, IsSeq(st), NEW s \in Exec(FALSE, Lower[e], st, spend.tx)
    PROVE  \E vs : BoundKeys(ks, vs) /\ k <= Len(st) /\ Kept(s, st, k, Truth(TRUE)) /\ Matched(st, k, vs)
<1> DEFINE as == Args(e)[3].kids
           a == Lower[Args(e)[3]]
           p == <<Push(Num(k))>>
           b == Lower[Args(e)[2]]
           c == <<<<"checkmultisig", Len(ks)>>>>
           ap == a \o p
           apb == ap \o b
<1>1. /\ k \in Nat
      /\ IsSeq(ks) /\ DOMAIN ks = 1 .. Len(ks) /\ Len(ks) \in Nat
      /\ IsSeq(as) /\ DOMAIN as = 1 .. Len(as) /\ Len(as) \in Nat
      /\ \A i \in 1 .. Len(ks) : ks[i] \in Exprs /\ IsNameIn(ks[i], ParamNames)
      /\ \A i \in 1 .. Len(as) : as[i] \in Exprs /\ IsNameIn(as[i], ArgNames)
      /\ Args(e)[2] \in Exprs /\ Args(e)[3] \in Exprs
      /\ Lower[e] = apb \o c
  <2> DEFINE bs == as
  <2>1. bs = Args(e)[3].kids
    OBVIOUS
  <2> HIDE DEF bs
  <2>2. MultisigShape(e, k, ks, bs)
    BY <2>1, MultisigParts
  <2> QED BY <2>2, Zenon DEF MultisigShape, bs
<1>2. Args(e)[2].op = "array" /\ Args(e)[3].op = "array"
  BY DEF IsMultisig, NamedBy
<1>27. \E qs, ys : ListNames(Args(e)[3], qs, ys)
  <2>1. \A i \in DOMAIN as : Lower[as[i]] = <<Symbol(as[i].name)>>
    BY <1>1, ArgumentLowers
  <2> QED BY <1>1, <1>2, <2>1, NamesOfList
<1>3. PICK qs, ys : /\ IsSeqOfSeqs(qs) /\ IsSeq(ys) /\ Names(qs, ys) /\ a = FlattenSeq(qs)
                    /\ Len(ys) = Len(as) /\ \A i \in 1 .. Len(ys) : ys[i] = as[i].name
  BY <1>27 DEF ListNames
<1>28. \E ps, xs : ListNames(Args(e)[2], ps, xs)
  <2>1. \A i \in DOMAIN ks : Lower[ks[i]] = <<Symbol(ks[i].name)>>
    BY <1>1, KeyLowers
  <2> QED BY <1>1, <1>2, <2>1, NamesOfList
<1>4. PICK ps, xs : /\ IsSeqOfSeqs(ps) /\ IsSeq(xs) /\ Names(ps, xs) /\ b = FlattenSeq(ps)
                    /\ Len(xs) = Len(ks) /\ \A i \in 1 .. Len(xs) : xs[i] = ks[i].name
  BY <1>28 DEF ListNames
<1>5. \A i \in 1 .. Len(ys) : IsSpendParam(ys[i])
  BY <1>1, <1>3, ArgumentLowers
<1>6. \A i \in 1 .. Len(xs) : ~IsSpendParam(xs[i])
  BY <1>1, <1>4, KeyLowers
<1>7. IsSeq(a) /\ IsSeq(p) /\ IsSeq(b) /\ IsSeq(c)
  BY <1>1, LowerSeq, OneIsSeq
<1>15. p = <<Push(Num(k))>> /\ c = <<<<"checkmultisig", Len(ks)>>>>
  OBVIOUS
<1> HIDE DEF a, b, c, p
<1>8. IsSeq(ap) /\ ExecSplits(FALSE, a, p, st, spend.tx)
  BY <1>7, ExecApart, ConcatSeq
<1> HIDE DEF ap
<1>9. IsSeq(apb) /\ ExecSplits(FALSE, ap, b, st, spend.tx)
  BY <1>7, <1>8, ExecApart, ConcatSeq
<1> HIDE DEF apb
<1>10. ExecSplits(FALSE, apb, c, st, spend.tx)
  BY <1>7, <1>9, ExecApart
<1>11. PICK u3 \in Exec(FALSE, apb, st, spend.tx) : s \in Exec(ReadAfter(FALSE, apb), c, u3, spend.tx)
  BY <1>1, <1>10 DEF ExecSplits
<1>12. PICK u2 \in Exec(FALSE, ap, st, spend.tx) : u3 \in Exec(ReadAfter(FALSE, ap), b, u2, spend.tx)
  BY <1>9, <1>11 DEF ExecSplits, apb
<1>13. PICK u1 \in Exec(FALSE, a, st, spend.tx) : u2 \in Exec(ReadAfter(FALSE, a), p, u1, spend.tx)
  BY <1>8, <1>12 DEF ExecSplits, ap
<1>14. u1 = st
  BY <1>3, <1>5, <1>13, ExecArguments
<1>16. LeavesOne(u2, st, Num(k)) /\ IsSeq(u2)
  <2> DEFINE after == ReadAfter(FALSE, a)
             v == Num(k)
  <2>1. u2 \in Exec(after, <<Push(v)>>, st, spend.tx)
    BY <1>13, <1>14, <1>15
  <2> HIDE DEF after, v
  <2>2. LeavesOne(u2, st, v)
    BY <2>1, ExecPush
  <2>3. IsSeq(u2)
    BY <2>2, OnTop
  <2> QED BY <2>2, <2>3 DEF v
<1>17. ReadAfter(FALSE, ap) = FALSE
  <2> DEFINE ins == Push(Num(k))
  <2>1. Reading(ins) = FALSE
    BY DEF Reading, Push
  <2>2. ap = a \o <<ins>>
    BY <1>15 DEF ap
  <2> HIDE DEF ins
  <2>3. ReadAfter(FALSE, ap) = Reading(ins)
    BY <1>7, <2>2, ReadAfterFew
  <2> QED BY <2>1, <2>3
<1>18. u3 \in Exec(FALSE, FlattenSeq(ps), u2, spend.tx)
  BY <1>4, <1>12, <1>17
<1>29. \E vs : PushedAll(xs, u2, vs, u3)
  BY <1>4, <1>6, <1>16, <1>18, ExecParameters
<1>19. PICK vs : /\ IsSeq(vs) /\ Len(vs) = Len(xs) /\ JoinOf(u2, vs, u3)
                 /\ \A i \in 1 .. Len(xs) : vs[i] = bound[xs[i]]
  BY <1>29 DEF PushedAll
<1>20. BoundKeys(ks, vs)
  BY <1>1, <1>4, <1>19 DEF BoundKeys
<1>21. IsSeq(u3) /\ Len(u3) = Len(u2) + Len(vs) /\ (\A i \in 1 .. Len(u2) : u3[i] = u2[i])
       /\ \A i \in 1 .. Len(vs) : u3[Len(u2) + i] = vs[i]
  <2>1. IsSeq(vs) /\ JoinOf(u2, vs, u3) /\ IsSeq(u2)
    BY <1>16, <1>19
  <2> QED BY <2>1, Joins
<1>22. PICK full : LeavesOne(full, u3, Num(Len(ks))) /\ s \in CheckMultisig(full)
  <2> DEFINE after == ReadAfter(FALSE, apb)
             m == Len(ks)
  <2>1. s \in Exec(after, <<<<"checkmultisig", m>>>>, u3, spend.tx) /\ IsSeq(u3)
    BY <1>11, <1>15, <1>21
  <2> HIDE DEF after, m
  <2>2. \E full : LeavesOne(full, u3, Num(m)) /\ s \in CheckMultisig(full)
    BY <2>1, ExecCheckMultisig
  <2> QED BY <2>2 DEF m
<1>23. /\ IsSeq(full) /\ Len(full) = Len(u3) + 1
       /\ (\A i \in 1 .. Len(u3) : full[i] = u3[i]) /\ full[Len(u3) + 1] = Num(Len(ks))
  BY <1>21, <1>22, OnTop
<1>24. /\ IsSeq(u2) /\ Len(u2) = Len(st) + 1
       /\ (\A i \in 1 .. Len(st) : u2[i] = st[i]) /\ u2[Len(st) + 1] = Num(k)
  BY <1>16, OnTop
<1>25. Stacked(st, k, vs, full)
  <2>1. Len(st) \in Nat /\ Len(vs) \in Nat /\ Len(vs) = Len(ks)
    BY <1>4, <1>19, SeqProps
  <2>2. Len(full) = Len(st) + Len(vs) + 2 /\ Len(full) = Len(u3) + 1 /\ Len(u3) = Len(st) + Len(vs) + 1
    <3>1. Len(u3) = Len(u2) + Len(vs) /\ Len(full) = Len(u3) + 1 /\ Len(u2) = Len(st) + 1
      BY <1>21, <1>23, <1>24
    <3> DEFINE a0 == Len(st)
               a1 == Len(vs)
               a2 == Len(u2)
               a3 == Len(u3)
               a4 == Len(full)
    <3>2. a0 \in Nat /\ a1 \in Nat /\ a3 = a2 + a1 /\ a4 = a3 + 1 /\ a2 = a0 + 1
      BY <2>1, <3>1
    <3> HIDE DEF a0, a1, a2, a3, a4
    <3>3. a4 = a0 + a1 + 2 /\ a4 = a3 + 1 /\ a3 = a0 + a1 + 1
      BY <3>2
    <3> QED BY <3>3 DEF a0, a1, a2, a3, a4
  <2>3. ASSUME NEW i \in 1 .. Len(st) PROVE full[i] = st[i]
    <3>1. i \in 1 .. Len(u2) /\ i \in 1 .. Len(u3)
      BY <1>24, <2>1, <2>2
    <3> QED BY <1>21, <1>23, <1>24, <3>1
  <2>4. full[Len(st) + 1] = Num(k)
    <3>1. Len(st) + 1 \in 1 .. Len(u2) /\ Len(st) + 1 \in 1 .. Len(u3)
      BY <1>24, <2>1, <2>2
    <3> QED BY <1>21, <1>23, <1>24, <3>1
  <2>5. ASSUME NEW i \in 1 .. Len(vs) PROVE full[Len(st) + 1 + i] = vs[i]
    <3>1. Len(st) + 1 + i \in 1 .. Len(u3)
      BY <1>24, <2>1, <2>2
    <3>2. full[Len(st) + 1 + i] = u3[Len(st) + 1 + i]
      BY <1>23, <3>1
    <3> QED BY <1>21, <1>24, <3>2
  <2>6. full[Len(full)] = Num(Len(vs))
    BY <1>23, <2>1, <2>2
  <2> QED BY <1>23, <2>2, <2>3, <2>4, <2>5, <2>6 DEF Stacked
<1>26. k <= Len(st) /\ Kept(s, st, k, Truth(TRUE)) /\ Matched(st, k, vs)
  BY <1>1, <1>19, <1>22, <1>25, CheckMultisigIs
<1> QED BY <1>20, <1>26

-----------------------------------------------------------------------------
(* A multisig, checked.  The engine matches signatures with keys in order; the source asks for a
   choice of arguments signed by distinct keys.                            *)

LEMMA EnoughAre ==
    ASSUME NEW st, NEW k \in Nat, NEW vs, Len(vs) \in Nat, Matched(st, k, vs),
           NEW K, DOMAIN K = 1 .. Len(vs), \A i \in 1 .. Len(vs) : K[i] = vs[i],
           NEW S, DOMAIN S = 1 .. k, \A i \in 1 .. k : S[i] = st[Len(st) - k + i]
    PROVE  EnoughSign(k, K, S)
<1> DEFINE chosen == 1 .. k
<1>1. Cardinality(chosen) = k /\ chosen \in SUBSET DOMAIN S
  BY FS_Interval
<1>2. PICK f \in [1 .. k -> 1 .. Len(vs)] :
             /\ \A i, j \in 1 .. k : i < j => f[i] < f[j]
             /\ \A i \in 1 .. k : st[Len(st) - k + i][1] = "sig" /\ vs[f[i]] = Key(st[Len(st) - k + i][2])
  BY DEF Matched
<1>3. f \in Injection(chosen, DOMAIN K)
  <2>1. ASSUME NEW i \in 1 .. k, NEW j \in 1 .. k, f[i] = f[j] PROVE i = j
    <3>0. f[i] \in 1 .. Len(vs)
      BY <1>2
    <3>1. f[i] \in Nat /\ ~(f[i] < f[j]) /\ ~(f[j] < f[i])
      BY <2>1, <3>0
    <3>2. ~(i < j) /\ ~(j < i)
      BY <1>2, <3>1
    <3> QED BY <3>2
  <2>2. IsInjective(f)
    BY <1>2, <2>1 DEF IsInjective
  <2> QED BY <1>2, <2>2 DEF Injection
<1>4. ASSUME NEW i \in chosen PROVE S[i][1] = "sig" /\ K[f[i]] = Key(S[i][2])
  <2>1. f[i] \in 1 .. Len(vs)
    BY <1>2
  <2> QED BY <1>2, <2>1
<1> HIDE DEF chosen
<1> QED BY <1>1, <1>3, <1>4 DEF EnoughSign

\* Signatures matched with keys in order are as many signatures by those keys.
LEMMA MatchedAreBy ==
    ASSUME NEW e, NEW st, IsSeq(st), NEW k \in Nat, NEW ks, DOMAIN ks = 1 .. Len(ks), SigningRequirement(e).keys = ks,
           NEW vs, BoundKeys(ks, vs), Matched(st, k, vs), k <= Len(st)
    PROVE  Cardinality(By(st, e)) >= k
<1>1. Len(st) \in Nat /\ k \in 0 .. Len(st)
  BY SeqProps
<1>2. PICK f \in [1 .. k -> 1 .. Len(vs)] :
             \A i \in 1 .. k : st[Len(st) - k + i][1] = "sig" /\ vs[f[i]] = Key(st[Len(st) - k + i][2])
  BY DEF Matched
<1>3. ASSUME NEW i \in 1 .. Len(st), i > Len(st) - k PROVE i \in By(st, e)
  <2> DEFINE j == i - (Len(st) - k)
  <2>1. j \in 1 .. k /\ Len(st) - k + j = i
    BY <1>1, <1>3
  <2> HIDE DEF j
  <2>2. vs[f[j]] = Key(st[i][2]) /\ f[j] \in 1 .. Len(vs)
    BY <1>2, <2>1
  <2>3. vs[f[j]] = bound[ks[f[j]].name] /\ f[j] \in DOMAIN ks
    BY <2>2 DEF BoundKeys
  <2>4. vs[f[j]] \in KeysOf(e)
    BY <2>3 DEF KeysOf
  <2> QED BY <2>2, <2>4 DEF By
<1> QED BY <1>1, <1>3, ManyBy

\* Where it lists as many arguments as it takes, the source says the same.
LEMMA MultisigMeant ==
    ASSUME OnChain, NEW e \in Exprs, NEW k, NEW ks, NEW as, MultisigShape(e, k, ks, as),
           \A env : MultisigMeans(e, env, k, ks, as),
           NEW st, IsSeq(st), NEW vs, BoundKeys(ks, vs), Matched(st, k, vs), k <= Len(st), TopSigs(st, k)
    PROVE  Meant(e, st, k, Truth(TRUE))
<1> SUFFICES ASSUME NEW env, Agrees(env), Given(e, env, st, k)
             PROVE  Meaning(e, env) = Truth(TRUE) /\ IsResult(Truth(TRUE))
  BY DEF Meant
<1> DEFINE K == [i \in DOMAIN ks |-> Meaning(ks[i], env)]
           S == [i \in DOMAIN as |-> Meaning(as[i], env)]
           L == Len(st)
<1>1. /\ k \in Nat /\ L \in Nat
      /\ DOMAIN ks = 1 .. Len(ks) /\ Len(ks) \in Nat /\ DOMAIN as = 1 .. Len(as) /\ Len(as) \in Nat
      /\ \A i \in 1 .. Len(ks) : ks[i] \in Exprs /\ IsNameIn(ks[i], ParamNames)
      /\ \A i \in 1 .. Len(as) : as[i] \in Exprs /\ IsNameIn(as[i], ArgNames)
      /\ ArgumentsOf[e] = [i \in DOMAIN as |-> as[i].name]
  BY SeqProps, Zenon DEF MultisigShape
<1>2. Meaning(e, env) = MultisigMeaning(k, K, S)
  BY Zenon DEF MultisigMeans
<1>3. Len(as) = k
  <2> DEFINE xs == [i \in DOMAIN as |-> as[i].name]
  <2>1. xs = [i \in 1 .. Len(as) |-> xs[i]] /\ ArgumentsOf[e] = xs
    BY <1>1
  <2> HIDE DEF xs
  <2>2. Len(xs) = Len(as)
    BY <1>1, <2>1, TableIsSeq
  <2> QED BY <2>1, <2>2 DEF Given
<1>4. ASSUME NEW i \in 1 .. k PROVE S[i] = st[L - k + i] /\ S[i] # Undefined
  <2>1. i \in DOMAIN as /\ as[i] \in Exprs /\ IsNameIn(as[i], ArgNames)
    BY <1>1, <1>3
  <2>2. as[i].op = "ident" /\ as[i].name \notin Counts
    BY <2>1, ArgumentLowers
  <2>3. ArgumentsOf[e][i] = as[i].name
    BY <1>1, <2>1
  <2>4. as[i].name \in DOMAIN env.values /\ env.values[as[i].name] = st[L - k + i]
    BY <2>3 DEF Given
  <2>5. S[i] = st[L - k + i]
    BY <2>1, <2>2, <2>4, NamesMean
  <2>6. st[L - k + i] = Sig(st[L - k + i][2])
    <3> DEFINE j == L - k + i
    <3>1. j \in 1 .. L /\ j > L - k
      BY <1>1
    <3> HIDE DEF j
    <3>2. st[j] = Sig(st[j][2])
      BY <3>1 DEF TopSigs
    <3> QED BY <3>2 DEF j
  <2> HIDE DEF S
  <2>7. \A x : Sig(x) # Undefined
    BY DEF Sig, Undefined
  <2> QED BY <2>5, <2>6, <2>7
<1>5. ASSUME NEW i \in 1 .. Len(ks) PROVE K[i] = vs[i] /\ K[i] # Undefined
  <2>1. i \in DOMAIN ks /\ ks[i] \in Exprs /\ IsNameIn(ks[i], ParamNames)
    BY <1>1
  <2>2. ks[i].op = "ident" /\ ks[i].name \notin Counts /\ Known(ks[i].name)
    BY <2>1, KeyLowers
  <2>3. ks[i].name \in DOMAIN env.values /\ env.values[ks[i].name] = bound[ks[i].name]
    BY <2>2 DEF Agrees
  <2>4. K[i] = bound[ks[i].name]
    BY <2>1, <2>2, <2>3, NamesMean
  <2>5. bound[ks[i].name] # Undefined
    BY <2>2, BoundKinds
  <2>6. vs[i] = bound[ks[i].name]
    BY DEF BoundKeys
  <2> QED BY <2>4, <2>5, <2>6
<1>6. DOMAIN S = 1 .. k /\ DOMAIN K = 1 .. Len(ks)
  BY <1>1, <1>3
<1>7. IsSeq(K) /\ IsSeq(S) /\ Len(K) = Len(ks) /\ Len(S) = k
  <2>1. K = [i \in 1 .. Len(ks) |-> K[i]] /\ S = [i \in 1 .. k |-> S[i]]
    BY <1>1, <1>3
  <2> HIDE DEF K, S
  <2> QED BY <1>1, <2>1, TableIsSeq
<1> HIDE DEF K, S
<1>8. Undefined \notin ToSet(K) \cup ToSet(S)
  <2>1. Undefined \notin ToSet(K)
    BY <1>5, <1>7, Members
  <2>2. Undefined \notin ToSet(S)
    BY <1>4, <1>7, Members
  <2> QED BY <2>1, <2>2
<1>9. EnoughSign(k, K, S)
  <2>1. Len(vs) = Len(ks)
    BY DEF BoundKeys
  <2>2. DOMAIN K = 1 .. Len(vs) /\ Len(vs) \in Nat /\ \A i \in 1 .. Len(vs) : K[i] = vs[i]
    BY <1>1, <1>5, <1>6, <2>1
  <2>3. \A i \in 1 .. k : S[i] = st[Len(st) - k + i]
    BY <1>4
  <2> QED BY <1>1, <1>6, <2>2, <2>3, EnoughAre
<1>10. MultisigMeaning(k, K, S) = Truth(TRUE)
  <2>1. MultisigMeaning(k, K, S) = Truth(EnoughSign(k, K, S))
    BY <1>8, Zenon DEF MultisigMeaning
  <2>2. EnoughSign(k, K, S) = TRUE
    BY <1>9 DEF EnoughSign
  <2> QED BY <2>1, <2>2
<1>11. IsResult(Truth(TRUE))
  <2> DEFINE b == TRUE
             v == Truth(b)
  <2>1. b \in BOOLEAN
    OBVIOUS
  <2> HIDE DEF b
  <2>2. v # Undefined /\ \E j \in Int : v = Num(j)
    BY <2>1, TruthIs, TruthNumber
  <2> HIDE DEF v
  <2>3. IsResult(v)
    BY <2>2 DEF IsResult
  <2> QED BY <2>3 DEF v, b
<1> QED BY <1>2, <1>10, <1>11

\* multisig(k, keys, arguments) takes k signatures.
LEMMA MultisigTakes ==
    ASSUME OnChain, NEW e \in Exprs, IsPart(e), IsMultisig(e)
    PROVE  \E k : Takes(e, k)
<1> DEFINE k == Args(e)[1].n
           ks == Args(e)[2].kids
           as == Args(e)[3].kids
<1>1. k = Args(e)[1].n /\ ks = Args(e)[2].kids /\ as = Args(e)[3].kids
  OBVIOUS
<1>12. IsSigning(e)
  BY DEF IsMultisig, IsSigning
<1> HIDE DEF k, ks, as
<1>2. MultisigShape(e, k, ks, as) /\ \A env : MultisigMeans(e, env, k, ks, as)
  BY <1>1, MultisigParts
<1>3. /\ k \in Nat /\ e.op = "call"
      /\ IsSeq(ks) /\ DOMAIN ks = 1 .. Len(ks)
      /\ IsSeq(as) /\ DOMAIN as = 1 .. Len(as) /\ Len(as) \in Nat
      /\ Args(e)[2] \in Exprs /\ Args(e)[3] \in Exprs
      /\ Lower[e] = ((Lower[Args(e)[3]] \o <<Push(Num(k))>>) \o Lower[Args(e)[2]]) \o <<<<"checkmultisig", Len(ks)>>>>
      /\ ArgumentsOf[e] = [i \in DOMAIN as |-> as[i].name]
      /\ SigningRequirement(e) = [threshold |-> k, keys |-> ks, arguments |-> as]
  BY <1>2, Zenon DEF MultisigShape
<1>4. SigningRequirement(e).threshold = k /\ SigningRequirement(e).keys = ks /\ SigningRequirement(e).arguments = as
  BY <1>3
<1>5. e.op # "and" /\ ToSet(Conjuncts[e]) = {e}
  BY <1>3, ConjunctsAre
<1>6. Listed(e, k)
  <2> DEFINE xs == [i \in DOMAIN as |-> as[i].name]
  <2>1. xs = [i \in 1 .. Len(as) |-> xs[i]] /\ ArgumentsOf[e] = xs
    BY <1>3
  <2> HIDE DEF xs
  <2>2. IsSeq(xs) /\ Len(xs) = Len(as)
    BY <1>3, <2>1, TableIsSeq
  <2>3. ASSUME MultisigsListEnough PROVE k <= Len(as)
    <3>1. e \in ToSet(RequiredTerms(Path))
      BY SpendFacts, RequiredAre, PartsOfParts
    <3> QED BY <1>4, <1>12, <2>3, <3>1 DEF MultisigsListEnough
  <2>4. k \in 0 .. k
    BY <1>3
  <2> QED BY <1>3, <1>4, <1>5, <2>1, <2>2, <2>3, <2>4 DEF Listed
<1>7. ASSUME NEW read PROVE ReadAfter(read, Lower[e]) = ReadsScript(e)
  <2>1. ~ReadsScript(e)
    BY <1>3, NoReading
  <2> DEFINE c == (Lower[Args(e)[3]] \o <<Push(Num(k))>>) \o Lower[Args(e)[2]]
             ins == <<"checkmultisig", Len(ks)>>
  <2>2. IsSeq(c)
    BY <1>3, LowerSeq, OneIsSeq, ConcatSeq
  <2>3. ~Reading(ins) /\ Lower[e] = c \o <<ins>>
    BY <1>3 DEF Reading
  <2> HIDE DEF c, ins
  <2>4. ValueReads(e)
    BY <2>1, <2>2, <2>3, EndsQuietly
  <2> QED BY <2>4 DEF ValueReads
<1>8. ASSUME NEW st, NEW s, IsSeq(st), s \in Exec(FALSE, Lower[e], st, spend.tx)
      PROVE  \E v : Kept(s, st, k, v) /\ Outcome(e, st, k, v)
  <2> DEFINE v == Truth(TRUE)
  <2>1. PICK vs : BoundKeys(ks, vs) /\ k <= Len(st) /\ Kept(s, st, k, v) /\ Matched(st, k, vs)
    BY <1>1, <1>8, MultisigRuns
  <2>2. Signed(e, st)
    <3>1. Cardinality(By(st, e)) >= k
      BY <1>3, <1>4, <1>8, <2>1, MatchedAreBy
    <3> QED BY <1>4, <3>1 DEF Signed
  <2>3. ASSUME TopSigs(st, k) PROVE Meant(e, st, k, v)
    BY <1>2, <1>8, <2>1, <2>3, MultisigMeant
  <2>4. Outcome(e, st, k, v)
    <3> HIDE DEF v
    <3> QED BY <1>12, <2>2, <2>3, SigningOutcome
  <2> QED BY <2>1, <2>4
<1>9. Takes(e, k)
  BY <1>6, <1>7, <1>8 DEF Takes
<1> QED BY <1>9

-----------------------------------------------------------------------------
(* The arguments of a condition.                                           *)

LEMMA ArgumentsOfKids ==
    ASSUME NEW e \in Exprs, ~IsSigning(e)
    PROVE  \E ps : /\ ArgumentsOf[e] = Concat(ps) /\ ps = [i \in DOMAIN e.kids |-> ps[i]]
                   /\ \A i \in 1 .. Len(e.kids) : ps[i] = ArgumentsOf[e.kids[i]]
<1> DEFINE ps == [i \in DOMAIN e.kids |-> ArgumentsOf[e.kids[i]]]
<1>1. ArgumentsOf[e] = ArgumentsFrom(e, ArgumentsOf)
  BY ArgumentsUnfold
<1>2. ArgumentsOf[e] = Concat(ps)
  BY <1>1, Zenon DEF ArgumentsFrom
<1>3. DOMAIN e.kids = 1 .. Len(e.kids)
  BY Trees
<1>4. \A i \in 1 .. Len(e.kids) : ps[i] = ArgumentsOf[e.kids[i]]
  BY <1>3
<1>5. ps = [i \in DOMAIN e.kids |-> ps[i]]
  BY Zenon
<1> HIDE DEF ps
<1> QED BY <1>2, <1>4, <1>5

LEMMA ArgumentsOfOne ==
    ASSUME NEW e \in Exprs, ~IsSigning(e), Len(e.kids) = 1, IsSeq(ArgumentsOf[e.kids[1]])
    PROVE  ArgumentsOf[e] = ArgumentsOf[e.kids[1]]
<1>1. PICK ps : /\ ArgumentsOf[e] = Concat(ps) /\ ps = [i \in DOMAIN e.kids |-> ps[i]]
                /\ \A i \in 1 .. Len(e.kids) : ps[i] = ArgumentsOf[e.kids[i]]
  BY ArgumentsOfKids
<1>2. IsSeq(e.kids)
  BY Trees
<1>3. ps[1] = ArgumentsOf[e.kids[1]]
  BY <1>1
<1>4. \A i \in 1 .. Len(e.kids) : IsSeq(ps[i])
  BY <1>1
<1>5. IsSeqOfSeqs(ps) /\ Len(ps) = 1 /\ Concat(ps) = FlattenSeq(ps)
  BY <1>1, <1>2, <1>4, Pieces
<1> DEFINE p == ps[1]
           q == <<p>>
<1>6. IsSeq(q) /\ Len(q) = 1 /\ q[1] = ps[1]
  <2> HIDE DEF p
  <2>1. IsSeq(q) /\ Len(q) = 1 /\ q[1] = p
    BY OneIsSeq
  <2> QED BY <2>1 DEF p
<1>7. FlattenSeq(q) = p
  <2> HIDE DEF p
  <2> QED BY FlattenOne
<1> HIDE DEF q
<1>8. ps = q
  <2>1. \A i \in 1 .. Len(ps) : ps[i] = q[i]
    BY <1>5, <1>6
  <2>2. IsSeq(ps)
    BY <1>5 DEF IsSeqOfSeqs
  <2> QED BY <1>5, <1>6, <2>1, <2>2, SameSeq
<1> QED BY <1>1, <1>3, <1>5, <1>7, <1>8

LEMMA ArgumentsOfTwo ==
    ASSUME NEW e \in Exprs, ~IsSigning(e), Len(e.kids) = 2,
           IsSeq(ArgumentsOf[e.kids[1]]), IsSeq(ArgumentsOf[e.kids[2]])
    PROVE  JoinOf(ArgumentsOf[e.kids[1]], ArgumentsOf[e.kids[2]], ArgumentsOf[e])
<1>1. PICK ps : /\ ArgumentsOf[e] = Concat(ps) /\ ps = [i \in DOMAIN e.kids |-> ps[i]]
                /\ \A i \in 1 .. Len(e.kids) : ps[i] = ArgumentsOf[e.kids[i]]
  BY ArgumentsOfKids
<1>2. IsSeq(e.kids)
  BY Trees
<1> DEFINE p == ps[1]
           r == ps[2]
           q == <<p>>
           qr == Append(q, r)
<1>3. p = ArgumentsOf[e.kids[1]] /\ r = ArgumentsOf[e.kids[2]]
  BY <1>1
<1>4. ASSUME NEW i \in 1 .. Len(e.kids) PROVE IsSeq(ps[i])
  <2>1. i = 1 \/ i = 2
    BY <1>4
  <2> QED BY <1>1, <2>1
<1>5. IsSeqOfSeqs(ps) /\ Len(ps) = 2 /\ Concat(ps) = FlattenSeq(ps)
  BY <1>1, <1>2, <1>4, Pieces
<1>10. p = ps[1] /\ r = ps[2]
  OBVIOUS
<1> HIDE DEF p, r
<1>6. IsSeq(q) /\ Len(q) = 1 /\ q[1] = p
  BY OneIsSeq
<1>7. FlattenSeq(q) = p
  BY FlattenOne
<1>8. IsSeq(r)
  BY <1>3
<1> HIDE DEF q
<1>9. FlattenSeq(qr) = p \o r
  BY <1>6, <1>7, <1>8, FlattenAppend
<1>11. IsSeq(qr) /\ Len(qr) = 2 /\ qr[1] = p /\ qr[2] = r
  <2>1. qr = q \o <<r>>
    BY <1>6, AppendSeq
  <2>0. IsSeq(q)
    BY <1>6
  <2> HIDE DEF qr
  <2>2. LeavesOne(qr, q, r)
    BY <2>1 DEF LeavesOne
  <2>3. /\ IsSeq(qr) /\ Len(qr) = Len(q) + 1
        /\ (\A i \in 1 .. Len(q) : qr[i] = q[i]) /\ qr[Len(q) + 1] = r
    BY <2>0, <2>2, OnTop
  <2> QED BY <1>6, <2>3
<1> HIDE DEF qr
<1>12. ps = qr
  <2>1. ASSUME NEW i \in 1 .. Len(ps) PROVE ps[i] = qr[i]
    <3>1. i = 1 \/ i = 2
      BY <1>5, <2>1
    <3> QED BY <1>10, <1>11, <3>1
  <2>2. IsSeq(ps)
    BY <1>5 DEF IsSeqOfSeqs
  <2> QED BY <1>5, <1>11, <2>1, <2>2, SameSeq
<1> QED BY <1>1, <1>3, <1>5, <1>9, <1>12 DEF JoinOf

\* A term that is no conjunction and no signature demands and weighs nothing of its own.
LEMMA WeighsNothing ==
    ASSUME NEW e \in Exprs, e.op # "and", ~IsSigning(e), ~IsValue(e, ArgNames), NEW v, NEW st
    PROVE  Demands(e, st, v) /\ Weighs(e, v)
<1>1. ToSet(Conjuncts[e]) = {e}
  BY ConjunctsAre
<1> QED BY <1>1 DEF Demands, Weighs

LEMMA TruthResult == ASSUME NEW b \in BOOLEAN PROVE IsResult(Truth(b))
<1> DEFINE v == Truth(b)
<1>1. v # Undefined /\ \E j \in Int : v = Num(j)
  BY TruthIs, TruthNumber
<1> HIDE DEF v
<1>2. IsResult(v)
  BY <1>1 DEF IsResult
<1> QED BY <1>2 DEF v

LEMMA KeptIsSeq ==
    ASSUME NEW s, NEW st, IsSeq(st), NEW n, NEW v, Kept(s, st, n, v)
    PROVE  LET base == SubSeq(st, 1, Len(st) - n)
           IN  IsSeq(base) /\ LeavesOne(s, base, v)
<1>1. Len(st) - n \in 0 .. Len(st)
  BY SeqProps DEF Kept
<1> QED BY <1>1, PrefixSeq DEF Kept, LeavesOne

LEMMA NotTakes ==
    ASSUME OnChain, NEW e \in Exprs, e.op = "not", NEW n, Takes(e.kids[1], n), ~IsValue(e, ArgNames)
    PROVE  Takes(e, n)
<1> DEFINE d == e.kids[1]
           op == <<"not">>
           c == Lower[d]
           code == Lower[e]
<1>1. d \in Exprs /\ code = c \o <<op>> /\ IsSeq(c) /\ Len(e.kids) = 1
  <2>1. d \in Exprs /\ Len(e.kids) = 1
    BY Trees, Kinds
  <2>2. Lower[e] = c \o <<op>>
    BY LowerCases, Zenon
  <2>3. IsSeq(c)
    BY <2>1, LowerSeq
  <2> QED BY <2>1, <2>2, <2>3
<1>2. e.op # "and" /\ ~IsSigning(e) /\ ~ReadsScript(e)
  BY NoReading DEF IsSigning, IsVerify, IsCallOf
<1>3. Listed(d, n)
  BY DEF Takes
<1>4. ArgumentsOf[e] = ArgumentsOf[d]
  BY <1>1, <1>2, <1>3, ArgumentsOfOne DEF Listed
<1>5. Listed(e, n)
  <2>1. ToSet(Conjuncts[e]) = {e}
    BY <1>2, ConjunctsAre
  <2> QED BY <1>2, <1>3, <1>4, <2>1 DEF Listed
<1>6. \A read : ReadAfter(read, code) = ReadsScript(e)
  <2>1. ~Reading(op)
    BY DEF Reading
  <2> HIDE DEF op
  <2>2. ValueReads(e)
    BY <1>1, <1>2, <2>1, EndsQuietly
  <2> QED BY <2>2 DEF ValueReads
<1>7. ASSUME NEW st, NEW s, IsSeq(st), s \in Exec(FALSE, code, st, spend.tx)
      PROVE  \E v : Kept(s, st, n, v) /\ Outcome(e, st, n, v)
  <2>1. PICK u \in Exec(FALSE, c, st, spend.tx) : s \in Exec(ReadAfter(FALSE, c), <<op>>, u, spend.tx)
    <3> DEFINE ins == <<op>>
    <3>1. IsSeq(ins)
      BY OneIsSeq
    <3>2. s \in Exec(FALSE, c \o ins, st, spend.tx)
      BY <1>1, <1>7
    <3> HIDE DEF ins
    <3>3. ExecSplits(FALSE, c, ins, st, spend.tx)
      BY <1>1, <3>1, ExecApart
    <3> QED BY <3>2, <3>3 DEF ExecSplits, ins
  <2>2. PICK v : Kept(u, st, n, v) /\ Outcome(d, st, n, v)
    BY <1>7, <2>1 DEF Takes
  <2> DEFINE base == SubSeq(st, 1, Len(st) - n)
             w == Truth(v = Num(0))
  <2>3. IsSeq(base) /\ LeavesOne(u, base, v)
    BY <1>7, <2>2, KeptIsSeq
  <2>4. IsNum(v) /\ LeavesOne(s, base, w)
    <3> DEFINE after == ReadAfter(FALSE, c)
    <3>1. s \in Exec(after, <<<<"not">>>>, base \o <<v>>, spend.tx)
      BY <2>1, <2>3 DEF LeavesOne
    <3> HIDE DEF after, base
    <3> QED BY <2>3, <3>1, ExecNot
  <2>5. Kept(s, st, n, w)
    BY <2>2, <2>4 DEF Kept, LeavesOne
  <2> DEFINE b == v = Num(0)
  <2>6. b \in BOOLEAN /\ w = Truth(b)
    OBVIOUS
  <2> HIDE DEF w
  <2>7. ASSUME Sane, MultisigsListEnough, TopSigs(st, n) PROVE Meant(e, st, n, w)
    <3> SUFFICES ASSUME NEW env, Agrees(env), Given(e, env, st, n)
                 PROVE  Meaning(e, env) = w /\ IsResult(w)
      BY DEF Meant
    <3>1. Given(d, env, st, n)
      BY <1>4 DEF Given
    <3>2. Meaning(d, env) = v /\ IsResult(v)
      BY <2>2, <2>7, <3>1 DEF Outcome, Meant
    <3>3. PICK k \in Int : v = Num(k)
      BY <2>4, <3>2 DEF IsResult
    <3>4. (v[2] = 0) = b
      <4>1. \A x : Num(x)[2] = x
        BY NumIs
      <4> QED BY <3>3, <4>1
    <3>5. Meaning(e, env) = Truth(v[2] = 0)
      <4>1. Meaning(e, env) = IF IsNum(v) THEN Truth(v[2] = 0) ELSE Undefined
        BY <3>2, MeaningOfNot
      <4> QED BY <2>4, <4>1
    <3> HIDE DEF b
    <3>6. Meaning(e, env) = w
      BY <2>6, <3>4, <3>5
    <3>7. IsResult(w)
      BY <2>6, TruthResult
    <3> QED BY <3>6, <3>7
  <2>8. Outcome(e, st, n, w)
    BY <1>2, <2>7, WeighsNothing DEF Outcome
  <2> QED BY <2>5, <2>8
<1> HIDE DEF code
<1>8. Takes(e, n)
  BY <1>5, <1>6, <1>7 DEF Takes, code
<1> QED BY <1>8

-----------------------------------------------------------------------------
(* Conditions joined.  The code of `and` and of `or` runs both sides.      *)

\* Where the second of two terms finds its values.
BothKept(st, n1, n2, t, v, w) ==
    /\ n1 + n2 \in 0 .. Len(st)
    /\ SubSeq(t, 1, Len(t) - 2) = SubSeq(st, 1, Len(st) - (n1 + n2))
    /\ t[Len(t)] = w
    /\ n2 = 0 => t[Len(t) - 1] = v
    /\ n2 # 0 => t[Len(t) - 1] = st[Len(st) - (n1 + n2) + 1]

LEMMA TwoKept ==
    ASSUME NEW st, IsSeq(st), NEW n1 \in Nat, NEW n2 \in Nat, NEW u, NEW v, Kept(u, st, n1, v),
           NEW t, NEW w, Kept(t, u, n2, w), Len(t) >= 2
    PROVE  BothKept(st, n1, n2, t, v, w)
<1> DEFINE L == Len(st)
           b1 == SubSeq(st, 1, L - n1)
           U == Len(u)
           b2 == SubSeq(u, 1, U - n2)
           T == Len(t)
<1>1. L \in Nat /\ n1 \in 0 .. L
  BY SeqProps DEF Kept
<1>2. L - n1 \in 0 .. L
  BY <1>1
<1>3. IsSeq(b1) /\ Len(b1) = L - n1 /\ \A i \in 1 .. L - n1 : b1[i] = st[i]
  BY <1>2, PrefixSeq
<1>4. LeavesOne(u, b1, v)
  BY KeptIsSeq
<1> HIDE DEF b1
<1>5. IsSeq(u) /\ U = Len(b1) + 1 /\ (\A i \in 1 .. Len(b1) : u[i] = b1[i]) /\ u[Len(b1) + 1] = v
  <2>1. IsSeq(b1)
    BY <1>3
  <2> QED BY <1>4, <2>1, OnTop
<1>6. U = L - n1 + 1 /\ U \in Nat /\ n2 \in 0 .. U
  BY <1>1, <1>3, <1>5 DEF Kept
<1>7. U - n2 \in 0 .. U
  BY <1>6
<1>8. IsSeq(b2) /\ Len(b2) = U - n2 /\ \A i \in 1 .. U - n2 : b2[i] = u[i]
  BY <1>5, <1>7, PrefixSeq
<1>9. LeavesOne(t, b2, w)
  BY <1>5, KeptIsSeq
<1> HIDE DEF b2
<1>10. IsSeq(t) /\ T = Len(b2) + 1 /\ (\A i \in 1 .. Len(b2) : t[i] = b2[i]) /\ t[Len(b2) + 1] = w
  <2>1. IsSeq(b2)
    BY <1>8
  <2> QED BY <1>9, <2>1, OnTop
<1>11. T = L - n1 + 1 - n2 + 1 /\ T >= 2
  BY <1>6, <1>8, <1>10
<1>20. Len(b1) = L - n1 /\ Len(b2) = U - n2 /\ Len(b2) = T - 1
  BY <1>1, <1>3, <1>6, <1>8, <1>11
<1> DEFINE k == L - (n1 + n2)
<1>12. n1 + n2 \in 0 .. L /\ k \in 0 .. L /\ k \in 0 .. T /\ T - 2 = k /\ k <= L - n1 /\ k <= U - n2
  <2> HIDE DEF L, U, T
  <2> QED BY <1>1, <1>6, <1>11
<1>13. ASSUME NEW i \in 1 .. k PROVE t[i] = st[i]
  <2>1. i \in 1 .. Len(b1) /\ i \in 1 .. Len(b2) /\ i \in 1 .. L - n1 /\ i \in 1 .. U - n2
    BY <1>12, <1>20, <1>1, <1>6
  <2> QED BY <1>3, <1>5, <1>8, <1>10, <2>1
<1>14. SubSeq(t, 1, T - 2) = SubSeq(st, 1, k)
  <2>1. T - 2 = k /\ k \in 0 .. Len(st) /\ k \in 0 .. Len(t)
    BY <1>12
  <2> HIDE DEF k
  <2>2. SubSeq(t, 1, k) = SubSeq(st, 1, k)
    BY <1>10, <1>13, <2>1, SamePrefix
  <2> QED BY <2>1, <2>2
<1>15. t[T] = w
  BY <1>10
<1>16. ASSUME n2 = 0 PROVE t[T - 1] = v
  <2>1. T - 1 = Len(b2) /\ Len(b2) = U /\ U = Len(b1) + 1 /\ U \in 1 .. Len(b2) /\ U \in 1 .. U - n2
    <3> DEFINE B1 == Len(b1)
               B2 == Len(b2)
    <3>1. L \in Nat /\ n1 \in 0 .. L /\ U = B1 + 1 /\ U = L - n1 + 1 /\ U \in Nat /\ B2 = U - n2 /\ B2 = T - 1
      BY <1>1, <1>5, <1>6, <1>20
    <3> HIDE DEF B1, B2, L, U, T
    <3>2. T - 1 = B2 /\ B2 = U /\ U = B1 + 1 /\ U \in 1 .. B2 /\ U \in 1 .. U - n2
      BY <1>16, <3>1
    <3> QED BY <3>2 DEF B1, B2
  <2> QED BY <1>5, <1>8, <1>10, <2>1
<1>17. ASSUME n2 # 0 PROVE t[T - 1] = st[k + 1]
  <2>1. T - 1 = k + 1 /\ k + 1 \in 1 .. L - n1 /\ k + 1 \in 1 .. U - n2
    <3> HIDE DEF L, U, T
    <3> QED BY <1>1, <1>6, <1>11, <1>12, <1>17
  <2> DEFINE j == k + 1
  <2>2. j \in 1 .. Len(b1) /\ j \in 1 .. Len(b2) /\ j \in 1 .. L - n1 /\ j \in 1 .. U - n2 /\ T - 1 = j
    BY <1>20, <2>1
  <2> HIDE DEF j
  <2>3. t[j] = st[j]
    BY <1>3, <1>5, <1>8, <1>10, <2>2
  <2> QED BY <2>2, <2>3 DEF j
<1> QED BY <1>12, <1>14, <1>15, <1>16, <1>17 DEF BothKept

LogicLeaves(e, st, s, n1, n2, u, v, w, p, x) ==
    /\ Outcome(e.kids[1], st, n1, v) /\ Outcome(e.kids[2], u, n2, w)
    /\ IsSeq(u) /\ Kept(s, st, n1 + n2, x) /\ Combines(e.op, p, w, x)
    /\ n2 = 0 => p = v
    /\ n2 # 0 => p = st[Len(st) - (n1 + n2) + 1]

\* Both sides of `and` and `or` run, the second on what the first has left.
LEMMA LogicRuns ==
    ASSUME OnChain, NEW e \in Exprs, e.op \in Logical, NEW n1 \in Nat, NEW n2 \in Nat,
           Takes(e.kids[1], n1), Takes(e.kids[2], n2), ~ReadsScript(e.kids[1]),
           NEW st, IsSeq(st), NEW s \in Exec(FALSE, Lower[e], st, spend.tx)
    PROVE  \E u, v, w, p, x : LogicLeaves(e, st, s, n1, n2, u, v, w, p, x)
<1> DEFINE l == e.kids[1]
           r == e.kids[2]
           a == Lower[l]
           b == Lower[r]
           ins == <<Opcode(e.op)>>
           c == <<ins>>
           ab == a \o b
<1>1. IsBinary(e) /\ ~IsLock(e) /\ e.op \notin {"*", "/", "%"}
  BY DEF IsBinary, IsLock, Logical
<1>2. l \in Exprs /\ r \in Exprs /\ e.op \in PairOps /\ Lower[e] = ab \o c
  BY <1>1, BinaryParts
<1>3. IsSeq(a) /\ IsSeq(b) /\ IsSeq(c)
  BY <1>2, LowerSeq, OneIsSeq
<1>14. c = <<<<Opcode(e.op)>>>>
  OBVIOUS
<1> HIDE DEF a, b, c
<1>4. IsSeq(ab) /\ ExecSplits(FALSE, a, b, st, spend.tx)
  BY <1>3, ConcatSeq, ExecApart
<1> HIDE DEF ab
<1>5. ExecSplits(FALSE, ab, c, st, spend.tx)
  BY <1>3, <1>4, ExecApart
<1>6. PICK t \in Exec(FALSE, ab, st, spend.tx) : s \in Exec(ReadAfter(FALSE, ab), c, t, spend.tx)
  BY <1>2, <1>5 DEF ExecSplits
<1>7. PICK u \in Exec(FALSE, a, st, spend.tx) : t \in Exec(ReadAfter(FALSE, a), b, u, spend.tx)
  BY <1>4, <1>6 DEF ExecSplits, ab
<1>8. PICK v : Kept(u, st, n1, v) /\ Outcome(l, st, n1, v)
  BY <1>7 DEF Takes, a
<1>9. t \in Exec(FALSE, b, u, spend.tx)
  <2>1. ReadAfter(FALSE, a) = ReadsScript(l)
    BY DEF Takes, a
  <2>2. ReadsScript(l) = FALSE
    BY DEF ReadsScript
  <2> QED BY <1>7, <2>1, <2>2
<1>10. IsSeq(u)
  <2> DEFINE base == SubSeq(st, 1, Len(st) - n1)
  <2>1. IsSeq(base) /\ LeavesOne(u, base, v)
    BY <1>8, KeptIsSeq
  <2> HIDE DEF base
  <2> QED BY <2>1, OnTop
<1>11. PICK w : Kept(t, u, n2, w) /\ Outcome(r, u, n2, w)
  BY <1>9, <1>10 DEF Takes, b
<1>12. IsSeq(t)
  <2> DEFINE base == SubSeq(u, 1, Len(u) - n2)
  <2>1. IsSeq(base) /\ LeavesOne(t, base, w)
    BY <1>10, <1>11, KeptIsSeq
  <2> HIDE DEF base
  <2> QED BY <2>1, OnTop
<1> DEFINE op == Opcode(e.op)
           after == ReadAfter(FALSE, ab)
           args == <<t[Len(t) - 1], t[Len(t)]>>
           base == SubSeq(t, 1, Len(t) - 2)
<1>13. op \in TwoInput
  BY DEF Opcode, Logical, TwoInput
<1>15. Len(t) \in Nat /\ Len(t) >= 2 /\ Leaves(s, base, <<op>>, args, spend.tx)
  <2>1. s \in Exec(after, <<<<op>>>>, t, spend.tx)
    BY <1>6, <1>14
  <2> HIDE DEF op, after
  <2> QED BY <1>12, <1>13, <2>1, ExecTwo
<1> DEFINE p == t[Len(t) - 1]
           q == t[Len(t)]
<1>16. Leaves(s, base, <<Opcode(e.op)>>, <<p, q>>, spend.tx)
  BY <1>15
<1>17. \E x : LeavesOne(s, base, x) /\ Combines(e.op, p, q, x)
  <2> HIDE DEF base, p, q
  <2> QED BY <1>2, <1>16, PairLeaves
<1>18. PICK x : LeavesOne(s, base, x) /\ Combines(e.op, p, q, x)
  BY <1>17
<1>19. /\ n1 + n2 \in 0 .. Len(st)
       /\ SubSeq(t, 1, Len(t) - 2) = SubSeq(st, 1, Len(st) - (n1 + n2))
       /\ t[Len(t)] = w
       /\ n2 = 0 => t[Len(t) - 1] = v
       /\ n2 # 0 => t[Len(t) - 1] = st[Len(st) - (n1 + n2) + 1]
  <2>1. BothKept(st, n1, n2, t, v, w)
    BY <1>8, <1>11, <1>15, TwoKept
  <2> QED BY <2>1, Zenon DEF BothKept
<1>20. Kept(s, st, n1 + n2, x)
  BY <1>18, <1>19 DEF Kept, LeavesOne
<1>21. LogicLeaves(e, st, s, n1, n2, u, v, w, p, x)
  BY <1>8, <1>10, <1>11, <1>18, <1>19, <1>20 DEF LogicLeaves
<1> QED BY <1>21

-----------------------------------------------------------------------------
(* Conditions joined, weighed.                                             *)

\* Under signatures alone, the second operand of a truthful connective takes none.
LEMMA SecondTakesNone ==
    ASSUME NEW e, e.op \in Logical, NEW st, IsSeq(st), NEW s, NEW n1 \in Nat, NEW n2 \in Nat,
           NEW u, NEW v, NEW w, NEW p, NEW x, LogicLeaves(e, st, s, n1, n2, u, v, w, p, x), TopSigs(st, n1 + n2)
    PROVE  n2 = 0 /\ n1 + n2 = n1 /\ TopSigs(st, n1) /\ TopSigs(u, n2) /\ p = v /\ IsNum(v) /\ IsNum(w)
           /\ x = NumericResult(e.op, v[2], w[2]) /\ x # Undefined
<1> DEFINE L == Len(st)
<1>1. L \in Nat /\ n1 + n2 \in 0 .. L
  BY SeqProps DEF LogicLeaves, Kept
<1>2. e.op # "==" /\ e.op # "!="
  BY DEF Logical
<1>3. IsNum(p) /\ IsNum(w) /\ x = NumericResult(e.op, p[2], w[2]) /\ x # Undefined
  <2>1. Combines(e.op, p, w, x)
    BY DEF LogicLeaves
  <2> QED BY <1>2, <2>1 DEF Combines
<1>4. ASSUME n2 # 0 PROVE FALSE
  <2> DEFINE j == L - (n1 + n2) + 1
  <2>1. p = st[j]
    BY <1>4, Zenon DEF LogicLeaves
  <2>2. j \in 1 .. L /\ j > L - (n1 + n2)
    BY <1>1, <1>4
  <2> HIDE DEF j
  <2>3. st[j] = Sig(st[j][2])
    BY <2>2 DEF TopSigs
  <2>4. p[1] = "sig"
    BY <2>1, <2>3 DEF Sig
  <2> QED BY <1>3, <2>4 DEF IsNum
<1>5. n2 = 0 /\ n1 + n2 = n1
  BY <1>4
<1>6. TopSigs(st, n1)
  BY <1>5
<1>7. TopSigs(u, n2)
  <2>1. IsSeq(u)
    BY DEF LogicLeaves
  <2>2. Len(u) \in Nat
    BY <2>1, SeqProps
  <2> QED BY <1>5, <2>2 DEF TopSigs
<1>8. p = v
  BY <1>5 DEF LogicLeaves
<1> QED BY <1>3, <1>5, <1>6, <1>7, <1>8

LEMMA LogicDemands ==
    ASSUME NEW e \in Exprs, e.op \in Logical, ~IsValue(e, ArgNames), NEW st, IsSeq(st), NEW n1, NEW u, NEW v, NEW w,
           IsNum(v), IsNum(w), Listed(e.kids[2], 0), Demands(e.kids[1], st, v),
           Sane => Weighs(e.kids[1], v) /\ Weighs(e.kids[2], w), NEW x, x = NumericResult(e.op, v[2], w[2])
    PROVE  Demands(e, st, x) /\ (Sane => Weighs(e, x))
<1> DEFINE a == e.kids[1]
           b == e.kids[2]
<1>1. CASE e.op # "and"
  <2>1. ~IsSigning(e)
    BY DEF Logical, IsSigning, IsVerify, IsCallOf
  <2> QED BY <1>1, <2>1, WeighsNothing
<1>2. CASE e.op = "and"
  <2>1. ToSet(Conjuncts[e]) = ToSet(Conjuncts[a]) \cup ToSet(Conjuncts[b])
    BY <1>2, ConjunctsAre
  <2>2. Truthy(x) => Truthy(v) /\ Truthy(w)
    <3>1. x = NumericResult("and", v[2], w[2])
      BY <1>2
    <3> QED BY <3>1, BothTruthy DEF Truthful
  <2>3. ASSUME Truthy(x), NEW c \in ToSet(Conjuncts[e]), IsSigning(c) PROVE Signed(c, st)
    <3>1. CASE c \in ToSet(Conjuncts[a])
      BY <2>2, <2>3, <3>1 DEF Demands
    <3>2. CASE c \in ToSet(Conjuncts[b])
      <4>1. SigningRequirement(c).threshold \in 0 .. 0
        BY <2>3, <3>2 DEF Listed
      <4>2. SigningRequirement(c).threshold = 0
        BY <4>1
      <4> QED BY <4>2, ByIsFinite DEF Signed
    <3> QED BY <2>1, <2>3, <3>1, <3>2
  <2>4. Demands(e, st, x)
    BY <2>3 DEF Demands
  <2>5. ASSUME Sane PROVE Weighs(e, x)
    <3>1. Weighs(a, v) /\ Weighs(b, w)
      BY <2>5
    <3> QED BY <2>1, <2>2, <3>1 DEF Weighs
  <2> QED BY <2>4, <2>5
<1> QED BY <1>1, <1>2

LEMMA LogicMeant ==
    ASSUME NEW e \in Exprs, e.op \in Logical, NEW st, IsSeq(st), NEW n1 \in Nat, NEW u, NEW v, NEW w,
           IsNum(v), IsNum(w), NEW x, x = NumericResult(e.op, v[2], w[2]), x # Undefined,
           Listed(e.kids[1], n1), Listed(e.kids[2], 0), MultisigsListEnough,
           Meant(e.kids[1], st, n1, v), Meant(e.kids[2], u, 0, w)
    PROVE  Meant(e, st, n1, x)
<1> DEFINE a == e.kids[1]
           b == e.kids[2]
           A == ArgumentsOf[a]
           B == ArgumentsOf[b]
           C == ArgumentsOf[e]
<1>1. IsBinary(e) /\ ~IsSigning(e) /\ e.op \in PairOps \ {"==", "!="} /\ e.op # "==" /\ e.op # "!="
  BY DEF Logical, IsSigning, IsVerify, IsCallOf, IsBinary, PairOps
<1>2. Len(e.kids) = 2
  BY <1>1, Kinds
<1>3. IsSeq(A) /\ IsSeq(B) /\ Len(A) \in Nat /\ Len(B) \in Nat /\ n1 <= Len(A)
  BY SeqProps DEF Listed
<1>4. JoinOf(A, B, C)
  BY <1>1, <1>2, <1>3, ArgumentsOfTwo
<1>10. A = ArgumentsOf[a] /\ B = ArgumentsOf[b] /\ C = ArgumentsOf[e]
  OBVIOUS
<1> HIDE DEF A, B, C
<1>5. Len(C) = Len(A) + Len(B) /\ \A i \in 1 .. Len(A) : C[i] = A[i]
  <2>1. IsSeq(A) /\ IsSeq(B)
    BY <1>3
  <2> QED BY <1>4, <2>1, Joins
<1> SUFFICES ASSUME NEW env, Agrees(env), Given(e, env, st, n1)
             PROVE  Meaning(e, env) = x /\ IsResult(x)
  BY DEF Meant
<1>6. n1 = Len(C) /\ \A i \in 1 .. n1 : C[i] \in DOMAIN env.values /\ env.values[C[i]] = st[Len(st) - n1 + i]
  BY <1>10 DEF Given
<1>7. Len(A) = n1 /\ Len(B) = 0
  <2> DEFINE la == Len(A)
             lb == Len(B)
  <2>1. la \in Nat /\ lb \in Nat /\ n1 <= la /\ n1 = la + lb
    BY <1>3, <1>5, <1>6
  <2> HIDE DEF la, lb
  <2>2. la = n1 /\ lb = 0
    BY <2>1
  <2> QED BY <2>2 DEF la, lb
<1>8. Meaning(a, env) = v /\ IsResult(v)
  <2>1. \A i \in 1 .. n1 : A[i] \in DOMAIN env.values /\ env.values[A[i]] = st[Len(st) - n1 + i]
    BY <1>5, <1>6, <1>7
  <2>2. Given(a, env, st, n1)
    BY <1>7, <1>10, <2>1 DEF Given
  <2> QED BY <2>2 DEF Meant
<1>9. Meaning(b, env) = w /\ IsResult(w)
  <2>1. Given(b, env, u, 0)
    BY <1>7, <1>10 DEF Given
  <2> QED BY <2>1 DEF Meant
<1>11. Meaning(e, env) = x
  <2>1. Meaning(e, env) = BinaryMeaning(e.op, v, w)
    BY <1>1, <1>8, <1>9, MeaningOfBinary
  <2>2. v # Undefined /\ w # Undefined
    BY <1>8, <1>9 DEF IsResult
  <2>3. Undefined \notin {v, w}
    BY <2>2
  <2>4. e.op \notin {"==", "!="}
    BY <1>1
  <2>5. BinaryMeaning(e.op, v, w) = IF IsNum(v) /\ IsNum(w) THEN NumericResult(e.op, v[2], w[2]) ELSE Undefined
    BY <1>1, <2>3, <2>4, Zenon DEF BinaryMeaning
  <2> QED BY <2>1, <2>5
<1>12. IsResult(x)
  <2>1. PICK i \in Int : v = Num(i)
    BY <1>8 DEF IsResult
  <2>2. PICK j \in Int : w = Num(j)
    BY <1>9 DEF IsResult
  <2>3. v[2] = i /\ w[2] = j
    BY <2>1, <2>2, NumIs
  <2>4. \E k \in Int : x = Num(k)
    <3> DEFINE op == e.op
    <3>1. op \in PairOps \ {"==", "!="} /\ x = NumericResult(op, i, j)
      BY <1>1, <2>3
    <3> HIDE DEF op
    <3> QED BY <3>1, ResultIsNumber
  <2> QED BY <2>4 DEF IsResult
<1> QED BY <1>11, <1>12

\* `and` and `or` take what their two sides take, one after the other.
LEMMA LogicTakes ==
    ASSUME OnChain, NEW e \in Exprs, e.op \in Logical, NEW n1, NEW n2,
           Takes(e.kids[1], n1), Takes(e.kids[2], n2), ~ReadsScript(e.kids[1]), ~IsValue(e, ArgNames)
    PROVE  Takes(e, n1 + n2)
<1> DEFINE a == e.kids[1]
           b == e.kids[2]
           n == n1 + n2
<1>1. IsBinary(e) /\ ~IsLock(e) /\ ~IsSigning(e) /\ e.op \notin {"*", "/", "%"}
  BY DEF Logical, IsSigning, IsVerify, IsCallOf, IsBinary, IsLock
<1>2. /\ a \in Exprs /\ b \in Exprs /\ Len(e.kids) = 2 /\ ~ReadsScript(e) /\ ~Reading(<<Opcode(e.op)>>)
      /\ Lower[e] = (Lower[a] \o Lower[b]) \o <<<<Opcode(e.op)>>>>
  BY <1>1, BinaryParts
<1>3. Listed(a, n1) /\ Listed(b, n2)
  BY DEF Takes
<1>4. n1 \in Nat /\ n2 \in Nat /\ n \in Nat
  BY <1>3 DEF Listed
<1>5. Listed(e, n)
  <2> DEFINE A == ArgumentsOf[a]
             B == ArgumentsOf[b]
             C == ArgumentsOf[e]
  <2>1. IsSeq(A) /\ IsSeq(B) /\ Len(A) \in Nat /\ Len(B) \in Nat
    BY <1>3, SeqProps DEF Listed
  <2>2. JoinOf(A, B, C)
    BY <1>1, <1>2, <2>1, ArgumentsOfTwo
  <2>6. MultisigsListEnough => n1 <= Len(A) /\ n2 <= Len(B)
    BY <1>3 DEF Listed
  <2>3. IsSeq(C) /\ Len(C) = Len(A) + Len(B)
    <3> HIDE DEF A, B, C
    <3> QED BY <2>1, <2>2, Joins
  <2>4. MultisigsListEnough => n <= Len(C)
    <3> HIDE DEF A, B, C
    <3> QED BY <1>4, <2>1, <2>3, <2>6
  <2>5. ASSUME NEW c \in ToSet(Conjuncts[e]), IsSigning(c) PROVE SigningRequirement(c).threshold \in 0 .. n
    <3>1. c # e
      BY <1>1, <2>5
    <3>2. c \in ToSet(Conjuncts[a]) \cup ToSet(Conjuncts[b])
      BY <2>5, <3>1, ConjunctsAre
    <3>3. SigningRequirement(c).threshold \in 0 .. n1 \/ SigningRequirement(c).threshold \in 0 .. n2
      BY <1>3, <2>5, <3>2 DEF Listed
    <3> QED BY <1>4, <3>3
  <2> QED BY <1>4, <2>3, <2>4, <2>5 DEF Listed
<1>6. \A read : ReadAfter(read, Lower[e]) = ReadsScript(e)
  <2> DEFINE c == Lower[a] \o Lower[b]
             ins == <<Opcode(e.op)>>
  <2>1. IsSeq(c) /\ Lower[e] = c \o <<ins>> /\ ~Reading(ins)
    BY <1>2, LowerSeq, ConcatSeq
  <2> HIDE DEF c, ins
  <2>2. ValueReads(e)
    BY <1>2, <2>1, EndsQuietly
  <2> QED BY <2>2 DEF ValueReads
<1>7. ASSUME NEW st, NEW s, IsSeq(st), s \in Exec(FALSE, Lower[e], st, spend.tx)
      PROVE  \E x : Kept(s, st, n, x) /\ Outcome(e, st, n, x)
  <2>1. PICK u, v, w, p, x : LogicLeaves(e, st, s, n1, n2, u, v, w, p, x)
    BY <1>4, <1>7, LogicRuns
  <2>2. Kept(s, st, n, x) /\ Outcome(a, st, n1, v) /\ Outcome(b, u, n2, w)
    BY <2>1, Zenon DEF LogicLeaves
  <2>3. ASSUME TopSigs(st, n) PROVE Outcome(e, st, n, x)
    <3>1. /\ n2 = 0 /\ n = n1 /\ TopSigs(st, n1) /\ TopSigs(u, n2) /\ IsNum(v) /\ IsNum(w)
          /\ x = NumericResult(e.op, v[2], w[2]) /\ x # Undefined
      BY <1>4, <1>7, <2>1, <2>3, SecondTakesNone
    <3>2. Demands(a, st, v) /\ (Sane => Weighs(a, v)) /\ (Sane /\ MultisigsListEnough => Meant(a, st, n1, v))
      BY <2>2, <3>1 DEF Outcome
    <3>3. (Sane => Weighs(b, w)) /\ (Sane /\ MultisigsListEnough => Meant(b, u, 0, w))
      BY <2>2, <3>1 DEF Outcome
    <3>4. Listed(b, 0)
      BY <1>3, <3>1
    <3>5. Demands(e, st, x) /\ (Sane => Weighs(e, x))
      BY <1>7, <3>1, <3>2, <3>3, <3>4, LogicDemands
    <3>6. ASSUME Sane, MultisigsListEnough PROVE Meant(e, st, n, x)
      BY <1>3, <1>4, <1>7, <3>1, <3>2, <3>3, <3>4, <3>6, LogicMeant
    <3> QED BY <3>5, <3>6 DEF Outcome
  <2>4. Outcome(e, st, n, x)
    BY <2>3 DEF Outcome
  <2> QED BY <2>2, <2>4
<1> QED BY <1>5, <1>6, <1>7 DEF Takes

-----------------------------------------------------------------------------
(* Every condition.  By induction on the tree: what its code takes off the stack, what it leaves
   and what that says about the source.                                    *)

TakesSome(e) ==
    IsPart(e) /\ IsCondition(e, ParamNames, ArgNames) /\ Bindable(Lower[e]) => \E n : Takes(e, n)

LEMMA ConditionStep ==
    ASSUME OnChain, NEW e \in Exprs, IsPart(e), IsCondition(e, ParamNames, ArgNames), Bindable(Lower[e]),
           \A y \in Below(e) : TakesSome(y)
    PROVE  \E n : Takes(e, n)
<1> DEFINE Kids == /\ e.op \in {"not"} \cup Logical /\ ~ReadsScript(e.kids[1])
                   /\ \A i \in 1 .. Len(e.kids) :
                        e.kids[i] \in Below(e) /\ IsCondition(e.kids[i], ParamNames, ArgNames)
<1>1. IsValue(e, ArgNames) \/ SignsByName(e, ParamNames, ArgNames) \/ Kids
  BY ConditionCases
<1>2. ASSUME NEW i \in 1 .. Len(e.kids) PROVE e.kids[i] \in Exprs /\ IsPart(e.kids[i]) /\ e.kids[i] \in Below(e)
  BY Trees, PartsOfParts
<1>3. CASE IsValue(e, ArgNames)
  BY <1>3, ValueTakes
<1>4. CASE SignsByName(e, ParamNames, ArgNames)
  <2>1. \/ /\ IsVerify(e) /\ Len(Args(e)) = 1
           /\ IsNameIn(Callee(e).kids[1], ArgNames) /\ IsNameIn(Args(e)[1], ParamNames)
        \/ IsMultisig(e)
    BY <1>4, Zenon DEF SignsByName, IsMultisig, NamedBy
  <2> QED BY <2>1, VerifyTakes, MultisigTakes
<1>5. CASE Kids /\ e.op = "not" /\ ~IsValue(e, ArgNames)
  <2> DEFINE d == e.kids[1]
  <2>1. 1 \in 1 .. Len(e.kids)
    BY <1>5, Kinds
  <2>2. d \in Exprs /\ IsPart(d) /\ d \in Below(e) /\ IsCondition(d, ParamNames, ArgNames)
    BY <1>2, <1>5, <2>1
  <2>3. Lower[e] = Lower[d] \o <<<<"not">>>>
    BY <1>5, LowerCases
  <2>4. Bindable(Lower[d])
    BY <2>2, <2>3, BindableFront
  <2>5. PICK n : Takes(d, n)
    BY <2>2, <2>4 DEF TakesSome
  <2> QED BY <1>5, <2>5, NotTakes
<1>6. CASE Kids /\ e.op \in Logical /\ ~IsValue(e, ArgNames)
  <2> DEFINE l == e.kids[1]
             r == e.kids[2]
             c == Lower[l]
             d == Lower[r]
             one == <<<<Opcode(e.op)>>>>
  <2>1. IsBinary(e) /\ ~IsLock(e) /\ e.op \notin {"*", "/", "%"}
    BY <1>6 DEF Logical, IsBinary, IsLock
  <2>2. 1 \in 1 .. Len(e.kids) /\ 2 \in 1 .. Len(e.kids)
    BY <2>1, Kinds
  <2>3. /\ l \in Exprs /\ IsPart(l) /\ l \in Below(e) /\ IsCondition(l, ParamNames, ArgNames)
        /\ r \in Exprs /\ IsPart(r) /\ r \in Below(e) /\ IsCondition(r, ParamNames, ArgNames)
    BY <1>2, <1>6, <2>2
  <2>4. Lower[e] = (c \o d) \o one
    BY <2>1, BinaryParts
  <2>5. IsSeq(c) /\ IsSeq(d) /\ IsSeq(one) /\ IsSeq(c \o d)
    BY <2>3, LowerSeq, OneIsSeq, ConcatSeq
  <2>6. Bindable(c) /\ Bindable(d)
    <3> HIDE DEF c, d, one
    <3>1. Bindable((c \o d) \o one)
      BY <2>4
    <3> DEFINE cd == c \o d
    <3>2. Bindable(cd \o one) /\ IsSeq(cd)
      BY <2>5, <3>1
    <3> HIDE DEF cd
    <3>3. Bindable(cd)
      BY <2>5, <3>2, BindableApart
    <3>4. Bindable(c \o d)
      BY <3>3 DEF cd
    <3> QED BY <2>5, <3>4, BindableApart
  <2>7. PICK n1 : Takes(l, n1)
    BY <2>3, <2>6 DEF TakesSome
  <2>8. PICK n2 : Takes(r, n2)
    BY <2>3, <2>6 DEF TakesSome
  <2>9. Takes(e, n1 + n2)
    <3> HIDE DEF c, d, one
    <3> QED BY <1>6, <2>7, <2>8, LogicTakes
  <2> QED BY <2>9
<1> QED BY <1>1, <1>3, <1>4, <1>5, <1>6

\* Every condition of a path takes some number of signatures and leaves one value.
LEMMA ConditionTakes ==
    ASSUME OnChain, NEW e, IsPart(e), IsCondition(e, ParamNames, ArgNames), Bindable(Lower[e])
    PROVE  \E n : Takes(e, n)
<1> DEFINE T == {x \in Exprs : TakesSome(x)}
<1>1. ASSUME NEW x \in Exprs, \A y \in Below(x) : y \in T PROVE x \in T
  <2>1. \A y \in Below(x) : TakesSome(y)
    BY <1>1
  <2>2. TakesSome(x)
    BY <2>1, ConditionStep DEF TakesSome
  <2> QED BY <2>2
<1>2. T \subseteq Exprs
  OBVIOUS
<1> HIDE DEF T
<1>3. T = Exprs
  BY <1>1, <1>2, TreeInduction
<1>4. TakesSome(e)
  BY <1>3 DEF T, IsPart
<1> QED BY <1>4 DEF TakesSome

\* One requirement of an accepted spend, from the first j signatures to the first k.
Step(e, w, j, k) ==
    /\ j \in 0 .. Len(w) /\ k \in 0 .. j /\ Takes(e, j - k)
    /\ \E v : Truthy(v) /\ Outcome(e, SubSeq(w, 1, j), j - k, v)

Consumed(es, w, at, n) == at[0] = Len(w) /\ \A i \in 1 .. n : Step(es[i], w, at[i - 1], at[i])

PrefixOf(t, w, k) == k \in 0 .. Len(w) /\ t = SubSeq(w, 1, k)

LEMMA PrefixOfPrefix ==
    ASSUME NEW w, IsSeq(w), NEW u, NEW j, PrefixOf(u, w, j), NEW m, m \in 0 .. Len(u)
    PROVE  Len(u) = j /\ IsSeq(u) /\ PrefixOf(SubSeq(u, 1, Len(u) - m), w, j - m) /\ j - m \in 0 .. j /\ j - (j - m) = m
<1>1. Len(w) \in Nat /\ j \in 0 .. Len(w) /\ j \in Nat
  BY SeqProps DEF PrefixOf
<1>2. IsSeq(u) /\ Len(u) = j /\ \A i \in 1 .. j : u[i] = w[i]
  BY <1>1, PrefixSeq DEF PrefixOf
<1> DEFINE k == j - m
<1>3. k \in 0 .. Len(u) /\ k \in 0 .. Len(w) /\ k \in 0 .. j /\ j - k = m /\ Len(u) - m = k
  BY <1>1, <1>2
<1>4. \A i \in 1 .. k : u[i] = w[i]
  BY <1>1, <1>2, <1>3
<1> HIDE DEF k
<1>5. SubSeq(u, 1, k) = SubSeq(w, 1, k)
  BY <1>2, <1>3, <1>4, SamePrefix
<1>6. PrefixOf(SubSeq(u, 1, Len(u) - m), w, k)
  BY <1>3, <1>5 DEF PrefixOf
<1> QED BY <1>2, <1>3, <1>6 DEF k

\* One require statement.
LEMMA RequireRuns ==
    ASSUME NEW e \in Exprs, NEW m, Takes(e, m), NEW w, IsSeq(w), NEW u, NEW j, PrefixOf(u, w, j),
           NEW t \in Exec(FALSE, Lower[e] \o <<<<"verify">>>>, u, spend.tx)
    PROVE  \E k : PrefixOf(t, w, k) /\ Step(e, w, j, k)
<1> DEFINE a == Lower[e]
           c == <<<<"verify">>>>
<1>1. IsSeq(a) /\ IsSeq(c)
  BY LowerSeq, OneIsSeq
<1>2. IsSeq(u) /\ j \in 0 .. Len(w)
  BY PrefixSeq DEF PrefixOf
<1>3. t \in Exec(FALSE, a \o c, u, spend.tx) /\ c = <<<<"verify">>>>
  OBVIOUS
<1> HIDE DEF c
<1>4. ExecSplits(FALSE, a, c, u, spend.tx)
  BY <1>1, ExecApart
<1>5. PICK u2 \in Exec(FALSE, a, u, spend.tx) : t \in Exec(ReadAfter(FALSE, a), c, u2, spend.tx)
  BY <1>3, <1>4 DEF ExecSplits
<1>6. PICK v : Kept(u2, u, m, v) /\ Outcome(e, u, m, v)
  BY <1>2, <1>5 DEF Takes
<1>7. m \in 0 .. Len(u)
  BY <1>6 DEF Kept
<1> DEFINE base == SubSeq(u, 1, Len(u) - m)
<1>8. IsSeq(base) /\ LeavesOne(u2, base, v)
  BY <1>2, <1>6, KeptIsSeq
<1>9. Truthy(v) /\ t = base
  <2> DEFINE after == ReadAfter(FALSE, a)
  <2>1. t \in Exec(after, <<<<"verify">>>>, base \o <<v>>, spend.tx)
    BY <1>3, <1>5, <1>8 DEF LeavesOne
  <2> HIDE DEF after, base
  <2> QED BY <1>8, <2>1, ExecVerify
<1> DEFINE k == j - m
<1>10. PrefixOf(base, w, k) /\ k \in 0 .. j /\ j - k = m
  BY <1>7, PrefixOfPrefix
<1> HIDE DEF base, k, a
<1>11. Step(e, w, j, k)
  <2>1. u = SubSeq(w, 1, j)
    BY DEF PrefixOf
  <2> QED BY <1>2, <1>6, <1>9, <1>10, <2>1 DEF Step
<1> QED BY <1>9, <1>10, <1>11

-----------------------------------------------------------------------------
(* A body of requirements.  Each starts from the witness that those before it have left.*)

\* Requirements as they are lowered, one after the other.
RequirePieces(ps, es) ==
    \A i \in 1 .. Len(ps) : /\ es[i] \in Exprs /\ \E m : Takes(es[i], m)
                            /\ ps[i] = Lower[es[i]] \o <<<<"verify">>>>

FrontPiece(ps, es, n, qs) ==
    /\ IsSeqOfSeqs(qs) /\ Len(qs) = n /\ RequirePieces(qs, es)
    /\ es[n + 1] \in Exprs /\ \E m : Takes(es[n + 1], m)
    /\ FlattenSeq(ps) = FlattenSeq(qs) \o (Lower[es[n + 1]] \o <<<<"verify">>>>)

LEMMA PiecesFront ==
    ASSUME NEW ps, IsSeqOfSeqs(ps), NEW n \in Nat, Len(ps) = n + 1, NEW es, RequirePieces(ps, es)
    PROVE  \E qs : FrontPiece(ps, es, n, qs)
<1>1. PICK qs, q : IsSeqOfSeqs(qs) /\ IsSeq(q) /\ Len(qs) = n /\ ps = Append(qs, q)
  BY SeqsFront
<1>2. FlattenSeq(ps) = FlattenSeq(qs) \o q
  BY <1>1, FlattenAppend DEF IsSeqOfSeqs
<1>3. (\A i \in 1 .. n : ps[i] = qs[i]) /\ ps[n + 1] = q
  <2>1. IsSeq(qs)
    BY <1>1 DEF IsSeqOfSeqs
  <2>2. /\ \A i \in 1 .. Len(qs) : Append(qs, q)[i] = qs[i]
        /\ Append(qs, q)[Len(qs) + 1] = q
    BY <2>1, AppendSeq
  <2> QED BY <1>1, <2>2
<1>4. (\A i \in 1 .. n : i \in 1 .. Len(ps)) /\ n + 1 \in 1 .. Len(ps)
  OBVIOUS
<1>5. RequirePieces(qs, es)
  BY <1>1, <1>3, <1>4, Zenon DEF RequirePieces
<1>6. es[n + 1] \in Exprs /\ (\E m : Takes(es[n + 1], m)) /\ q = Lower[es[n + 1]] \o <<<<"verify">>>>
  BY <1>3, <1>4, Zenon DEF RequirePieces
<1>7. FrontPiece(ps, es, n, qs)
  BY <1>1, <1>2, <1>5, <1>6, Zenon DEF FrontPiece
<1> QED BY <1>7

LEMMA PiecesAreQuiet ==
    ASSUME NEW ps, IsSeqOfSeqs(ps), NEW es, RequirePieces(ps, es)
    PROVE  ReadAfter(FALSE, FlattenSeq(ps)) = FALSE
<1>1. CASE Len(ps) = 0
  <2>1. FlattenSeq(ps) = << >>
    BY <1>1, SeqsEmpty, FlattenEmpty
  <2> QED BY <2>1, ReadAfterFew
<1>2. CASE Len(ps) # 0
  <2> DEFINE n == Len(ps) - 1
  <2>1. n \in Nat /\ Len(ps) = n + 1
    BY <1>2, SeqProps DEF IsSeqOfSeqs
  <2> HIDE DEF n
  <2>2. PICK qs : FrontPiece(ps, es, n, qs)
    BY <2>1, PiecesFront
  <2> DEFINE c == FlattenSeq(qs)
             a == Lower[es[n + 1]]
             ins == <<"verify">>
             ca == c \o a
  <2>3. IsSeq(c) /\ IsSeq(a) /\ FlattenSeq(ps) = c \o (a \o <<ins>>)
    BY <2>2, FlattenIsSeq, LowerSeq DEF FrontPiece
  <2>4. Reading(ins) = FALSE
    BY DEF Reading
  <2> HIDE DEF c, a, ins
  <2>5. FlattenSeq(ps) = ca \o <<ins>> /\ IsSeq(ca)
    BY <2>3, OneIsSeq, ConcatAssoc, ConcatSeq
  <2> HIDE DEF ca
  <2>6. ReadAfter(FALSE, ca \o <<ins>>) = Reading(ins)
    BY <2>5, ReadAfterFew
  <2> QED BY <2>4, <2>5, <2>6
<1> QED BY <1>1, <1>2

Through(es, w, at, n, t) == Consumed(es, w, at, n) /\ PrefixOf(t, w, at[n])

LEMMA OneMoreConsumed ==
    ASSUME NEW es, NEW w, NEW at, NEW n \in Nat, NEW u, Through(es, w, at, n, u),
           NEW t, NEW k, PrefixOf(t, w, k), Step(es[n + 1], w, at[n], k)
    PROVE  \E more : Through(es, w, more, n + 1, t)
<1> DEFINE more == [i \in 0 .. n + 1 |-> IF i = n + 1 THEN k ELSE at[i]]
<1>1. /\ n + 1 \in 0 .. n + 1 /\ n + 1 - 1 = n /\ n # n + 1
      /\ \A i \in 0 .. n : i \in 0 .. n + 1 /\ i # n + 1
      /\ \A i \in 1 .. n + 1 : i \in 1 .. n \/ i = n + 1
      /\ \A i \in 1 .. n : i \in 0 .. n /\ i - 1 \in 0 .. n
      /\ 0 \in 0 .. n /\ n \in 0 .. n
  OBVIOUS
<1>2. more[n + 1] = k /\ \A i \in 0 .. n : more[i] = at[i]
  BY <1>1
<1> HIDE DEF more
<1>3. at[0] = Len(w) /\ \A i \in 1 .. n : Step(es[i], w, at[i - 1], at[i])
  BY DEF Through, Consumed
<1>4. ASSUME NEW i \in 1 .. n + 1 PROVE Step(es[i], w, more[i - 1], more[i])
  <2>1. CASE i \in 1 .. n
    <3>1. more[i] = at[i] /\ more[i - 1] = at[i - 1]
      BY <1>1, <1>2, <2>1
    <3> QED BY <1>3, <2>1, <3>1
  <2>2. CASE i = n + 1
    <3>1. more[i] = k /\ i - 1 = n /\ more[n] = at[n]
      BY <1>1, <1>2, <2>2
    <3> QED BY <2>2, <3>1
  <2> QED BY <1>1, <2>1, <2>2
<1>5. Through(es, w, more, n + 1, t)
  BY <1>1, <1>2, <1>3, <1>4 DEF Through, Consumed
<1> QED BY <1>5

\* Requirements that run take the signatures from the last to the first.
LEMMA RequirementsRun ==
    ASSUME NEW es, NEW ps, IsSeqOfSeqs(ps), RequirePieces(ps, es), NEW w, IsSeq(w),
           NEW t \in Exec(FALSE, FlattenSeq(ps), w, spend.tx)
    PROVE  \E at : Through(es, w, at, Len(ps), t)
<1> DEFINE Gone(qs, n) == \A u \in Exec(FALSE, FlattenSeq(qs), w, spend.tx) : \E at : Through(es, w, at, n, u)
           Works(n) == \A qs : IsSeqOfSeqs(qs) /\ RequirePieces(qs, es) /\ Len(qs) = n => Gone(qs, n)
           T == {n \in Nat : Works(n)}
<1>0. Len(w) \in Nat
  BY SeqProps
<1>1. 0 \in T
  <2>1. ASSUME NEW qs, IsSeqOfSeqs(qs), Len(qs) = 0, NEW u \in Exec(FALSE, FlattenSeq(qs), w, spend.tx)
        PROVE  \E at : Through(es, w, at, 0, u)
    <3>1. u = w
      <4>1. qs = << >>
        BY <2>1, SeqsEmpty
      <4>2. u \in Exec(FALSE, << >>, w, spend.tx)
        BY <2>1, <4>1, FlattenEmpty
      <4> QED BY <4>2, ExecNone
    <3> DEFINE at == [i \in {0} |-> Len(w)]
    <3>2. at[0] = Len(w)
      OBVIOUS
    <3> HIDE DEF at
    <3>3. Consumed(es, w, at, 0)
      BY <3>2 DEF Consumed
    <3>4. PrefixOf(u, w, at[0])
      <4>1. Len(w) \in 0 .. Len(w)
        BY <1>0
      <4> QED BY <3>1, <3>2, <4>1, WholePrefix DEF PrefixOf
    <3> QED BY <3>3, <3>4 DEF Through
  <2> QED BY <2>1
<1>2. ASSUME NEW n \in T PROVE n + 1 \in T
  <2>1. n \in Nat /\ n + 1 \in Nat
    OBVIOUS
  <2> HIDE DEF Works
  <2>0. Works(n)
    OBVIOUS
  <2> HIDE DEF T
  <2>2. ASSUME NEW qs, IsSeqOfSeqs(qs), RequirePieces(qs, es), Len(qs) = n + 1,
               NEW u \in Exec(FALSE, FlattenSeq(qs), w, spend.tx)
        PROVE  \E at : Through(es, w, at, n + 1, u)
    <3>1. PICK rs : FrontPiece(qs, es, n, rs)
      BY <2>1, <2>2, PiecesFront
    <3> DEFINE e == es[n + 1]
               c == FlattenSeq(rs)
               d == Lower[e] \o <<<<"verify">>>>
    <3>2. /\ IsSeqOfSeqs(rs) /\ Len(rs) = n /\ RequirePieces(rs, es) /\ e \in Exprs
          /\ (\E m : Takes(e, m)) /\ FlattenSeq(qs) = c \o d
      BY <3>1, Zenon DEF FrontPiece
    <3>3. Gone(rs, n)
      <4> HIDE DEF Gone
      <4> QED BY <2>0, <3>2 DEF Works
    <3>4. IsSeq(c) /\ ReadAfter(FALSE, c) = FALSE
      BY <3>2, FlattenIsSeq, PiecesAreQuiet
    <3>5. IsSeq(d)
      BY <3>2, LowerSeq, OneIsSeq, ConcatSeq
    <3>6. u \in Exec(FALSE, c \o d, w, spend.tx)
      BY <2>2, <3>2
    <3>7. \A v \in Exec(FALSE, c, w, spend.tx) : \E at : Through(es, w, at, n, v)
      BY <3>3
    <3> HIDE DEF c, d, e
    <3>8. ExecSplits(FALSE, c, d, w, spend.tx)
      BY <3>4, <3>5, ExecApart
    <3>9. PICK v \in Exec(FALSE, c, w, spend.tx) : u \in Exec(ReadAfter(FALSE, c), d, v, spend.tx)
      BY <3>6, <3>8 DEF ExecSplits
    <3>10. PICK at : Through(es, w, at, n, v)
      BY <3>7
    <3> DEFINE after == ReadAfter(FALSE, c)
    <3>11. u \in Exec(after, d, v, spend.tx) /\ after = FALSE
      BY <3>4, <3>9
    <3> HIDE DEF after
    <3>12. u \in Exec(FALSE, Lower[e] \o <<<<"verify">>>>, v, spend.tx)
      BY <3>11 DEF d
    <3>13. PICK m : Takes(e, m)
      BY <3>2
    <3> DEFINE j == at[n]
    <3>14. PrefixOf(v, w, j)
      BY <3>10 DEF Through
    <3>15. e \in Exprs
      BY <3>2
    <3> HIDE DEF j
    <3>16. PICK k : PrefixOf(u, w, k) /\ Step(e, w, j, k)
      BY <3>12, <3>13, <3>14, <3>15, RequireRuns
    <3> QED BY <2>1, <3>10, <3>16, OneMoreConsumed DEF e, j
  <2>3. Works(n + 1)
    BY <2>2 DEF Works
  <2> QED BY <2>1, <2>3 DEF T
<1>3. T \in SUBSET Nat
  OBVIOUS
<1> HIDE DEF T
<1>5. T = Nat
  BY <1>1, <1>2, <1>3, NatInductionOnSet
<1>6. Len(ps) \in T
  BY <1>5, SeqProps DEF IsSeqOfSeqs
<1>7. Gone(ps, Len(ps))
  <2> HIDE DEF Gone
  <2> QED BY <1>6 DEF T
<1> QED BY <1>7

-----------------------------------------------------------------------------
(* An accepted spend.  Its requirements have consumed its whole witness, each its own stretch.*)

\* The requirements of a regular body, in order.
Demanded(es) ==
    /\ IsSeq(es) /\ Len(es) = Len(Path.body)
    /\ \A i \in 1 .. Len(es) : es[i] = Path.body[i].expr /\ es[i] \in ToSet(Requires(Path))
    /\ \A e \in ToSet(Requires(Path)) : \E i \in 1 .. Len(es) : e = es[i]

LEMMA RequirementsOfBody ==
    ASSUME Path \in Paths, RegularForm
    PROVE  \E es : Demanded(es)
<1> DEFINE body == Path.body
           es == [i \in 1 .. Len(body) |-> body[i].expr]
<1>1. IsSeq(body) /\ DOMAIN body = 1 .. Len(body) /\ Len(body) \in Nat
  BY Bodies
<1>2. ASSUME NEW i \in 1 .. Len(body) PROVE body[i].kind = "require"
  <2>1. body[i] \in ToSet(body)
    BY <1>1, Members
  <2> QED BY <2>1 DEF RegularForm
<1>3. ToSet(Requires(Path)) = {body[i].expr : i \in {i \in DOMAIN body : body[i].kind = "require"}}
  BY RequiredAre
<1> HIDE DEF body
<1>4. IsSeq(es) /\ Len(es) = Len(body)
  BY <1>1, TableIsSeq
<1>5. \A i \in 1 .. Len(body) : es[i] = body[i].expr
  OBVIOUS
<1> HIDE DEF es
<1>6. \A i \in 1 .. Len(body) : es[i] \in ToSet(Requires(Path))
  BY <1>1, <1>2, <1>3, <1>5
<1>7. ASSUME NEW e \in ToSet(Requires(Path)) PROVE \E i \in 1 .. Len(es) : e = es[i]
  BY <1>1, <1>3, <1>4, <1>5
<1>8. Demanded(es)
  BY <1>4, <1>5, <1>6, <1>7 DEF Demanded, body
<1> QED BY <1>8

CodeOf(es, ps) == /\ IsSeqOfSeqs(ps) /\ Len(ps) = Len(es) /\ RequirePieces(ps, es)
                  /\ Code = FlattenSeq(ps)

\* The code of a path is the code of its requirements, each followed by verify.
LEMMA CodeOfRequirements ==
    ASSUME OnChain, RegularForm, NEW es, Demanded(es)
    PROVE  \E ps : CodeOf(es, ps)
<1> DEFINE body == Path.body
           ps == [i \in DOMAIN body |-> LowerStatement(body[i])]
<1>0. Path \in Paths /\ ~Unbound(Code)
  BY SpendFacts
<1>1. IsSeq(body) /\ DOMAIN body = 1 .. Len(body) /\ Len(body) \in Nat
  BY <1>0, Bodies
<1>2. ASSUME NEW i \in 1 .. Len(body)
      PROVE  /\ es[i] \in Exprs /\ es[i] = body[i].expr /\ IsPart(es[i]) /\ IsCondition(es[i], ParamNames, ArgNames)
             /\ LowerStatement(body[i]) = Lower[es[i]] \o <<<<"verify">>>>
  <2>1. es[i] = body[i].expr /\ es[i] \in ToSet(Requires(Path))
    BY DEF Demanded
  <2>2. body[i] \in ToSet(body)
    BY <1>1, Members
  <2>3. body[i].kind = "require"
    BY <2>2 DEF RegularForm
  <2>4. IsPart(es[i])
    BY <1>0, <2>1, RequiredAre
  <2>5. IsCondition(es[i], ParamNames, ArgNames)
    BY <2>1 DEF RegularForm
  <2>6. LowerStatement(body[i]) = Lower[es[i]] \o <<<<"verify">>>>
    BY <2>1, <2>3, Zenon DEF LowerStatement
  <2> QED BY <2>1, <2>4, <2>5, <2>6 DEF IsPart
<1>3. ASSUME NEW i \in 1 .. Len(body) PROVE ps[i] = Lower[es[i]] \o <<<<"verify">>>> /\ IsSeq(ps[i])
  <2>1. ps[i] = LowerStatement(body[i])
    BY <1>1
  <2>2. IsSeq(Lower[es[i]] \o <<<<"verify">>>>)
    BY <1>2, LowerSeq, OneIsSeq, ConcatSeq
  <2> QED BY <1>2, <2>1, <2>2
<1>4. Code = Concat(ps)
  BY DEF Code, LowerSpend
<1>5. ps = [i \in DOMAIN body |-> ps[i]]
  OBVIOUS
<1> HIDE DEF ps
<1>6. /\ IsSeqOfSeqs(ps) /\ Len(ps) = Len(body) /\ Concat(ps) = FlattenSeq(ps)
      /\ \A i \in 1 .. Len(body) : ToSet(ps[i]) \subseteq ToSet(Concat(ps))
  BY <1>1, <1>3, <1>5, Pieces
<1>7. Bindable(Code)
  BY <1>0, Zenon DEF Bindable, Unbound, Known
<1>8. ASSUME NEW i \in 1 .. Len(ps)
      PROVE  es[i] \in Exprs /\ (\E m : Takes(es[i], m)) /\ ps[i] = Lower[es[i]] \o <<<<"verify">>>>
  <2>1. i \in 1 .. Len(body)
    BY <1>6
  <2>2. Bindable(ps[i])
    BY <1>4, <1>6, <1>7, <2>1 DEF Bindable
  <2>3. Bindable(Lower[es[i]])
    <3> DEFINE a == Lower[es[i]]
               c == <<<<"verify">>>>
    <3>1. IsSeq(a) /\ IsSeq(c) /\ Bindable(a \o c)
      BY <1>2, <1>3, <2>1, <2>2, LowerSeq, OneIsSeq
    <3> HIDE DEF a, c
    <3>2. Bindable(a)
      BY <3>1, BindableApart
    <3> QED BY <3>2 DEF a
  <2> DEFINE e == es[i]
  <2>4. IsPart(e) /\ IsCondition(e, ParamNames, ArgNames) /\ Bindable(Lower[e])
    BY <1>2, <2>1, <2>3
  <2> HIDE DEF e
  <2>5. \E m : Takes(e, m)
    BY <2>4, ConditionTakes
  <2> QED BY <1>2, <1>3, <2>1, <2>5 DEF e
<1>9. CodeOf(es, ps)
  <2>1. RequirePieces(ps, es)
    BY <1>8 DEF RequirePieces
  <2>2. Len(ps) = Len(es)
    BY <1>6 DEF Demanded
  <2> QED BY <1>4, <1>6, <2>1, <2>2 DEF CodeOf
<1> QED BY <1>9

\* An accepted spend meets each requirement in turn, and its signatures are used up.
AllConsumed(es, at) == Demanded(es) /\ Consumed(es, spend.witness, at, Len(es)) /\ at[Len(es)] = 0

\* An accepted spend leaves nothing of its witness on the stack.
LEMMA SpendConsumes ==
    ASSUME OnChain, RegularForm
    PROVE  IsSeq(spend.witness) /\ \E es, at : AllConsumed(es, at)
<1> DEFINE w == spend.witness
           tx == spend.tx
           code == EncodeAll(BindCode(Code, bound))
           end == <<Push(Truth(TRUE))>>
<1>1. /\ Path \in Paths /\ redeem.script = code \o end /\ Accepts(redeem.script, w, tx) /\ SignedBy(w) /\ IsCode(Code)
  BY SpendFacts DEF CompileSpendScript
<1>2. IsSeq(w)
  <2>1. IsSeq(Path.params) /\ DOMAIN Path.params = 1 .. Len(Path.params) /\ Len(Path.params) \in Nat
    <3>1. Path.params \in Declarations
      BY SpendFacts
    <3> QED BY <3>1, NamesAre
  <2>2. w = [i \in DOMAIN Path.params |-> Sig(w[i][2])]
    BY <1>1 DEF SignedBy
  <2> HIDE DEF w
  <2> DEFINE n == Len(Path.params)
  <2>3. w = [i \in 1 .. n |-> w[i]] /\ n \in Nat
    BY <2>1, <2>2
  <2> HIDE DEF n
  <2> QED BY <2>3, TableIsSeq
<1>3. PICK es : Demanded(es)
  BY <1>1, RequirementsOfBody
<1>4. PICK ps : CodeOf(es, ps)
  BY <1>3, CodeOfRequirements
<1>5. IsSeq(Code)
  BY <1>1 DEF IsCode
<1>6. IsSeq(code) /\ IsSeq(end)
  <2>1. IsSeq(BindCode(Code, bound))
    BY <1>5, BoundCode
  <2> QED BY <2>1, EncodedCode, OneIsSeq
<1>7. code = EncodeAll(BindAfter(FALSE, Code, bound))
  BY <1>5, BindsAll
<1>8. \A u \in Run(code, w, tx) : u \in Exec(FALSE, FlattenSeq(ps), w, tx)
  BY <1>4, <1>7 DEF Exec, CodeOf
<1> HIDE DEF code
<1>9. PICK s \in Run(code \o end, w, tx) : Len(s) = 1
  BY <1>1 DEF Accepts
<1>10. PICK u \in Run(code, w, tx) : s \in Run(end, u, tx)
  <2> HIDE DEF end
  <2>1. RunsOn(code, end, w, tx)
    BY <1>6, RunConcat
  <2>2. s \in Along(Run(code, w, tx), end, tx)
    BY <1>9, <2>1 DEF RunsOn
  <2> QED BY <2>2 DEF Along
<1>11. PICK at : Through(es, w, at, Len(ps), u)
  <2>1. u \in Exec(FALSE, FlattenSeq(ps), w, spend.tx)
    BY <1>8
  <2>2. IsSeqOfSeqs(ps) /\ RequirePieces(ps, es)
    BY <1>4 DEF CodeOf
  <2> HIDE DEF w
  <2> QED BY <1>2, <2>1, <2>2, RequirementsRun
<1> DEFINE k == at[Len(ps)]
<1>12. PrefixOf(u, w, k)
  BY <1>11 DEF Through
<1> HIDE DEF k
<1>13. IsSeq(u) /\ Len(u) = k
  BY <1>2, <1>12, PrefixSeq DEF PrefixOf
<1>14. k = 0
  <2> DEFINE v == Truth(TRUE)
  <2>1. s \in Run(<<Push(v)>>, u, tx)
    BY <1>10
  <2> HIDE DEF v
  <2>2. LeavesOne(s, u, v)
    BY <1>13, <2>1, RunPush
  <2>3. Len(s) = Len(u) + 1
    BY <1>13, <2>2, OnTop
  <2>4. Len(u) \in Nat
    BY <1>13, SeqProps
  <2> QED BY <1>9, <1>13, <2>3, <2>4
<1>15. AllConsumed(es, at)
  BY <1>3, <1>4, <1>11, <1>14 DEF AllConsumed, Through, CodeOf, k
<1> QED BY <1>2, <1>15

-----------------------------------------------------------------------------
(* Who must sign.                                                          *)

\* Those of all the signatures that are by keys of c.
AllBy(w, c) == {i \in DOMAIN w : Key(w[i][2]) \in KeysOf(c)}

LEMMA PrefixSigned ==
    ASSUME NEW w, IsSeq(w), NEW j \in 0 .. Len(w), NEW c, Signed(c, SubSeq(w, 1, j)), SigningRequirement(c).threshold \in Nat
    PROVE  Cardinality(AllBy(w, c)) >= SigningRequirement(c).threshold
<1> DEFINE st == SubSeq(w, 1, j)
           part == By(st, c)
           all == AllBy(w, c)
<1>1. Len(w) \in Nat /\ DOMAIN w = 1 .. Len(w)
  BY SeqProps
<1>2. IsSeq(st) /\ Len(st) = j /\ \A i \in 1 .. j : st[i] = w[i]
  BY PrefixSeq
<1> HIDE DEF st
<1>3. \A i \in 1 .. j : i \in DOMAIN w
  BY <1>1
<1>4. part \subseteq all
  BY <1>2, <1>3 DEF By, AllBy
<1>5. IsFiniteSet(all)
  <2>1. IsFiniteSet(1 .. Len(w))
    BY <1>1, FS_Interval
  <2>2. all \subseteq 1 .. Len(w)
    BY <1>1 DEF AllBy
  <2> QED BY <2>1, <2>2, FS_Subset
<1>6. Cardinality(part) \in Nat
  BY <1>2, ByIsFinite
<1>7. Cardinality(part) >= SigningRequirement(c).threshold
  BY DEF Signed, st
<1> HIDE DEF part, all
<1>8. Cardinality(part) <= Cardinality(all) /\ Cardinality(all) \in Nat
  BY <1>4, <1>5, FS_Subset, FS_CardinalityType
<1>9. Cardinality(all) >= SigningRequirement(c).threshold
  BY <1>6, <1>7, <1>8
<1> QED BY <1>9 DEF all

\* Every signature of a spend is one.
LEMMA AllAreSigs ==
    ASSUME OnChain, IsSeq(spend.witness), NEW j \in 0 .. Len(spend.witness), NEW n
    PROVE  TopSigs(SubSeq(spend.witness, 1, j), n)
<1> DEFINE w == spend.witness
           st == SubSeq(w, 1, j)
<1>1. SignedBy(w)
  BY SpendFacts
<1>2. DOMAIN w = DOMAIN Path.params /\ \A i \in DOMAIN w : w[i] = Sig(w[i][2])
  <2> DEFINE d == DOMAIN Path.params
  <2>1. w = [i \in d |-> Sig(w[i][2])]
    BY <1>1 DEF SignedBy
  <2> HIDE DEF w, d
  <2> QED BY <2>1 DEF d
<1> HIDE DEF w
<1>3. IsSeq(st) /\ Len(st) = j /\ \A i \in 1 .. j : st[i] = w[i]
  BY PrefixSeq DEF w
<1>4. \A i \in 1 .. j : i \in DOMAIN w
  BY SeqProps DEF w
<1> HIDE DEF st
<1>5. TopSigs(st, n)
  BY <1>2, <1>3, <1>4 DEF TopSigs
<1> QED BY <1>5 DEF st, w

\* A signing term that a requirement demands outright has its signatures.
LEMMA RequirementIsSigned ==
    ASSUME OnChain, RegularForm, NEW e \in ToSet(Requires(Path)), NEW c \in ToSet(Conjuncts[e]), IsSigning(c)
    PROVE  Cardinality(AllBy(spend.witness, c)) >= SigningRequirement(c).threshold
<1> DEFINE w == spend.witness
<1>1. IsSeq(w) /\ \E es, at : AllConsumed(es, at)
  BY SpendConsumes
<1>2. PICK es, at : AllConsumed(es, at)
  BY <1>1
<1>3. PICK i \in 1 .. Len(es) : e = es[i]
  BY <1>2 DEF AllConsumed, Demanded
<1> DEFINE j == at[i - 1]
           k == at[i]
           st == SubSeq(w, 1, j)
<1>4. Step(e, w, j, k)
  BY <1>2, <1>3 DEF AllConsumed, Consumed
<1> HIDE DEF j, k, w
<1>5. j \in 0 .. Len(w) /\ k \in 0 .. j /\ Takes(e, j - k)
  BY <1>4 DEF Step
<1>6. PICK v : Truthy(v) /\ Outcome(e, st, j - k, v)
  BY <1>4 DEF Step
<1> DEFINE n == j - k
<1> HIDE DEF n, st
<1>7. TopSigs(st, n)
  BY <1>1, <1>5, AllAreSigs DEF w, st
<1>8. Signed(c, st)
  <2>1. Outcome(e, st, n, v)
    BY <1>6 DEF n
  <2> QED BY <1>6, <1>7, <2>1 DEF Outcome, Demands
<1>9. SigningRequirement(c).threshold \in Nat
  <2>1. Takes(e, n)
    BY <1>5 DEF n
  <2>2. n \in Nat /\ SigningRequirement(c).threshold \in 0 .. n
    BY <2>1 DEF Takes, Listed
  <2> QED BY <2>2
<1>10. Cardinality(AllBy(w, c)) >= SigningRequirement(c).threshold
  BY <1>1, <1>5, <1>8, <1>9, PrefixSigned DEF st, w
<1> QED BY <1>10 DEF w

LEMMA SpendIsSigned == IInv => SignersAreNeeded
<1> SUFFICES ASSUME IInv, stage = "spent", RegularForm,
                    NEW e \in ToSet(Requires(Path)), NEW c \in ToSet(Conjuncts[e]), IsSigning(c)
             PROVE  Cardinality(AllBy(spend.witness, c)) >= SigningRequirement(c).threshold
  BY Zenon DEF SignersAreNeeded, AllBy, KeysOf
<1>1. OnChain
  BY DEF OnChain
<1> QED BY <1>1, RequirementIsSigned

\* Whatever a requirement demands outright of signatures, the script has checked: an
\* accepted spend carries as many signatures by the named keys as the verify or
\* multisig asks for, for every contract in the regular form, every binding,
\* transaction and witness.
THEOREM SignersSuffice == Spec => []SignersAreNeeded
<1>1. IInv => SignersAreNeeded
  BY SpendIsSigned
<1>2. Spec => []IInv
  BY InvariantHolds
<1> QED BY <1>1, <1>2, PTL

-----------------------------------------------------------------------------
(* Lists of lists.  The entries of their concatenation, each at its own place.*)

Singles(ps, xs) == Len(ps) = Len(xs) /\ \A i \in 1 .. Len(ps) : ps[i] = <<xs[i]>>

LEMMA FlattenSingles ==
    ASSUME NEW ps, IsSeqOfSeqs(ps), NEW xs, IsSeq(xs), Singles(ps, xs)
    PROVE  FlattenSeq(ps) = xs
<1> DEFINE Works(n) == \A ys, qs : IsSeq(ys) /\ Len(ys) = n /\ IsSeqOfSeqs(qs) /\ Singles(qs, ys) => FlattenSeq(qs) = ys
           T == {n \in Nat : Works(n)}
<1>1. 0 \in T
  <2>1. ASSUME NEW ys, NEW qs, IsSeq(ys), Len(ys) = 0, IsSeqOfSeqs(qs), Singles(qs, ys)
        PROVE  FlattenSeq(qs) = ys
    <3>1. qs = << >>
      BY <2>1, SeqsEmpty DEF Singles
    <3>2. ys = << >>
      BY <2>1, EmptyLen
    <3> QED BY <3>1, <3>2, FlattenEmpty
  <2> QED BY <2>1
<1>2. ASSUME NEW n \in T PROVE n + 1 \in T
  <2>1. n \in Nat /\ n + 1 \in Nat
    OBVIOUS
  <2> HIDE DEF Works
  <2>0. Works(n)
    OBVIOUS
  <2> HIDE DEF T
  <2>2. ASSUME NEW ys, NEW qs, IsSeq(ys), Len(ys) = n + 1, IsSeqOfSeqs(qs), Singles(qs, ys)
        PROVE  FlattenSeq(qs) = ys
    <3>1. PICK rs, q : IsSeqOfSeqs(rs) /\ IsSeq(q) /\ Len(rs) = n /\ qs = Append(rs, q)
      <4>1. Len(qs) = n + 1
        BY <2>2 DEF Singles
      <4> QED BY <2>1, <2>2, <4>1, SeqsFront
    <3>2. FlattenSeq(qs) = FlattenSeq(rs) \o q
      BY <3>1, FlattenAppend DEF IsSeqOfSeqs
    <3>3. (\A i \in 1 .. n : qs[i] = rs[i]) /\ qs[n + 1] = q
      <4>1. IsSeq(rs)
        BY <3>1 DEF IsSeqOfSeqs
      <4>2. /\ \A i \in 1 .. Len(rs) : Append(rs, q)[i] = rs[i]
            /\ Append(rs, q)[Len(rs) + 1] = q
        BY <4>1, AppendSeq
      <4> QED BY <3>1, <4>2
    <3>4. /\ n + 1 \in 1 .. n + 1 /\ n \in 0 .. Len(ys)
          /\ \A i \in 1 .. n : i \in 1 .. n + 1
          /\ \A i \in 1 .. n + 1 : i \in 1 .. n \/ i = n + 1
      BY <2>1, <2>2
    <3>5. \A i \in 1 .. n + 1 : qs[i] = <<ys[i]>>
      BY <2>2 DEF Singles
    <3> DEFINE zs == SubSeq(ys, 1, n)
               x == ys[n + 1]
    <3>6. IsSeq(zs) /\ Len(zs) = n /\ \A i \in 1 .. n : zs[i] = ys[i]
      BY <2>2, <3>4, PrefixSeq
    <3> HIDE DEF zs
    <3>7. Singles(rs, zs)
      BY <3>1, <3>3, <3>4, <3>5, <3>6 DEF Singles
    <3>8. FlattenSeq(rs) = zs
      BY <2>0, <3>1, <3>6, <3>7 DEF Works
    <3>9. q = <<x>>
      BY <3>3, <3>4, <3>5
    <3> HIDE DEF x
    <3> DEFINE all == zs \o <<x>>
    <3>10. LeavesOne(all, zs, x)
      BY DEF LeavesOne
    <3>11. FlattenSeq(qs) = all
      BY <3>2, <3>8, <3>9
    <3> HIDE DEF all
    <3>12. IsSeq(all) /\ Len(all) = n + 1 /\ (\A i \in 1 .. n : all[i] = zs[i]) /\ all[n + 1] = x
      BY <3>6, <3>10, OnTop
    <3>13. \A i \in 1 .. n + 1 : all[i] = ys[i]
      BY <3>4, <3>6, <3>12 DEF x
    <3>14. all = ys
      BY <2>2, <3>12, <3>13, SameSeq
    <3> QED BY <3>11, <3>14
  <2>3. Works(n + 1)
    BY <2>2 DEF Works
  <2> QED BY <2>1, <2>3 DEF T
<1>3. T \in SUBSET Nat
  OBVIOUS
<1> HIDE DEF T
<1>4. T = Nat
  BY <1>1, <1>2, <1>3, NatInductionOnSet
<1>5. Len(xs) \in T
  BY <1>4, SeqProps
<1> QED BY <1>5 DEF T

\* No element of the parts occurs at two places.
PartsApart(ps) ==
    \A i, j \in 1 .. Len(ps) : \A k \in 1 .. Len(ps[i]) : \A l \in 1 .. Len(ps[j]) :
        ps[i][k] = ps[j][l] => i = j /\ k = l

LEMMA InjectiveConcat ==
    ASSUME NEW s, NEW t, IsSeq(s), IsSeq(t), NEW all, JoinOf(s, t, all), IsInjective(all)
    PROVE  IsInjective(s) /\ IsInjective(t) /\ ToSet(s) \cap ToSet(t) = {}
<1>1. /\ IsSeq(all) /\ Len(all) = Len(s) + Len(t)
      /\ \A i \in 1 .. Len(s) : all[i] = s[i]
      /\ \A i \in 1 .. Len(t) : all[Len(s) + i] = t[i]
  BY Joins
<1>2. /\ Len(s) \in Nat /\ DOMAIN s = 1 .. Len(s) /\ Len(t) \in Nat /\ DOMAIN t = 1 .. Len(t)
      /\ DOMAIN all = 1 .. Len(all)
  BY <1>1, SeqProps
<1>3. \A a, b \in DOMAIN all : all[a] = all[b] => a = b
  BY DEF IsInjective
<1> DEFINE m == Len(s)
           n == Len(t)
<1>4. /\ m \in Nat /\ n \in Nat /\ DOMAIN all = 1 .. m + n /\ DOMAIN s = 1 .. m /\ DOMAIN t = 1 .. n
      /\ (\A i \in 1 .. m : all[i] = s[i]) /\ (\A i \in 1 .. n : all[m + i] = t[i])
  BY <1>1, <1>2
<1>5. ToSet(s) = {s[i] : i \in 1 .. m} /\ ToSet(t) = {t[i] : i \in 1 .. n}
  BY ToSetProps
<1> HIDE DEF m, n
<1>6. ASSUME NEW a \in DOMAIN s, NEW b \in DOMAIN s, s[a] = s[b] PROVE a = b
  BY <1>3, <1>4, <1>6
<1>7. ASSUME NEW a \in DOMAIN t, NEW b \in DOMAIN t, t[a] = t[b] PROVE a = b
  <2>1. a \in 1 .. n /\ b \in 1 .. n
    BY <1>4
  <2>2. m + a \in 1 .. m + n /\ m + b \in 1 .. m + n /\ (m + a = m + b => a = b)
    BY <1>4, <2>1
  <2> QED BY <1>3, <1>4, <1>7, <2>1, <2>2
<1>8. ASSUME NEW i \in 1 .. m, NEW j \in 1 .. n PROVE s[i] # t[j]
  <2>1. i \in 1 .. m + n /\ m + j \in 1 .. m + n /\ i # m + j
    BY <1>4
  <2> QED BY <1>3, <1>4, <2>1
<1>9. ToSet(s) \cap ToSet(t) = {}
  BY <1>5, <1>8
<1>10. IsInjective(s)
  BY <1>6, Zenon DEF IsInjective
<1>11. IsInjective(t)
  BY <1>7, Zenon DEF IsInjective
<1> QED BY <1>9, <1>10, <1>11

LEMMA InjectiveFlatten ==
    ASSUME NEW ps, IsSeqOfSeqs(ps), IsInjective(FlattenSeq(ps))
    PROVE  PartsApart(ps)
<1> DEFINE Works(n) == \A qs : IsSeqOfSeqs(qs) /\ Len(qs) = n /\ IsInjective(FlattenSeq(qs)) => PartsApart(qs)
           T == {n \in Nat : Works(n)}
<1>1. 0 \in T
  <2>1. ASSUME NEW qs, Len(qs) = 0 PROVE PartsApart(qs)
    BY <2>1 DEF PartsApart
  <2> QED BY <2>1
<1>2. ASSUME NEW n \in T PROVE n + 1 \in T
  <2>1. n \in Nat /\ n + 1 \in Nat
    OBVIOUS
  <2> HIDE DEF Works
  <2>0. Works(n)
    OBVIOUS
  <2> HIDE DEF T
  <2>2. ASSUME NEW qs, IsSeqOfSeqs(qs), Len(qs) = n + 1, IsInjective(FlattenSeq(qs))
        PROVE  PartsApart(qs)
    <3>1. PICK rs, q : IsSeqOfSeqs(rs) /\ IsSeq(q) /\ Len(rs) = n /\ qs = Append(rs, q)
      BY <2>1, <2>2, SeqsFront
    <3>2. FlattenSeq(qs) = FlattenSeq(rs) \o q
      BY <3>1, FlattenAppend DEF IsSeqOfSeqs
    <3>3. (\A i \in 1 .. n : qs[i] = rs[i]) /\ qs[n + 1] = q
      <4>1. IsSeq(rs)
        BY <3>1 DEF IsSeqOfSeqs
      <4>2. /\ \A i \in 1 .. Len(rs) : Append(rs, q)[i] = rs[i]
            /\ Append(rs, q)[Len(rs) + 1] = q
        BY <4>1, AppendSeq
      <4> QED BY <3>1, <4>2
    <3> DEFINE front == FlattenSeq(rs)
               all == FlattenSeq(qs)
    <3>4. IsSeq(front) /\ JoinOf(front, q, all) /\ IsInjective(all)
      BY <2>2, <3>1, <3>2, FlattenIsSeq DEF JoinOf
    <3>5. \A i \in 1 .. n : ToSet(rs[i]) \subseteq ToSet(front) /\ IsSeq(rs[i])
      BY <3>1, FlattenHas DEF IsSeqOfSeqs
    <3> HIDE DEF front, all
    <3>6. IsInjective(front) /\ IsInjective(q) /\ ToSet(front) \cap ToSet(q) = {}
      BY <3>1, <3>4, InjectiveConcat
    <3>7. PartsApart(rs)
      BY <2>0, <3>1, <3>6 DEF Works, front
    <3>8. ASSUME NEW i \in 1 .. n, NEW k \in 1 .. Len(rs[i]), NEW l \in 1 .. Len(q) PROVE rs[i][k] # q[l]
      <4>1. rs[i][k] \in ToSet(rs[i])
        BY <3>5, Members
      <4>2. q[l] \in ToSet(q)
        BY <3>1, Members
      <4> QED BY <3>5, <3>6, <4>1, <4>2
    <3>9. \A k, l \in 1 .. Len(q) : q[k] = q[l] => k = l
      <4>1. DOMAIN q = 1 .. Len(q)
        BY <3>1, SeqProps
      <4> QED BY <3>6, <4>1 DEF IsInjective
    <3>10. \A i \in 1 .. n + 1 : i \in 1 .. n \/ i = n + 1
      BY <2>1
    <3>11. ASSUME NEW i \in 1 .. n + 1, NEW j \in 1 .. n + 1, NEW k \in 1 .. Len(qs[i]), NEW l \in 1 .. Len(qs[j]),
                  qs[i][k] = qs[j][l]
           PROVE  i = j /\ k = l
      <4>1. CASE i \in 1 .. n /\ j \in 1 .. n
        <5>1. qs[i] = rs[i] /\ qs[j] = rs[j]
          BY <3>3, <4>1
        <5> QED BY <3>1, <3>7, <3>11, <4>1, <5>1 DEF PartsApart
      <4>2. CASE i \in 1 .. n /\ j = n + 1
        <5>1. qs[i] = rs[i] /\ qs[j] = q
          BY <3>3, <4>2
        <5> QED BY <3>8, <3>11, <4>2, <5>1
      <4>3. CASE i = n + 1 /\ j \in 1 .. n
        <5>1. qs[i] = q /\ qs[j] = rs[j]
          BY <3>3, <4>3
        <5> QED BY <3>8, <3>11, <4>3, <5>1
      <4>4. CASE i = n + 1 /\ j = n + 1
        <5>1. qs[i] = q /\ qs[j] = q
          BY <3>3, <4>4
        <5> QED BY <3>9, <3>11, <4>4, <5>1
      <4> QED BY <3>10, <4>1, <4>2, <4>3, <4>4
    <3> QED BY <2>2, <3>11 DEF PartsApart
  <2>3. Works(n + 1)
    BY <2>2 DEF Works
  <2> QED BY <2>1, <2>3 DEF T
<1>3. T \in SUBSET Nat
  OBVIOUS
<1> HIDE DEF T
<1>4. T = Nat
  BY <1>1, <1>2, <1>3, NatInductionOnSet
<1>5. Len(ps) \in T
  BY <1>4, SeqProps DEF IsSeqOfSeqs
<1> QED BY <1>5 DEF T

-----------------------------------------------------------------------------
(* The arguments of a path.  Each is used once, and no two requirements use the same one.*)

\* What a condition signs with are names of arguments.
ArgumentsNamed(e) ==
    IsCondition(e, ParamNames, ArgNames) => IsSeq(ArgumentsOf[e]) /\ ToSet(ArgumentsOf[e]) \subseteq ArgNames

LEMMA ArgumentsNamedStep ==
    ASSUME OnChain, NEW e \in Exprs, IsCondition(e, ParamNames, ArgNames), \A y \in Below(e) : ArgumentsNamed(y)
    PROVE  IsSeq(ArgumentsOf[e]) /\ ToSet(ArgumentsOf[e]) \subseteq ArgNames
<1> DEFINE Kids == /\ e.op \in {"not"} \cup Logical /\ ~ReadsScript(e.kids[1])
                   /\ \A i \in 1 .. Len(e.kids) :
                        e.kids[i] \in Below(e) /\ IsCondition(e.kids[i], ParamNames, ArgNames)
<1>1. IsValue(e, ArgNames) \/ SignsByName(e, ParamNames, ArgNames) \/ Kids
  BY ConditionCases
<1>2. CASE IsValue(e, ArgNames)
  <2>1. ArgumentsOf[e] = << >>
    BY <1>2, ValueHasNoArguments
  <2> QED BY <2>1, EmptyIsSeq, ToSetEmpty
<1>3. CASE SignsByName(e, ParamNames, ArgNames)
  <2>1. \/ /\ IsVerify(e) /\ Len(Args(e)) = 1
           /\ IsNameIn(Callee(e).kids[1], ArgNames) /\ IsNameIn(Args(e)[1], ParamNames)
        \/ IsMultisig(e)
    BY <1>3, Zenon DEF SignsByName, IsMultisig, NamedBy
  <2>2. CASE /\ IsVerify(e) /\ Len(Args(e)) = 1
             /\ IsNameIn(Callee(e).kids[1], ArgNames) /\ IsNameIn(Args(e)[1], ParamNames)
    <3> DEFINE x == Callee(e).kids[1].name
    <3>1. ArgumentsOf[e] = <<x>>
      BY <2>2, VerifyParts
    <3>2. x \in ArgNames
      BY <2>2 DEF IsNameIn
    <3> HIDE DEF x
    <3>3. IsSeq(<<x>>) /\ ToSet(<<x>>) = {x}
      BY OneIsSeq, ToSetOne
    <3> QED BY <3>1, <3>2, <3>3
  <2>3. CASE IsMultisig(e)
    <3> DEFINE k == Args(e)[1].n
               ks == Args(e)[2].kids
               as == Args(e)[3].kids
               list == [i \in DOMAIN as |-> as[i].name]
    <3>1. MultisigShape(e, k, ks, as)
      BY <2>3, MultisigParts
    <3> HIDE DEF k, ks, as
    <3>2. /\ IsSeq(as) /\ DOMAIN as = 1 .. Len(as) /\ Len(as) \in Nat
          /\ (\A i \in 1 .. Len(as) : IsNameIn(as[i], ArgNames)) /\ ArgumentsOf[e] = list
      BY <3>1 DEF MultisigShape
    <3>3. IsSeq(list) /\ Len(list) = Len(as) /\ \A i \in 1 .. Len(as) : list[i] \in ArgNames
      <4>1. \A i \in 1 .. Len(as) : list[i] = as[i].name
        BY <3>2
      <4>2. list = [i \in 1 .. Len(as) |-> list[i]]
        BY <3>2
      <4> HIDE DEF list
      <4> QED BY <3>2, <4>1, <4>2, TableIsSeq DEF IsNameIn
    <3> HIDE DEF list
    <3>4. ToSet(list) \subseteq ArgNames
      <4>1. \A x \in ToSet(list) : \E i \in 1 .. Len(list) : x = list[i]
        BY <3>3, Members
      <4> QED BY <3>3, <4>1
    <3> QED BY <3>2, <3>3, <3>4
  <2> QED BY <2>1, <2>2, <2>3
<1>4. CASE Kids /\ e.op = "not"
  <2>1. 1 \in 1 .. Len(e.kids) /\ Len(e.kids) = 1 /\ ~IsSigning(e)
    BY <1>4, Kinds DEF IsSigning, IsVerify, IsCallOf
  <2> DEFINE d == e.kids[1]
  <2>2. IsSeq(ArgumentsOf[d]) /\ ToSet(ArgumentsOf[d]) \subseteq ArgNames
    BY <1>4, <2>1 DEF ArgumentsNamed
  <2>3. ArgumentsOf[e] = ArgumentsOf[d]
    BY <2>1, <2>2, ArgumentsOfOne
  <2> QED BY <2>2, <2>3
<1>5. CASE Kids /\ e.op \in Logical
  <2>1. IsBinary(e) /\ ~IsSigning(e)
    BY <1>5 DEF IsSigning, IsVerify, IsCallOf, IsBinary, Logical
  <2>2. 1 \in 1 .. Len(e.kids) /\ 2 \in 1 .. Len(e.kids) /\ Len(e.kids) = 2
    BY <2>1, Kinds
  <2> DEFINE a == ArgumentsOf[e.kids[1]]
             b == ArgumentsOf[e.kids[2]]
             all == ArgumentsOf[e]
  <2>3. IsSeq(a) /\ ToSet(a) \subseteq ArgNames /\ IsSeq(b) /\ ToSet(b) \subseteq ArgNames
    BY <1>5, <2>2 DEF ArgumentsNamed
  <2>4. JoinOf(a, b, all)
    BY <2>1, <2>2, <2>3, ArgumentsOfTwo
  <2> HIDE DEF a, b, all
  <2>5. IsSeq(all) /\ ToSet(all) = ToSet(a) \cup ToSet(b)
    <3>1. IsSeq(all)
      BY <2>3, <2>4, Joins
    <3>2. ToSet(a \o b) = ToSet(a) \cup ToSet(b)
      BY <2>3, ToSetConcat
    <3> QED BY <2>4, <3>1, <3>2 DEF JoinOf
  <2> QED BY <2>3, <2>5 DEF all
<1> QED BY <1>1, <1>2, <1>3, <1>4, <1>5

LEMMA ConditionArguments ==
    ASSUME OnChain, NEW e \in Exprs, IsCondition(e, ParamNames, ArgNames)
    PROVE  IsSeq(ArgumentsOf[e]) /\ ToSet(ArgumentsOf[e]) \subseteq ArgNames
<1> DEFINE T == {x \in Exprs : ArgumentsNamed(x)}
<1>1. ASSUME NEW x \in Exprs, \A y \in Below(x) : y \in T PROVE x \in T
  <2>1. \A y \in Below(x) : ArgumentsNamed(y)
    BY <1>1
  <2>2. ArgumentsNamed(x)
    BY <2>1, ArgumentsNamedStep DEF ArgumentsNamed
  <2> QED BY <2>2
<1>2. T \subseteq Exprs
  OBVIOUS
<1> HIDE DEF T
<1>3. T = Exprs
  BY <1>1, <1>2, TreeInduction
<1> QED BY <1>3 DEF T, ArgumentsNamed

\* The requirements are the statements' expressions, in order.
LEMMA RequiresIs ==
    ASSUME Path \in Paths, RegularForm, NEW es, Demanded(es)
    PROVE  Requires(Path) = es
<1> DEFINE body == Path.body
           ps == [i \in DOMAIN body |-> IF body[i].kind = "require" THEN <<body[i].expr>> ELSE << >>]
<1>1. IsSeq(body) /\ DOMAIN body = 1 .. Len(body) /\ Len(body) \in Nat
  BY Bodies
<1>2. ASSUME NEW i \in 1 .. Len(body) PROVE body[i].kind = "require" /\ es[i] = body[i].expr
  <2>1. body[i] \in ToSet(body)
    BY <1>1, Members
  <2> QED BY <2>1 DEF RegularForm, Demanded
<1>3. IsSeq(es) /\ Len(es) = Len(body)
  BY DEF Demanded
<1>4. Requires(Path) = Concat(ps)
  BY DEF Requires
<1> HIDE DEF body
<1>5. ASSUME NEW i \in 1 .. Len(body) PROVE ps[i] = <<es[i]>>
  BY <1>1, <1>2
<1>6. ps = [i \in DOMAIN body |-> ps[i]]
  OBVIOUS
<1> HIDE DEF ps
<1>7. \A i \in 1 .. Len(body) : IsSeq(ps[i])
  BY <1>5, OneIsSeq
<1>8. IsSeqOfSeqs(ps) /\ Len(ps) = Len(body) /\ Concat(ps) = FlattenSeq(ps)
  BY <1>1, <1>6, <1>7, Pieces
<1>9. Singles(ps, es)
  BY <1>3, <1>5, <1>8 DEF Singles
<1> QED BY <1>3, <1>4, <1>8, <1>9, FlattenSingles

\* No two places of the requirements ask for the same argument.
ArgumentsApart(es) ==
    \A i, j \in 1 .. Len(es) : \A k \in 1 .. Len(ArgumentsOf[es[i]]) : \A l \in 1 .. Len(ArgumentsOf[es[j]]) :
        ArgumentsOf[es[i]][k] = ArgumentsOf[es[j]][l] => i = j /\ k = l

LEMMA UsedApart ==
    ASSUME Path \in Paths, RegularForm, ArgumentsUsedOnce, NEW es, Demanded(es),
           \A i \in 1 .. Len(es) : IsSeq(ArgumentsOf[es[i]])
    PROVE  ArgumentsApart(es)
<1> DEFINE ps == [i \in DOMAIN es |-> ArgumentsOf[es[i]]]
<1>1. IsSeq(es) /\ DOMAIN es = 1 .. Len(es) /\ Len(es) \in Nat
  BY SeqProps DEF Demanded
<1>2. UsedArguments = Concat(ps)
  BY RequiresIs DEF UsedArguments
<1>3. \A i \in 1 .. Len(es) : ps[i] = ArgumentsOf[es[i]]
  BY <1>1
<1>4. ps = [i \in DOMAIN es |-> ps[i]]
  OBVIOUS
<1> HIDE DEF ps
<1>5. IsSeqOfSeqs(ps) /\ Len(ps) = Len(es) /\ Concat(ps) = FlattenSeq(ps)
  BY <1>1, <1>3, <1>4, Pieces
<1>6. IsInjective(FlattenSeq(ps))
  BY <1>2, <1>5 DEF ArgumentsUsedOnce
<1>7. PartsApart(ps)
  BY <1>5, <1>6, InjectiveFlatten
<1> QED BY <1>3, <1>5, <1>7 DEF PartsApart, ArgumentsApart

-----------------------------------------------------------------------------
(* Arranging a witness.  Stretches of a list, taken from its end, put where a second list of
   stretches has them.                                                     *)

\* Places n, n - 1, .. 1 are taken in stretches, the i-th from at[i - 1] down to at[i] + 1.
Falls(at, n, m) ==
    /\ n \in Nat /\ m \in Nat /\ at[0] = n /\ at[m] = 0
    /\ \A i \in 1 .. m : at[i - 1] \in 0 .. n /\ at[i] \in 0 .. at[i - 1]

Within(at, i, r) == r \in at[i] + 1 .. at[i - 1]

LEMMA EveryPlace ==
    ASSUME NEW at, NEW n, NEW m, Falls(at, n, m), NEW r \in 1 .. n
    PROVE  \E i \in 1 .. m : Within(at, i, r)
<1> DEFINE T == {i \in 0 .. m : at[i] < r}
<1>1. /\ n \in Nat /\ m \in Nat /\ at[0] = n /\ at[m] = 0 /\ r \in Nat /\ 0 < r /\ r <= n
      /\ \A i \in 1 .. m : at[i - 1] \in 0 .. n /\ at[i] \in 0 .. at[i - 1]
  BY DEF Falls
<1>2. m \in T /\ T \in SUBSET Nat
  BY <1>1
<1>3. PICK i \in T : \A j \in T : i <= j
  <2> HIDE DEF T
  <2>1. T # {}
    BY <1>2
  <2> QED BY <1>2, <2>1, LeastOf
<1>4. i \in 0 .. m /\ at[i] < r
  BY <1>3
<1>5. i # 0
  BY <1>1, <1>4
<1>6. i \in 1 .. m /\ i - 1 \in 0 .. m /\ i \in Int /\ i - 1 < i
  BY <1>1, <1>4, <1>5
<1>7. i - 1 \notin T
  BY <1>3, <1>6
<1>8. ~(at[i - 1] < r)
  BY <1>6, <1>7
<1>9. at[i - 1] \in Nat /\ at[i] \in Nat
  BY <1>1, <1>6
<1>10. Within(at, i, r)
  BY <1>1, <1>4, <1>8, <1>9 DEF Within
<1> QED BY <1>6, <1>10

\* Place r holds what the q-th name stands for.
Holds(at, ps, names, r, q) == \E i \in 1 .. Len(ps) : Within(at, i, r) /\ names[q] = ps[i][r - at[i]]

Arranged(p, at, ps, names, n) ==
    /\ p \in Bijection(1 .. n, 1 .. n)
    /\ \A i \in 1 .. Len(ps) :
        /\ at[i - 1] - at[i] = Len(ps[i])
        /\ \A k \in 1 .. Len(ps[i]) : \E q \in 1 .. n : names[q] = ps[i][k] /\ p[q] = at[i] + k

LEMMA Inverted ==
    ASSUME NEW n \in Nat, NEW g \in Injection(1 .. n, 1 .. n)
    PROVE  \E p \in Bijection(1 .. n, 1 .. n) : \A q \in 1 .. n : g[p[q]] = q
<1> DEFINE S == 1 .. n
<1>1. IsFiniteSet(S)
  BY FS_Interval
<1> HIDE DEF S
<1>2. g \in Injection(S, S)
  BY DEF S
<1>3. g \in Surjection(S, S)
  BY <1>1, <1>2, FS_Injection
<1>4. g \in [S -> S] /\ (\A a, b \in S : g[a] = g[b] => a = b) /\ \A t \in S : \E s \in S : g[s] = t
  BY <1>2, <1>3 DEF Injection, Surjection, IsInjective
<1> DEFINE p == [q \in S |-> CHOOSE r \in S : g[r] = q]
<1>5. \A q \in S : p[q] \in S /\ g[p[q]] = q
  BY <1>4
<1>6. p \in [S -> S]
  <2>1. DOMAIN p = S /\ p = [q \in S |-> p[q]]
    OBVIOUS
  <2> HIDE DEF p
  <2> QED BY <1>5, <2>1
<1> HIDE DEF p
<1>7. IsInjective(p)
  <2>1. DOMAIN p = S
    BY <1>6
  <2>2. \A a, b \in S : p[a] = p[b] => a = b
    BY <1>5
  <2> QED BY <2>1, <2>2 DEF IsInjective
<1>8. \A t \in S : \E s \in S : p[s] = t
  <2> SUFFICES ASSUME NEW t \in S PROVE \E s \in S : p[s] = t
    OBVIOUS
  <2> DEFINE s == g[t]
  <2>1. s \in S
    BY <1>4
  <2>2. p[s] \in S /\ g[p[s]] = s
    BY <1>5, <2>1
  <2>3. p[s] = t
    BY <1>4, <2>2
  <2> QED BY <2>1, <2>3
<1>9. p \in Bijection(S, S)
  BY <1>6, <1>7, <1>8 DEF Bijection, Injection, Surjection
<1> QED BY <1>5, <1>9 DEF S

\* A permutation hands each list of names, entry by entry, its own stretch of a witness.
LEMMA Arranging ==
    ASSUME NEW n, NEW ps, NEW at, Falls(at, n, Len(ps)), PartsApart(ps),
           \A i \in 1 .. Len(ps) : Len(ps[i]) \in Nat /\ at[i - 1] - at[i] <= Len(ps[i]),
           NEW names, \A a, b \in 1 .. n : names[a] = names[b] => a = b,
           \A i \in 1 .. Len(ps) : \A k \in 1 .. Len(ps[i]) : \E q \in 1 .. n : names[q] = ps[i][k]
    PROVE  \E p : Arranged(p, at, ps, names, n)
<1> DEFINE S == 1 .. n
           g == [r \in S |-> CHOOSE q \in S : Holds(at, ps, names, r, q)]
<1>0. n \in Nat /\ \A i \in 1 .. Len(ps) : at[i - 1] \in Nat /\ at[i] \in Nat /\ at[i] <= at[i - 1]
  BY DEF Falls
<1>1. ASSUME NEW i \in 1 .. Len(ps), NEW r, Within(at, i, r)
      PROVE  r - at[i] \in 1 .. Len(ps[i]) /\ r \in Int /\ r = at[i] + (r - at[i])
  <2> DEFINE x == at[i]
             y == at[i - 1]
             k == Len(ps[i])
  <2>1. x \in Nat /\ y \in Nat /\ k \in Nat /\ y - x <= k
    BY <1>0
  <2>2. r \in x + 1 .. y
    BY <1>1 DEF Within
  <2> HIDE DEF x, y, k
  <2>3. r - x \in 1 .. k /\ r \in Int /\ r = x + (r - x)
    BY <2>1, <2>2
  <2> QED BY <2>3 DEF x, k
<1>2. ASSUME NEW r \in S PROVE \E q \in S : Holds(at, ps, names, r, q)
  <2>1. PICK i \in 1 .. Len(ps) : Within(at, i, r)
    BY EveryPlace
  <2>2. r - at[i] \in 1 .. Len(ps[i])
    BY <1>1, <2>1
  <2>3. PICK q \in S : names[q] = ps[i][r - at[i]]
    BY <2>2
  <2> QED BY <2>1, <2>3 DEF Holds
<1>3. \A r \in S : g[r] \in S /\ Holds(at, ps, names, r, g[r])
  BY <1>2
<1>4. ASSUME NEW i \in 1 .. Len(ps), NEW k \in 1 .. Len(ps[i]), NEW r, NEW q, Holds(at, ps, names, r, q), names[q] = ps[i][k]
      PROVE  r = at[i] + k /\ Within(at, i, r)
  <2>1. PICK j \in 1 .. Len(ps) : Within(at, j, r) /\ names[q] = ps[j][r - at[j]]
    BY <1>4 DEF Holds
  <2> DEFINE l == r - at[j]
  <2>2. l \in 1 .. Len(ps[j]) /\ r = at[j] + l
    BY <1>1, <2>1
  <2> HIDE DEF l
  <2>3. ps[i][k] = ps[j][l]
    BY <1>4, <2>1 DEF l
  <2>4. i = j /\ k = l
    BY <2>2, <2>3 DEF PartsApart
  <2> QED BY <2>1, <2>2, <2>4
<1>5. g = [r \in S |-> g[r]]
  OBVIOUS
<1> HIDE DEF g, S
<1>6. ASSUME NEW a \in S, NEW b \in S, g[a] = g[b] PROVE a = b
  <2>1. Holds(at, ps, names, a, g[a]) /\ Holds(at, ps, names, b, g[a])
    BY <1>3, <1>6
  <2>2. PICK i \in 1 .. Len(ps) : Within(at, i, a) /\ names[g[a]] = ps[i][a - at[i]]
    BY <2>1 DEF Holds
  <2> DEFINE k == a - at[i]
  <2>3. k \in 1 .. Len(ps[i]) /\ a = at[i] + k
    BY <1>1, <2>2
  <2> HIDE DEF k
  <2>4. names[g[a]] = ps[i][k]
    BY <2>2 DEF k
  <2>5. b = at[i] + k
    BY <1>4, <2>1, <2>3, <2>4
  <2> QED BY <2>3, <2>5
<1>7. g \in Injection(S, S)
  <2>1. g \in [S -> S]
    BY <1>3, <1>5
  <2>2. DOMAIN g = S
    BY <2>1
  <2>3. IsInjective(g)
    BY <1>6, <2>2, Zenon DEF IsInjective
  <2> QED BY <2>1, <2>3, Zenon DEF Injection
<1>8. PICK p \in Bijection(S, S) : \A q \in S : g[p[q]] = q
  BY <1>0, <1>7, Inverted DEF S
<1>9. p \in [S -> S]
  BY DEF Bijection, Injection
<1>10. ASSUME NEW i \in 1 .. Len(ps), NEW k \in 1 .. Len(ps[i])
       PROVE  (\E q \in S : names[q] = ps[i][k] /\ p[q] = at[i] + k) /\ Within(at, i, at[i] + k)
  <2>1. PICK q \in S : names[q] = ps[i][k]
    BY DEF S
  <2> DEFINE r == p[q]
  <2>2. r \in S /\ g[r] = q
    BY <1>8, <1>9
  <2> HIDE DEF r
  <2>3. Holds(at, ps, names, r, q)
    BY <1>3, <2>2
  <2>4. r = at[i] + k /\ Within(at, i, r)
    BY <1>4, <2>1, <2>3
  <2> QED BY <2>1, <2>4 DEF r
<1>11. ASSUME NEW i \in 1 .. Len(ps) PROVE at[i - 1] - at[i] = Len(ps[i])
  <2> DEFINE k == Len(ps[i])
             a == at[i]
             b == at[i - 1]
  <2>1. k \in Nat /\ a \in Nat /\ b \in Nat /\ a <= b /\ b - a <= k
    BY <1>0
  <2>2. CASE k = 0
    <3> HIDE DEF k, a, b
    <3>1. b - a = k
      BY <2>1, <2>2
    <3> QED BY <3>1 DEF a, b, k
  <2>3. CASE k # 0
    <3>1. k \in 1 .. Len(ps[i])
      BY <2>1, <2>3
    <3>2. Within(at, i, a + k)
      BY <1>10, <3>1
    <3>3. a + k \in a + 1 .. b
      BY <3>2 DEF Within
    <3> HIDE DEF k, a, b
    <3>4. b - a = k
      BY <2>1, <3>3
    <3> QED BY <3>4 DEF a, b, k
  <2> QED BY <2>2, <2>3
<1>12. Arranged(p, at, ps, names, n)
  BY <1>8, <1>10, <1>11 DEF Arranged, S
<1> QED BY <1>12

-----------------------------------------------------------------------------
(* The arrangement of an accepted spend.  Each argument is given the signature the script took for it.*)

\* A list of what each requirement signs with.
Lists(es, ps) ==
    /\ Len(ps) = Len(es)
    /\ \A i \in 1 .. Len(es) :
        /\ ps[i] = ArgumentsOf[es[i]] /\ IsSeq(ps[i]) /\ ToSet(ps[i]) \subseteq ArgNames
        /\ es[i] \in Exprs

LEMMA ListsOf ==
    ASSUME OnChain, RegularForm, NEW es, Demanded(es)
    PROVE  \E ps : Lists(es, ps)
<1> DEFINE ps == [i \in 1 .. Len(es) |-> ArgumentsOf[es[i]]]
<1>0. Path \in Paths
  BY SpendFacts
<1>1. Len(es) \in Nat
  BY SeqProps DEF Demanded
<1>2. ASSUME NEW i \in 1 .. Len(es)
      PROVE  es[i] \in Exprs /\ IsSeq(ArgumentsOf[es[i]]) /\ ToSet(ArgumentsOf[es[i]]) \subseteq ArgNames
  <2> DEFINE e == es[i]
  <2>1. e \in ToSet(Requires(Path))
    BY DEF Demanded
  <2>2. e \in Exprs /\ IsCondition(e, ParamNames, ArgNames)
    BY <1>0, <2>1, RequiredAre DEF RegularForm
  <2> QED BY <2>2, ConditionArguments
<1>3. Len(ps) = Len(es)
  BY <1>1, TableIsSeq
<1>4. \A i \in 1 .. Len(es) : ps[i] = ArgumentsOf[es[i]]
  OBVIOUS
<1> HIDE DEF ps
<1>5. Lists(es, ps)
  BY <1>2, <1>3, <1>4 DEF Lists
<1> QED BY <1>5

LEMMA WitnessIs ==
    ASSUME OnChain
    PROVE  /\ Len(spend.witness) = Len(Path.params) /\ DOMAIN spend.witness = 1 .. Len(Path.params)
           /\ Len(Path.params) \in Nat /\ IsSeq(spend.witness)
<1> DEFINE w == spend.witness
           n == Len(Path.params)
<1>1. n \in Nat /\ DOMAIN Path.params = 1 .. n
  <2>1. Path.params \in Declarations
    BY SpendFacts
  <2> QED BY <2>1, NamesAre
<1>2. w = [i \in DOMAIN Path.params |-> Sig(w[i][2])]
  <2>1. SignedBy(w)
    BY SpendFacts
  <2> QED BY <2>1 DEF SignedBy
<1> HIDE DEF w, n
<1>3. w = [i \in 1 .. n |-> w[i]]
  BY <1>1, <1>2
<1>4. Len(w) = n /\ IsSeq(w)
  BY <1>1, <1>3, TableIsSeq
<1>5. DOMAIN w = 1 .. n
  BY <1>4, SeqProps
<1> QED BY <1>1, <1>4, <1>5 DEF w, n

LEMMA ConsumedFalls ==
    ASSUME OnChain, MultisigsListEnough, NEW es, NEW at, AllConsumed(es, at), NEW ps, Lists(es, ps)
    PROVE  /\ Falls(at, Len(Path.params), Len(ps))
           /\ \A i \in 1 .. Len(ps) : Len(ps[i]) \in Nat /\ at[i - 1] - at[i] <= Len(ps[i])
<1> DEFINE w == spend.witness
           n == Len(Path.params)
           m == Len(ps)
<1>1. Len(w) = n /\ n \in Nat
  BY WitnessIs
<1>2. m = Len(es) /\ m \in Nat
  BY SeqProps DEF Lists, AllConsumed, Demanded
<1> HIDE DEF w, n, m
<1>3. at[0] = n /\ at[m] = 0 /\ \A i \in 1 .. m : Step(es[i], w, at[i - 1], at[i])
  BY <1>1, <1>2 DEF AllConsumed, Consumed, w
<1>4. \A i \in 1 .. m : at[i - 1] \in 0 .. n /\ at[i] \in 0 .. at[i - 1] /\ Takes(es[i], at[i - 1] - at[i])
  BY <1>1, <1>3 DEF Step
<1>5. Falls(at, n, m)
  BY <1>1, <1>2, <1>3, <1>4 DEF Falls
<1>6. ASSUME NEW i \in 1 .. m PROVE Len(ps[i]) \in Nat /\ at[i - 1] - at[i] <= Len(ps[i])
  <2>1. ps[i] = ArgumentsOf[es[i]] /\ IsSeq(ps[i])
    BY <1>2 DEF Lists
  <2>2. Listed(es[i], at[i - 1] - at[i])
    BY <1>4 DEF Takes
  <2>3. Len(ps[i]) \in Nat
    BY <2>1, SeqProps
  <2> QED BY <2>1, <2>2, <2>3 DEF Listed
<1> QED BY <1>5, <1>6 DEF n, m

\* The signatures in the order of the arguments that ask for them.
Reordered(w, p) == [i \in DOMAIN w |-> w[p[i]]]

AllGiven(es, at, w) ==
    \A i \in 1 .. Len(es) :
        Given(es[i], Environment(spend.tx, w, spend.now), SubSeq(spend.witness, 1, at[i - 1]), at[i - 1] - at[i])

LEMMA GivenInOrder ==
    ASSUME OnChain, NEW es, NEW at, NEW ps, Lists(es, ps), Falls(at, Len(Path.params), Len(ps)),
           NEW p, Arranged(p, at, ps, NamesOf(Path.params), Len(Path.params))
    PROVE  AllGiven(es, at, Reordered(spend.witness, p))
<1> DEFINE w == spend.witness
           n == Len(Path.params)
           names == NamesOf(Path.params)
           x == Reordered(w, p)
           env == Environment(spend.tx, x, spend.now)
<1>0. \A q \in 1 .. n : names[q] = Path.params[q].name
  <2>1. Path.params \in Declarations
    BY SpendFacts
  <2> QED BY <2>1, NamesAre
<1>1. Len(w) = n /\ DOMAIN w = 1 .. n /\ n \in Nat
  BY WitnessIs
<1>2. \A q \in 1 .. n : x[q] = w[p[q]]
  BY <1>1 DEF Reordered
<1>3. \A q \in 1 .. n : names[q] \in DOMAIN env.values /\ env.values[names[q]] = x[q]
  BY <1>0, EnvironmentGives
<1>4. /\ Falls(at, n, Len(ps))
      /\ \A i \in 1 .. Len(ps) :
            /\ at[i - 1] - at[i] = Len(ps[i])
            /\ \A k \in 1 .. Len(ps[i]) : \E q \in 1 .. n : names[q] = ps[i][k] /\ p[q] = at[i] + k
  BY DEF Arranged
<1>5. IsSeq(w)
  BY WitnessIs
<1> HIDE DEF w, n, names, x, env
<1>6. ASSUME NEW i \in 1 .. Len(es)
      PROVE  Given(es[i], env, SubSeq(w, 1, at[i - 1]), at[i - 1] - at[i])
  <2> DEFINE j == at[i - 1]
             b == at[i]
             m == Len(ps[i])
             st == SubSeq(w, 1, j)
  <2>1. i \in 1 .. Len(ps) /\ ps[i] = ArgumentsOf[es[i]]
    BY DEF Lists
  <2>2. j \in 0 .. n /\ b \in 0 .. j /\ j - b = m /\ m \in Nat
    <3>1. j \in 0 .. n /\ b \in 0 .. j
      BY <1>4, <2>1 DEF Falls
    <3>2. j - b = m
      BY <1>4, <2>1
    <3> HIDE DEF j, b, m
    <3> QED BY <1>1, <3>1, <3>2
  <2>3. \A k \in 1 .. m : \E q \in 1 .. n : names[q] = ps[i][k] /\ p[q] = b + k
    BY <1>4, <2>1
  <2> HIDE DEF j, b, m
  <2>4. Len(st) = j /\ \A k \in 1 .. j : st[k] = w[k]
    BY <1>1, <1>5, <2>2, PrefixSeq
  <2> HIDE DEF st
  <2>5. ASSUME NEW k \in 1 .. m
        PROVE  ps[i][k] \in DOMAIN env.values /\ env.values[ps[i][k]] = st[Len(st) - m + k]
    <3>1. PICK q \in 1 .. n : names[q] = ps[i][k] /\ p[q] = b + k
      BY <2>3
    <3>2. Len(st) - m + k = b + k /\ b + k \in 1 .. j
      BY <1>1, <2>2, <2>4
    <3>3. ps[i][k] \in DOMAIN env.values /\ env.values[ps[i][k]] = x[q]
      BY <1>3, <3>1
    <3>4. x[q] = w[b + k]
      BY <1>2, <3>1
    <3>5. st[Len(st) - m + k] = w[b + k]
      BY <2>4, <3>2
    <3> QED BY <3>3, <3>4, <3>5
  <2>6. m = Len(ArgumentsOf[es[i]])
    BY <2>1 DEF m
  <2>7. Given(es[i], env, st, m)
    BY <2>1, <2>5, <2>6 DEF Given
  <2> QED BY <2>2, <2>7 DEF st, j, b
<1>7. AllGiven(es, at, x)
  BY <1>6 DEF AllGiven, env, w
<1> QED BY <1>7 DEF x, w

\* Some order of the witness gives each argument what the script took for it.
LEMMA SpendIsArranged ==
    ASSUME OnChain, RegularForm, ArgumentsUsedOnce, MultisigsListEnough, NEW es, NEW at, AllConsumed(es, at)
    PROVE  \E x \in Arrangements(spend.witness) : AllGiven(es, at, x)
<1> DEFINE w == spend.witness
           n == Len(Path.params)
           names == NamesOf(Path.params)
<1>0. Demanded(es) /\ Path \in Paths
  BY SpendFacts DEF AllConsumed
<1>1. PICK ps : Lists(es, ps)
  BY <1>0, ListsOf
<1>2. /\ Falls(at, n, Len(ps))
      /\ \A i \in 1 .. Len(ps) : Len(ps[i]) \in Nat /\ at[i - 1] - at[i] <= Len(ps[i])
  BY <1>1, ConsumedFalls
<1>3. PartsApart(ps)
  <2>1. ArgumentsApart(es)
    BY <1>0, <1>1, UsedApart DEF Lists
  <2>2. Len(ps) = Len(es) /\ \A i \in 1 .. Len(es) : ps[i] = ArgumentsOf[es[i]]
    BY <1>1 DEF Lists
  <2>3. ASSUME NEW i \in 1 .. Len(ps), NEW j \in 1 .. Len(ps), NEW k \in 1 .. Len(ps[i]), NEW l \in 1 .. Len(ps[j]),
               ps[i][k] = ps[j][l]
        PROVE  i = j /\ k = l
    <3>1. ps[i] = ArgumentsOf[es[i]] /\ ps[j] = ArgumentsOf[es[j]] /\ i \in 1 .. Len(es) /\ j \in 1 .. Len(es)
      BY <2>2
    <3> QED BY <2>1, <2>3, <3>1 DEF ArgumentsApart
  <2> QED BY <2>3 DEF PartsApart
<1>4. IsSeq(names) /\ DOMAIN names = 1 .. n /\ Len(names) = n
  <2>1. Path.params \in Declarations
    BY SpendFacts
  <2> QED BY <2>1, NamesAre
<1>5. \A a, b \in 1 .. n : names[a] = names[b] => a = b
  <2>1. IsInjective(names)
    BY NamesApart
  <2> HIDE DEF names, n
  <2> QED BY <1>4, <2>1, Zenon DEF IsInjective
<1>6. ASSUME NEW i \in 1 .. Len(ps), NEW k \in 1 .. Len(ps[i]) PROVE \E q \in 1 .. n : names[q] = ps[i][k]
  <2> DEFINE s == ps[i]
  <2>1. IsSeq(s) /\ ToSet(s) \subseteq ArgNames
    BY <1>1 DEF Lists
  <2>2. s[k] \in ToSet(s)
    <3> HIDE DEF s
    <3>1. k \in 1 .. Len(s)
      BY DEF s
    <3> QED BY <2>1, <3>1, Members
  <2> HIDE DEF s
  <2>3. s[k] \in ToSet(names)
    BY <2>1, <2>2 DEF ArgNames
  <2> HIDE DEF names
  <2>4. PICK q \in 1 .. Len(names) : s[k] = names[q]
    BY <1>4, <2>3, Members
  <2> QED BY <1>4, <2>4 DEF s
<1>7. \E p : Arranged(p, at, ps, names, n)
  <2> HIDE DEF names, n
  <2> QED BY <1>2, <1>3, <1>5, <1>6, Arranging
<1>8. PICK p : Arranged(p, at, ps, names, n)
  BY <1>7
<1>9. AllGiven(es, at, Reordered(w, p))
  BY <1>1, <1>2, <1>8, GivenInOrder
<1>10. Reordered(w, p) \in Arrangements(w)
  <2>1. p \in Bijection(1 .. n, 1 .. n) /\ DOMAIN w = 1 .. n
    BY <1>8, WitnessIs DEF Arranged
  <2> HIDE DEF w, n
  <2>2. p \in Bijection(DOMAIN w, DOMAIN w)
    BY <2>1
  <2> QED BY <2>2, Zenon DEF Arrangements, Reordered
<1> QED BY <1>9, <1>10

-----------------------------------------------------------------------------
(* Types of the requirements.  The checker has given every requirement of an accepted contract type Bool.*)

PlacesOf(p)          == 1 .. Len(p[1]) + 1
PlaceOf(p, i)        == i
ContextOf(p, i, before) == ContextFrom(p[1], p[2], i, before)

Scoping == INSTANCE Recursion WITH Domain <- PlacesOf, Size <- PlaceOf, From <- ContextOf

ContextsAre(body, ctx, before) ==
    before = [i \in 1 .. Len(body) + 1 |-> ContextFrom(body, ctx, i, before)]

Checked(e, ctx) == WellTyped(e, ctx) /\ TypeOf(e, ctx) = "Bool"

TypedIn(body, i, ctx) == body[i].kind = "require" => Checked(body[i].expr, ctx)

LEMMA ContextsUnfold ==
    ASSUME NEW body, NEW ctx, Len(body) \in Nat, StatementsCheck(body, ctx)
    PROVE  \E before : ContextsAre(body, ctx, before) /\ \A i \in DOMAIN body : TypedIn(body, i, before[i])
<1> DEFINE p == <<body, ctx>>
<1>1. p[1] = body /\ p[2] = ctx
  OBVIOUS
<1> HIDE DEF p
<1>2. Scoping!UsesSmaller(p)
  <2>1. ASSUME NEW i \in 1 .. Len(body) + 1, NEW f, NEW g,
               \A j \in 1 .. Len(body) + 1 : j < i => f[j] = g[j]
        PROVE  ContextFrom(body, ctx, i, f) = ContextFrom(body, ctx, i, g)
    <3>1. CASE i = 1
      BY <3>1 DEF ContextFrom
    <3>2. CASE i # 1
      <4>1. f[i - 1] = g[i - 1]
        BY <2>1, <3>2
      <4> QED BY <4>1, Zenon DEF ContextFrom
    <3> QED BY <3>1, <3>2
  <2> QED BY <1>1, <2>1 DEF Scoping!UsesSmaller, ContextOf, PlacesOf, PlaceOf
<1>3. Scoping!Measured(p, Len(body) + 1)
  BY <1>1 DEF Scoping!Measured, PlacesOf, PlaceOf
<1>4. \E f : Scoping!Defines(p, f)
  <2>1. Len(body) + 1 \in Nat
    OBVIOUS
  <2>2. Scoping!Induction
    BY NatInductionOnSet DEF Scoping!Induction
  <2> QED BY <1>2, <1>3, <2>1, <2>2, Scoping!Exists
<1>5. \E f : ContextsAre(body, ctx, f)
  BY <1>1, <1>4 DEF Scoping!Defines, ContextsAre, ContextOf, PlacesOf
<1> DEFINE before == CHOOSE before : before = [i \in 1 .. Len(body) + 1 |-> ContextFrom(body, ctx, i, before)]
<1>6. ContextsAre(body, ctx, before)
  BY <1>5, Zenon DEF ContextsAre
<1>7. \A i \in DOMAIN body : TypedIn(body, i, before[i])
  BY Zenon DEF StatementsCheck, TypedIn, Checked
<1> HIDE DEF before
<1> QED BY <1>6, <1>7

\* Without named values, every requirement is checked in the scope of the parameters.
LEMMA NoLets ==
    ASSUME NEW body, NEW ctx, IsSeq(body), StatementsCheck(body, ctx), \A i \in 1 .. Len(body) : body[i].kind = "require"
    PROVE  \A i \in 1 .. Len(body) : Checked(body[i].expr, ctx)
<1>1. Len(body) \in Nat /\ DOMAIN body = 1 .. Len(body)
  BY SeqProps
<1>2. PICK before : ContextsAre(body, ctx, before) /\ \A i \in DOMAIN body : TypedIn(body, i, before[i])
  BY <1>1, ContextsUnfold
<1>3. \A i \in 1 .. Len(body) + 1 : before[i] = ContextFrom(body, ctx, i, before)
  BY <1>2, Zenon DEF ContextsAre
<1> DEFINE T == {n \in Nat : n < Len(body) + 1 => before[n + 1] = ctx}
<1>4. 0 \in T
  <2>1. 1 \in 1 .. Len(body) + 1
    BY <1>1
  <2>2. before[1] = ctx
    BY <1>3, <2>1 DEF ContextFrom
  <2> QED BY <2>2
<1>5. ASSUME NEW n \in T PROVE n + 1 \in T
  <2>1. CASE n + 1 < Len(body) + 1
    <3> DEFINE i == n + 2
    <3>1. n \in Nat /\ i \in 1 .. Len(body) + 1 /\ i # 1 /\ i - 1 = n + 1 /\ n + 1 \in 1 .. Len(body) /\ n < Len(body) + 1
      BY <1>1, <2>1
    <3>2. before[n + 1] = ctx
      BY <3>1
    <3>3. body[n + 1].kind # "let"
      BY <3>1
    <3> HIDE DEF i, T
    <3>4. before[i] = ContextFrom(body, ctx, i, before)
      BY <1>3, <3>1
    <3>5. ContextFrom(body, ctx, i, before) = before[i - 1]
      <4> DEFINE s == body[i - 1]
      <4>1. s.kind # "let" /\ i # 1
        BY <3>1, <3>3
      <4> QED BY <4>1, Zenon DEF ContextFrom
    <3>6. before[i] = ctx
      BY <3>1, <3>2, <3>4, <3>5
    <3> QED BY <3>1, <3>6 DEF T, i
  <2>2. CASE ~(n + 1 < Len(body) + 1)
    BY <2>2
  <2> QED BY <2>1, <2>2
<1>6. T \in SUBSET Nat
  OBVIOUS
<1> HIDE DEF T
<1>7. T = Nat
  BY <1>4, <1>5, <1>6, NatInductionOnSet
<1> SUFFICES ASSUME NEW i \in 1 .. Len(body) PROVE Checked(body[i].expr, ctx)
  OBVIOUS
<1>8. before[i] = ctx
  <2> DEFINE n == i - 1
  <2>1. n \in Nat /\ n < Len(body) + 1 /\ n + 1 = i
    BY <1>1
  <2>2. n \in T
    BY <1>7, <2>1
  <2> HIDE DEF n
  <2> QED BY <2>1, <2>2 DEF T
<1>9. TypedIn(body, i, ctx)
  BY <1>1, <1>2, <1>8
<1> QED BY <1>9 DEF TypedIn

\* The context of a spend's statements.
SpendContext(ctx) == ctx.scope = ScopeOf(contract.params \o Path.params)

\* What the checker accepted: every requirement well typed, of type Bool.
LEMMA RequirementsAreChecked ==
    ASSUME OnChain, RegularForm
    PROVE  \E ctx : SpendContext(ctx) /\ \A e \in ToSet(Requires(Path)) : Checked(e, ctx)
<1> DEFINE body == Path.body
           ctx == [scope |-> ScopeOf(contract.params \o Path.params), spends |-> {s.name : s \in ToSet(contract.spends)}]
<1>1. Path \in Paths /\ SpendChecks(contract, Path)
  BY SpendFacts
<1>2. IsSeq(body) /\ DOMAIN body = 1 .. Len(body) /\ Len(body) \in Nat
  BY <1>1, Bodies
<1>3. StatementsCheck(body, ctx)
  BY <1>1, Zenon DEF SpendChecks
<1>4. \A i \in 1 .. Len(body) : body[i].kind = "require"
  BY <1>2, Members DEF RegularForm
<1>5. SpendContext(ctx)
  BY DEF SpendContext
<1> HIDE DEF ctx
<1>6. \A i \in 1 .. Len(body) : Checked(body[i].expr, ctx)
  <2> HIDE DEF body
  <2> QED BY <1>2, <1>3, <1>4, NoLets
<1>7. ASSUME NEW e \in ToSet(Requires(Path)) PROVE Checked(e, ctx)
  <2>1. \E i \in 1 .. Len(body) : e = body[i].expr
    BY <1>1, <1>2, RequiredAre
  <2> QED BY <1>6, <2>1
<1> QED BY <1>5, <1>7

LEMMA RequirementsAreBool ==
    ASSUME OnChain, RegularForm
    PROVE  \E ctx : SpendContext(ctx) /\ \A e \in ToSet(Requires(Path)) : TypeOf(e, ctx) = "Bool"
BY RequirementsAreChecked DEF Checked

-----------------------------------------------------------------------------
(* Truth values.  What the source may mean by an expression of type Bool.  *)

IsTruth(m) == m \in {Undefined, Num(0), Num(1)}

LEMMA TruthIsTruth == \A b : IsTruth(Truth(b))
BY DEF Truth, IsTruth

\* A connective or a comparison means a truth value or nothing.
LEMMA BinaryIsTruth ==
    ASSUME NEW op \in Logical \cup Comparisons, NEW v, NEW w
    PROVE  IsTruth(BinaryMeaning(op, v, w))
<1>1. op \in {"and", "or", "==", "!=", ">", ">=", "<", "<="}
  BY DEF Logical, Comparisons
<1>2. IsTruth(Undefined)
  BY DEF IsTruth
<1>3. CASE Undefined \in {v, w}
  BY <1>2, <1>3, Zenon DEF BinaryMeaning
<1>4. CASE Undefined \notin {v, w} /\ op = "=="
  <2>1. BinaryMeaning(op, v, w) = Truth(SameValue(v, w))
    BY <1>4, Zenon DEF BinaryMeaning
  <2> QED BY <2>1, TruthIsTruth, Zenon
<1>5. CASE Undefined \notin {v, w} /\ op = "!="
  <2>1. BinaryMeaning(op, v, w) = Truth(~SameValue(v, w))
    BY <1>5, "!=" # "==", Zenon DEF BinaryMeaning
  <2> QED BY <2>1, TruthIsTruth, Zenon
<1>6. CASE Undefined \notin {v, w} /\ op \notin {"==", "!="}
  <2>1. BinaryMeaning(op, v, w) = IF IsNum(v) /\ IsNum(w) THEN NumericResult(op, v[2], w[2]) ELSE Undefined
    <3>1. op # "==" /\ op # "!="
      BY <1>6
    <3> QED BY <1>6, <3>1, Zenon DEF BinaryMeaning
  <2> DEFINE m == v[2]
             n == w[2]
  <2>2. IsTruth(NumericResult(op, m, n))
    <3> HIDE DEF m, n
    <3>1. op \in {"and", "or", ">", ">=", "<", "<="}
      BY <1>1, <1>6
    <3>2. CASE op = "and"
      <4>1. NumericResult(op, m, n) = Truth(m # 0 /\ n # 0)
        BY <3>2 DEF NumericResult
      <4> QED BY <4>1, TruthIsTruth, Zenon
    <3>3. CASE op = "or"
      <4>1. NumericResult(op, m, n) = Truth(m # 0 \/ n # 0)
        BY <3>3 DEF NumericResult
      <4> QED BY <4>1, TruthIsTruth, Zenon
    <3>4. CASE op = ">"
      <4>1. NumericResult(op, m, n) = Truth(m > n)
        BY <3>4 DEF NumericResult
      <4> QED BY <4>1, TruthIsTruth, Zenon
    <3>5. CASE op = ">="
      <4>1. NumericResult(op, m, n) = Truth(m >= n)
        BY <3>5 DEF NumericResult
      <4> QED BY <4>1, TruthIsTruth, Zenon
    <3>6. CASE op = "<"
      <4>1. NumericResult(op, m, n) = Truth(m < n)
        BY <3>6 DEF NumericResult
      <4> QED BY <4>1, TruthIsTruth, Zenon
    <3>7. CASE op = "<="
      <4>1. NumericResult(op, m, n) = Truth(m <= n)
        BY <3>7 DEF NumericResult
      <4> QED BY <4>1, TruthIsTruth, Zenon
    <3> QED BY <3>1, <3>2, <3>3, <3>4, <3>5, <3>6, <3>7
  <2> QED BY <1>2, <2>1, <2>2
<1> QED BY <1>3, <1>4, <1>5, <1>6

LEMMA TypeCases ==
    ASSUME NEW ctx, NEW e \in Exprs
    PROVE  /\ e.op = "ident" => TypeOf(e, ctx) = IdentType(e.name, ctx)
           /\ e.op \in {"int"} \cup Arithmetic => TypeOf(e, ctx) = "Amount"
           /\ e.op = "string" => TypeOf(e, ctx) = "Bytes"
           /\ e.op = "call" => TypeOf(e, ctx) = CallType(e)
           /\ e.op = "field" => \E type : /\ TypeOf(e, ctx) = FieldType(e, ctx, type)
                                          /\ \A d : type[d] = TypeOf(d, ctx)
<1>1. PICK type : (\A d \in Exprs : type[d] = TypeFrom(ctx, d, type)) /\ \A d : TypeOf(d, ctx) = type[d]
  BY TypeUnfolds
<1>2. TypeOf(e, ctx) = TypeFrom(ctx, e, type)
  BY <1>1
<1>3. e.op = "ident" => TypeOf(e, ctx) = IdentType(e.name, ctx)
  BY <1>2 DEF TypeFrom, Arithmetic, Logical, Comparisons
<1>4. e.op \in {"int"} \cup Arithmetic => TypeOf(e, ctx) = "Amount"
  BY <1>2 DEF TypeFrom, Arithmetic, Logical, Comparisons
<1>5. e.op = "string" => TypeOf(e, ctx) = "Bytes"
  BY <1>2 DEF TypeFrom, Arithmetic, Logical, Comparisons
<1>6. e.op = "call" => TypeOf(e, ctx) = CallType(e)
  BY <1>2 DEF TypeFrom, Arithmetic, Logical, Comparisons
<1>7. e.op = "field" => TypeOf(e, ctx) = FieldType(e, ctx, type)
  BY <1>2 DEF TypeFrom, Arithmetic, Logical, Comparisons
<1>8. \A d : type[d] = TypeOf(d, ctx)
  BY <1>1
<1> QED BY <1>3, <1>4, <1>5, <1>6, <1>7, <1>8

\* What a spend's statements name and is checked as Bool is a truth value.
LEMMA BoolParameter ==
    ASSUME OnChain, NEW ctx, SpendContext(ctx), NEW x, x \notin DOMAIN BuiltinTypes, x \notin ArgNames,
           IdentType(x, ctx) = "Bool"
    PROVE  Known(x) /\ x \notin Counts /\ IsTruth(bound[x])
<1> DEFINE cp == contract.params
           sp == Path.params
           all == cp \o sp
           names == NamesOf(all)
<1>1. x \notin Counts
  BY DEF Counts, BuiltinTypes
<1>2. x \in DOMAIN ctx.scope /\ ctx.scope[x] = "Bool"
  BY "none" # "Bool" DEF IdentType
<1>3. cp \in Declarations /\ sp \in Declarations /\ SpendChecks(contract, Path)
  BY SpendFacts
<1>4. IsInjective(names)
  BY <1>3, Zenon DEF SpendChecks
<1>5. all \in Declarations
  <2> HIDE DEF cp, sp
  <2> QED BY <1>3 DEF Declarations
<1>6. ToSet(all) = ToSet(cp) \cup ToSet(sp)
  <2>1. IsSeq(cp) /\ IsSeq(sp)
    BY <1>3, NamesAre
  <2> HIDE DEF cp, sp
  <2> QED BY <2>1, ToSetConcat
<1> HIDE DEF all
<1>7. /\ IsSeq(all) /\ IsSeq(names) /\ DOMAIN names = 1 .. Len(all) /\ DOMAIN all = 1 .. Len(all)
      /\ (\A i \in 1 .. Len(all) : names[i] = all[i].name) /\ ToSet(names) = {p.name : p \in ToSet(all)}
  BY <1>5, NamesAre
<1> DEFINE named(p) == p.name = x
           chosen == CHOOSE p \in ToSet(all) : p.name = x
<1>8. x \in ToSet(names) /\ chosen.ty = "Bool"
  <2>1. ctx.scope = [y \in ToSet(names) |-> (CHOOSE p \in ToSet(all) : p.name = y).ty]
    BY Zenon DEF SpendContext, ScopeOf, all
  <2> HIDE DEF names
  <2> QED BY <1>2, <2>1
<1>9. \A p, q \in ToSet(all) : p.name = x /\ q.name = x => p = q
  <2>1. \A p \in ToSet(all) : \E i \in 1 .. Len(all) : p = all[i]
    BY <1>7, Members
  <2>2. \A i, j \in 1 .. Len(all) : names[i] = names[j] => i = j
    BY <1>4, <1>7, Zenon DEF IsInjective
  <2> HIDE DEF names
  <2> QED BY <1>7, <2>1, <2>2
<1>10. \E p \in ToSet(all) : p.name = x
  BY <1>7, <1>8
<1>11. chosen \in ToSet(all) /\ chosen.name = x
  BY <1>10
<1> HIDE DEF chosen, names
<1>12. Known(x)
  <2>1. ToSet(NamesOf(cp)) = {p.name : p \in ToSet(cp)} /\ ToSet(NamesOf(sp)) = {p.name : p \in ToSet(sp)}
    BY <1>3, NamesAre
  <2>2. x \notin ToSet(NamesOf(sp))
    BY <1>1 DEF ArgNames
  <2>3. x \in ToSet(NamesOf(cp))
    BY <1>6, <1>11, <2>1, <2>2
  <2> QED BY <2>3 DEF Known
<1>13. PICK p \in ToSet(cp) : p.name = x /\ ValueIsOfType(bound[x], p.ty)
  BY <1>12, BoundKinds
<1>14. p.ty = "Bool"
  BY <1>6, <1>8, <1>9, <1>11, <1>13
<1>15. bound[x] \in {Truth(TRUE), Truth(FALSE)}
  BY <1>13, <1>14 DEF ValueIsOfType
<1>16. IsTruth(bound[x])
  BY <1>15, TruthIsTruth, Zenon
<1> QED BY <1>1, <1>12, <1>16

-----------------------------------------------------------------------------
(* Every requirement holds.                                                *)

LEMMA CallTypes ==
    ASSUME NEW e \in Exprs, NEW f \in {"sha256", "blake2b"}, IsCallOf(e, f)
    PROVE  CallType(e) = "Hash"
<1>1. ~IsVerify(e) /\ ~IsCallOf(e, "input") /\ ~IsCallOf(e, "output")
  BY NamedCall, "input" # "sha256", "input" # "blake2b", "output" # "sha256", "output" # "blake2b"
<1>2. \E g \in HashFunctions : IsCallOf(e, g)
  BY DEF HashFunctions
<1> QED BY <1>1, <1>2, Zenon DEF CallType

LEMMA CoinCallTypes ==
    ASSUME NEW e \in Exprs
    PROVE  /\ IsCallOf(e, "input") => e.op = "call" /\ CallType(e) = "Input"
           /\ IsCallOf(e, "output") => e.op = "call" /\ CallType(e) = "Output"
<1>1. CASE IsCallOf(e, "input")
  <2>1. ~IsVerify(e) /\ ~IsCallOf(e, "output") /\ e.op = "call"
    BY <1>1, NamedCall, "input" # "output"
  <2>0. ~\E g \in HashFunctions : IsCallOf(e, g)
    BY <1>1, NamedCall DEF HashFunctions
  <2>2. CallType(e) = "Input"
    BY <1>1, <2>0, <2>1, Zenon DEF CallType
  <2> QED BY <2>1, <2>2
<1>2. CASE IsCallOf(e, "output")
  <2>1. ~IsVerify(e) /\ ~IsCallOf(e, "input") /\ e.op = "call"
    BY <1>2, NamedCall, "input" # "output"
  <2>0. ~\E g \in HashFunctions : IsCallOf(e, g)
    BY <1>2, NamedCall DEF HashFunctions
  <2>2. CallType(e) = "Output"
    BY <1>2, <2>0, <2>1, Zenon DEF CallType
  <2> QED BY <2>1, <2>2
<1> QED BY <1>1, <1>2

\* A coin's field is no truth value for the checker.
LEMMA CoinIsNoBool ==
    ASSUME NEW ctx, NEW e \in Exprs, e.op = "field", ReadsCoin(e)
    PROVE  TypeOf(e, ctx) # "Bool"
<1> DEFINE object == e.kids[1]
<1>1. e.name \in {"value", "script"} /\ (IsCallOf(object, "input") \/ IsCallOf(object, "output"))
  BY DEF ReadsCoin
<1>2. object \in Exprs
  BY Trees, Kinds
<1>3. PICK type : TypeOf(e, ctx) = FieldType(e, ctx, type) /\ \A d : type[d] = TypeOf(d, ctx)
  BY TypeCases
<1>4. object.op = "call" /\ CallType(object) \in {"Input", "Output"}
  <2> HIDE DEF object
  <2> QED BY <1>1, <1>2, CoinCallTypes
<1>5. type[object] \in {"Input", "Output"}
  <2> HIDE DEF object
  <2> QED BY <1>2, <1>3, <1>4, TypeCases
<1>6. ~IsName(object, "block") /\ ~IsName(object, "covenant_id") /\ ~IsName(object, "sequencing")
  BY <1>4 DEF IsName
<1>7. FieldType(e, ctx, type) \in {"Amount", "Bytes"}
  BY <1>1, <1>5, <1>6 DEF FieldType
<1> QED BY <1>3, <1>7

\* A value of type Bool means a truth value or nothing.
LEMMA ValueIsTruth ==
    ASSUME OnChain, NEW ctx, SpendContext(ctx), NEW e \in Exprs, IsValue(e, ArgNames), TypeOf(e, ctx) = "Bool",
           ~IsNameIn(e, DOMAIN BuiltinTypes), NEW env, Agrees(env)
    PROVE  IsTruth(Meaning(e, env))
<1>1. IsTruth(Undefined) /\ (e.n \in {0, 1} => IsTruth(Num(e.n)))
  BY DEF IsTruth
<1>2. CASE e.op = "ident" /\ e.name \notin ArgNames
  <2> DEFINE x == e.name
  <2>1. IdentType(x, ctx) = "Bool" /\ x \notin DOMAIN BuiltinTypes /\ x \notin ArgNames
    BY <1>2, TypeCases DEF IsNameIn
  <2> HIDE DEF x
  <2>2. Known(x) /\ x \notin Counts /\ IsTruth(bound[x])
    BY <2>1, BoolParameter
  <2>3. x \in DOMAIN env.values /\ env.values[x] = bound[x]
    BY <2>2 DEF Agrees
  <2>4. Meaning(e, env) = env.values[x]
    BY <1>2, <2>2, <2>3, NamesMean DEF x
  <2> QED BY <2>2, <2>3, <2>4
<1>3. CASE e.op \in {"int", "bool", "string"}
  <2>1. e.op = "bool"
    BY <1>3, TypeCases
  <2>2. e.n \in {0, 1}
    BY <2>1, Trees DEF Shaped
  <2> QED BY <1>1, <2>1, <2>2, MeaningCases
<1>4. CASE e.op = "field" /\ ReadsCoin(e)
  BY <1>4, CoinIsNoBool
<1>5. CASE e.op = "not"
  <2> DEFINE m == Meaning(e.kids[1], env)
             b == (m[2] = 0)
  <2>1. Meaning(e, env) = IF IsNum(m) THEN Truth(b) ELSE Undefined
    BY <1>5, MeaningOfNot
  <2> HIDE DEF m, b
  <2>2. IsTruth(Truth(b))
    BY TruthIsTruth, Zenon
  <2> QED BY <1>1, <2>1, <2>2
<1>6. CASE IsBinary(e)
  <2>1. e.op \in Logical \cup Comparisons
    <3>1. e.op \notin Arithmetic
      BY TypeCases
    <3> QED BY <1>6, <3>1 DEF IsBinary
  <2> DEFINE v == Meaning(e.kids[1], env)
             w == Meaning(e.kids[2], env)
  <2>2. Meaning(e, env) = BinaryMeaning(e.op, v, w)
    BY <1>6, MeaningOfBinary
  <2> HIDE DEF v, w
  <2> QED BY <2>1, <2>2, BinaryIsTruth
<1>7. CASE IsCallOf(e, "continuation") /\ Len(Args(e)) = 2 /\ OutputIndex(Args(e)[2]) # {}
  <2>1. PICK n \in Nat : \A f : Meaning(e, f) = Truth(n < Len(f.tx.outputs))
    BY <1>7, ContinuationIs
  <2> DEFINE b == n < Len(env.tx.outputs)
  <2>2. Meaning(e, env) = Truth(b)
    BY <2>1
  <2> HIDE DEF b
  <2> QED BY <2>2, TruthIsTruth, Zenon
<1>8. CASE IsCallOf(e, "sha256") \/ IsCallOf(e, "blake2b")
  <2>1. CallType(e) = "Hash" /\ e.op = "call"
    BY <1>8, CallTypes, NamedCall
  <2> QED BY <2>1, TypeCases
<1> QED BY <1>2, <1>3, <1>4, <1>5, <1>6, <1>7, <1>8, ValueCases

LEMMA VerifyIs ==
    ASSUME OnChain, NEW e \in Exprs, IsVerify(e), Len(Args(e)) = 1,
           NEW x, x = Callee(e).kids[1], NEW y, y = Args(e)[1], IsNameIn(x, ArgNames), IsNameIn(y, ParamNames), NEW env
    PROVE  Meaning(e, env) = VerifyMeaning(Meaning(x, env), Meaning(y, env))
<1>1. /\ x \in Exprs /\ y \in Exprs /\ e.op = "call"
      /\ Lower[e] = (<<Symbol(x.name)>> \o <<Symbol(y.name)>>) \o <<<<"checksig">>>>
      /\ ArgumentsOf[e] = <<x.name>>
      /\ SigningRequirement(e) = [threshold |-> 1, keys |-> <<y>>, arguments |-> <<x>>]
      /\ \A f : Meaning(e, f) = VerifyMeaning(Meaning(x, f), Meaning(y, f))
  BY VerifyParts
<1> QED BY <1>1, Zenon

\* A requirement means true, false or nothing.
LEMMA RequirementIsTruth ==
    ASSUME OnChain, NEW ctx, SpendContext(ctx), NEW e \in Exprs, IsCondition(e, ParamNames, ArgNames),
           TypeOf(e, ctx) = "Bool", ~IsNameIn(e, DOMAIN BuiltinTypes), NEW env, Agrees(env)
    PROVE  IsTruth(Meaning(e, env))
<1>0. IsTruth(Undefined)
  BY DEF IsTruth
<1>1. CASE IsValue(e, ArgNames)
  BY <1>1, ValueIsTruth
<1>2. CASE SignsByName(e, ParamNames, ArgNames)
  <2>1. \/ /\ IsVerify(e) /\ Len(Args(e)) = 1
           /\ IsNameIn(Callee(e).kids[1], ArgNames) /\ IsNameIn(Args(e)[1], ParamNames)
        \/ IsMultisig(e)
    BY <1>2, Zenon DEF SignsByName, IsMultisig, NamedBy
  <2>2. CASE /\ IsVerify(e) /\ Len(Args(e)) = 1
             /\ IsNameIn(Callee(e).kids[1], ArgNames) /\ IsNameIn(Args(e)[1], ParamNames)
    <3> DEFINE x == Callee(e).kids[1]
               y == Args(e)[1]
               v == Meaning(x, env)
               w == Meaning(y, env)
               b == (v = Sig(w[2]))
    <3>0. IsNameIn(x, ArgNames) /\ IsNameIn(y, ParamNames) /\ x = Callee(e).kids[1] /\ y = Args(e)[1]
      BY <2>2
    <3>1. Meaning(e, env) = VerifyMeaning(v, w)
      <4> HIDE DEF x, y
      <4> QED BY <2>2, <3>0, VerifyIs
    <3>2. VerifyMeaning(v, w) \in {Truth(b), Undefined}
      <4> HIDE DEF v, w
      <4> QED BY DEF VerifyMeaning
    <3> HIDE DEF v, w, b
    <3>3. IsTruth(Truth(b))
      BY TruthIsTruth, Zenon
    <3> QED BY <1>0, <3>1, <3>2, <3>3
  <2>3. CASE IsMultisig(e)
    <3> DEFINE k == Args(e)[1].n
               ks == Args(e)[2].kids
               as == Args(e)[3].kids
    <3>1. MultisigMeans(e, env, k, ks, as)
      BY <2>3, MultisigParts
    <3> HIDE DEF k, ks, as
    <3> DEFINE keys == [i \in DOMAIN ks |-> Meaning(ks[i], env)]
               sigs == [i \in DOMAIN as |-> Meaning(as[i], env)]
               b == EnoughSign(k, keys, sigs)
    <3>2. Meaning(e, env) = MultisigMeaning(k, keys, sigs)
      BY <3>1 DEF MultisigMeans
    <3> HIDE DEF keys, sigs
    <3>3. MultisigMeaning(k, keys, sigs) \in {Truth(b), Undefined}
      BY Zenon DEF MultisigMeaning
    <3> HIDE DEF b
    <3>4. IsTruth(Truth(b))
      BY TruthIsTruth, Zenon
    <3> QED BY <1>0, <3>2, <3>3, <3>4
  <2> QED BY <2>1, <2>2, <2>3
<1>3. CASE e.op = "not"
  <2> DEFINE m == Meaning(e.kids[1], env)
             b == (m[2] = 0)
  <2>1. Meaning(e, env) = IF IsNum(m) THEN Truth(b) ELSE Undefined
    BY <1>3, MeaningOfNot
  <2> HIDE DEF m, b
  <2>2. IsTruth(Truth(b))
    BY TruthIsTruth, Zenon
  <2> QED BY <1>0, <2>1, <2>2
<1>4. CASE e.op \in Logical
  <2>1. IsBinary(e)
    BY <1>4 DEF IsBinary
  <2> DEFINE v == Meaning(e.kids[1], env)
             w == Meaning(e.kids[2], env)
  <2>2. Meaning(e, env) = BinaryMeaning(e.op, v, w)
    BY <2>1, MeaningOfBinary
  <2> HIDE DEF v, w
  <2> QED BY <1>4, <2>2, BinaryIsTruth
<1> QED BY <1>1, <1>2, <1>3, <1>4, ConditionCases

\* An accepted spend is one its source permits, its signatures reordered.
LEMMA SpendIsMeant == IInv => ScriptIsSound
<1> SUFFICES ASSUME IInv, stage = "spent", RegularForm, KeysFollowScripts, MultisigsListEnough, ArgumentsUsedOnce,
                    NoBuiltinIsRequired, LocksOfTheirKind(spend.tx, spend.witness, spend.now)
             PROVE  \E x \in Arrangements(spend.witness) : Means(spend.tx, x, spend.now)
  BY DEF ScriptIsSound
<1>0. OnChain /\ Sane
  BY DEF OnChain, Sane
<1>1. IsSeq(spend.witness) /\ \E es, at : AllConsumed(es, at)
  BY <1>0, SpendConsumes
<1>2. PICK es, at : AllConsumed(es, at)
  BY <1>1
<1>3. PICK x \in Arrangements(spend.witness) : AllGiven(es, at, x)
  BY <1>0, <1>2, SpendIsArranged
<1> DEFINE env == Environment(spend.tx, x, spend.now)
           w == spend.witness
<1>4. Agrees(env)
  BY <1>0, EnvironmentAgrees
<1>5. PICK ctx : SpendContext(ctx) /\ \A e \in ToSet(Requires(Path)) : TypeOf(e, ctx) = "Bool"
  BY <1>0, RequirementsAreBool
<1>6. Path \in Paths
  BY <1>0, SpendFacts
<1>7. ASSUME NEW e \in ToSet(Requires(Path)) PROVE Meaning(e, env) = Truth(TRUE)
  <2>1. PICK i \in 1 .. Len(es) : e = es[i]
    BY <1>2 DEF AllConsumed, Demanded
  <2> DEFINE j == at[i - 1]
             k == at[i]
             st == SubSeq(w, 1, j)
             n == j - k
  <2>2. Step(e, w, j, k)
    BY <1>2, <2>1 DEF AllConsumed, Consumed
  <2>3. Given(e, env, st, n)
    BY <1>3, <2>1 DEF AllGiven
  <2>4. j \in 0 .. Len(w) /\ TopSigs(st, n)
    <3>1. j \in 0 .. Len(w)
      BY <2>2 DEF Step
    <3> QED BY <1>0, <1>1, <3>1, AllAreSigs
  <2>5. PICK v : Truthy(v) /\ Outcome(e, st, n, v)
    BY <2>2 DEF Step
  <2> HIDE DEF st, n, env, j, k, w
  <2>6. Meaning(e, env) = v /\ IsResult(v)
    BY <1>0, <1>4, <2>3, <2>4, <2>5 DEF Outcome, Meant
  <2>7. e \in Exprs /\ IsCondition(e, ParamNames, ArgNames)
    BY <1>6, RequiredAre DEF RegularForm
  <2>8. ~IsNameIn(e, DOMAIN BuiltinTypes)
    BY DEF NoBuiltinIsRequired
  <2>9. IsTruth(Meaning(e, env))
    BY <1>0, <1>4, <1>5, <2>7, <2>8, RequirementIsTruth
  <2> QED BY <2>5, <2>6, <2>9 DEF IsTruth, IsResult, Truthy, Truth
<1>8. Means(spend.tx, x, spend.now)
  BY <1>7, Zenon DEF Means, SourceHolds
<1> QED BY <1>8

\* Nothing between the source and the bytes lets through what a require forbids:
\* lowering, the binding of parameters, the encoding of coin fields and locks and
\* the places where values meet on the stack keep the meaning of every requirement.
THEOREM SpendsAreSound == Spec => []ScriptIsSound
<1>1. IInv => ScriptIsSound
  BY SpendIsMeant
<1>2. Spec => []IInv
  BY InvariantHolds
<1> QED BY <1>1, <1>2, PTL

-----------------------------------------------------------------------------
(* What is demanded outright.  A conjunct that is neither a signature nor a combination of conditions is a
   value, and in an accepted spend it is true.                             *)

\* A binary expression has two parts.
LEMMA Pairs ==
    ASSUME NEW e \in Exprs, e.op = "and" \/ IsBinary(e)
    PROVE  /\ IsBinary(e) /\ 1 \in 1 .. Len(e.kids) /\ 2 \in 1 .. Len(e.kids)
           /\ e.kids[1] \in Exprs /\ e.kids[2] \in Exprs
<1>1. IsBinary(e)
  BY DEF IsBinary, Logical
<1>2. Len(e.kids) = 2
  BY <1>1, Kinds
<1>3. 1 \in 1 .. Len(e.kids) /\ 2 \in 1 .. Len(e.kids)
  BY <1>2
<1> QED BY <1>1, <1>3, Trees, Zenon

LEMMA ConjunctsAreExprs == \A e \in Exprs : ToSet(Conjuncts[e]) \subseteq Exprs
<1> DEFINE T == {e \in Exprs : ToSet(Conjuncts[e]) \subseteq Exprs}
<1>1. ASSUME NEW e \in Exprs, \A y \in Below(e) : y \in T PROVE e \in T
  <2>1. CASE e.op # "and"
    <3>1. ToSet(Conjuncts[e]) = {e}
      BY <2>1, ConjunctsAre
    <3> QED BY <3>1
  <2>2. CASE e.op = "and"
    <3>1. ToSet(Conjuncts[e]) = ToSet(Conjuncts[e.kids[1]]) \cup ToSet(Conjuncts[e.kids[2]])
      BY <2>2, ConjunctsAre
    <3>2. 1 \in 1 .. Len(e.kids) /\ 2 \in 1 .. Len(e.kids)
      BY <2>2, Pairs
    <3>3. e.kids[1] \in T /\ e.kids[2] \in T
      BY <1>1, <3>2, Trees, Zenon
    <3> QED BY <3>1, <3>3
  <2> QED BY <2>1, <2>2
<1>2. T \subseteq Exprs
  OBVIOUS
<1> HIDE DEF T
<1>3. T = Exprs
  BY <1>1, <1>2, TreeInduction
<1> QED BY <1>3 DEF T

\* What a condition demands outright, where it is neither a signature nor a
\* combination of conditions, is a value.
Plain(c) == c.op \notin {"not"} \cup Logical /\ ~IsSigning(c)

LEMMA NamedSigns == ASSUME NEW e, NEW params, NEW args, SignsByName(e, params, args) PROVE IsSigning(e) /\ e.op = "call"
BY DEF SignsByName, IsSigning, IsVerify, IsCallOf

LEMMA PlainConjuncts ==
    ASSUME NEW e \in Exprs, IsCondition(e, ParamNames, ArgNames), NEW c \in ToSet(Conjuncts[e]), Plain(c)
    PROVE  IsValue(c, ArgNames)
<1> DEFINE Fine(q) == IsCondition(q, ParamNames, ArgNames) =>
                          \A d \in ToSet(Conjuncts[q]) : Plain(d) => IsValue(d, ArgNames)
           T == {q \in Exprs : Fine(q)}
<1>1. ASSUME NEW q \in Exprs, \A y \in Below(q) : y \in T PROVE q \in T
  <2> SUFFICES ASSUME IsCondition(q, ParamNames, ArgNames), NEW d \in ToSet(Conjuncts[q]), Plain(d)
               PROVE  IsValue(d, ArgNames)
    OBVIOUS
  <2>1. CASE IsValue(q, ArgNames)
    BY <2>1, ValueConjuncts
  <2>2. CASE SignsByName(q, ParamNames, ArgNames)
    <3>1. IsSigning(q) /\ q.op = "call"
      BY <2>2, NamedSigns
    <3>2. d = q
      BY <3>1, ConjunctsAre
    <3> QED BY <3>1, <3>2 DEF Plain
  <2>3. CASE /\ q.op \in {"not"} \cup Logical
             /\ \A i \in 1 .. Len(q.kids) : q.kids[i] \in Below(q) /\ IsCondition(q.kids[i], ParamNames, ArgNames)
    <3>1. CASE q.op # "and"
      <4>1. d = q
        BY <3>1, ConjunctsAre
      <4> QED BY <2>3, <4>1 DEF Plain
    <3>2. CASE q.op = "and"
      <4>1. ToSet(Conjuncts[q]) = ToSet(Conjuncts[q.kids[1]]) \cup ToSet(Conjuncts[q.kids[2]])
        BY <3>2, ConjunctsAre
      <4>2. 1 \in 1 .. Len(q.kids) /\ 2 \in 1 .. Len(q.kids)
        BY <3>2, Pairs
      <4>3. Fine(q.kids[1]) /\ Fine(q.kids[2]) /\ IsCondition(q.kids[1], ParamNames, ArgNames)
            /\ IsCondition(q.kids[2], ParamNames, ArgNames)
        BY <1>1, <2>3, <4>2
      <4> QED BY <4>1, <4>3
    <3> QED BY <3>1, <3>2
  <2> QED BY <2>1, <2>2, <2>3, ConditionCases
<1>2. T \subseteq Exprs
  OBVIOUS
<1> HIDE DEF T
<1>3. T = Exprs
  BY <1>1, <1>2, TreeInduction
<1> QED BY <1>3 DEF T

\* A value that an accepted spend's requirement demands outright is true.
LEMMA RequirementWeighs ==
    ASSUME OnChain, Sane, RegularForm, NEW e \in ToSet(Requires(Path)), NEW c \in ToSet(Conjuncts[e]),
           IsValue(c, ArgNames), NEW env, Agrees(env)
    PROVE  Truthful(Meaning(c, env))
<1> DEFINE w == spend.witness
<1>1. IsSeq(w) /\ \E es, at : AllConsumed(es, at)
  BY SpendConsumes
<1>2. PICK es, at : AllConsumed(es, at)
  BY <1>1
<1>3. PICK i \in 1 .. Len(es) : e = es[i]
  BY <1>2 DEF AllConsumed, Demanded
<1> DEFINE j == at[i - 1]
           k == at[i]
           st == SubSeq(w, 1, j)
<1>4. Step(e, w, j, k)
  BY <1>2, <1>3 DEF AllConsumed, Consumed
<1> HIDE DEF j, k, w
<1>5. j \in 0 .. Len(w)
  BY <1>4 DEF Step
<1>6. PICK v : Truthy(v) /\ Outcome(e, st, j - k, v)
  BY <1>4 DEF Step
<1> DEFINE n == j - k
<1> HIDE DEF n, st
<1>7. TopSigs(st, n)
  BY <1>1, <1>5, AllAreSigs DEF w, st
<1>8. Outcome(e, st, n, v)
  BY <1>6 DEF n
<1>9. Weighs(e, v)
  BY <1>7, <1>8 DEF Outcome
<1> QED BY <1>6, <1>9 DEF Weighs

\* So is each of the plain ones.
LEMMA DemandHolds ==
    ASSUME OnChain, Sane, RegularForm, NEW e \in ToSet(Requires(Path)), NEW c \in ToSet(Conjuncts[e]), Plain(c),
           NEW env, Agrees(env)
    PROVE  c \in Exprs /\ IsValue(c, ArgNames) /\ Truthful(Meaning(c, env))
<1>1. e \in Exprs /\ IsCondition(e, ParamNames, ArgNames)
  BY SpendFacts, RequiredAre DEF RegularForm
<1>2. c \in Exprs
  BY <1>1, ConjunctsAreExprs
<1>3. IsValue(c, ArgNames)
  BY <1>1, PlainConjuncts
<1> QED BY <1>2, <1>3, RequirementWeighs

-----------------------------------------------------------------------------
(* Counts and continuations.  What the application model says of them holds of an accepted spend.*)

CoinNumbers(of, tx) == IF of = "input_count" THEN tx.inputs ELSE tx.outputs

LEMMA CountMeaning ==
    ASSUME NEW e \in Exprs, NEW s \in CountSubject(e), NEW env
    PROVE  Meaning(e, env) = Num(Len(CoinNumbers(s, env.tx)))
<1>1. e.op = "ident" /\ e.name = s /\ s \in {"input_count", "output_count"}
  BY DEF CountSubject
<1>2. Meaning(e, env) = IdentMeaning(s, env)
  BY <1>1, MeaningCases
<1>3. CASE s = "input_count"
  BY <1>2, <1>3 DEF IdentMeaning, CoinNumbers
<1>4. CASE s = "output_count"
  BY <1>2, <1>4 DEF IdentMeaning, CoinNumbers
<1> QED BY <1>1, <1>3, <1>4

\* Numbers that compare as equal are.
LEMMA EqualNumbers ==
    ASSUME NEW m, NEW n, Truthful(BinaryMeaning("==", Num(m), Num(n)))
    PROVE  m = n
<1> DEFINE b == SameValue(Num(m), Num(n))
<1>1. Num(m) # Undefined /\ Num(n) # Undefined
  BY NumIs
<1>2. BinaryMeaning("==", Num(m), Num(n)) = Truth(b)
  BY <1>1, Zenon DEF BinaryMeaning
<1>3. b <=> Num(m) = Num(n)
  BY NumIs DEF SameValue
<1> HIDE DEF b
<1>4. b
  BY <1>2, Zenon DEF Truthful, Truthy, Truth, Num
<1> QED BY <1>3, <1>4 DEF Num

\* A count demanded outright.
LEMMA CountHolds ==
    ASSUME OnChain, Sane, RegularForm, NEW e \in ToSet(Requires(Path)), NEW c \in ToSet(Conjuncts[e]),
           NEW fact \in ExactCount(c), NEW env, Agrees(env)
    PROVE  fact.n = Len(CoinNumbers(fact.of, env.tx))
<1>1. c.op = "=="
  BY DEF ExactCount
<1>2. Plain(c)
  BY <1>1 DEF Plain, Logical, IsSigning, IsVerify, IsCallOf
<1>3. c \in Exprs /\ Truthful(Meaning(c, env))
  BY <1>2, DemandHolds
<1> DEFINE l == c.kids[1]
           r == c.kids[2]
<1>4. IsBinary(c)
  BY <1>1 DEF IsBinary, Comparisons
<1>5. l \in Exprs /\ r \in Exprs
  BY <1>3, <1>4, Pairs
<1>6. Meaning(c, env) = BinaryMeaning("==", Meaning(l, env), Meaning(r, env))
  BY <1>1, <1>3, <1>4, MeaningOfBinary
<1>7. \/ r.op = "int" /\ \E s \in CountSubject(l) : fact = [of |-> s, n |-> r.n]
      \/ l.op = "int" /\ \E s \in CountSubject(r) : fact = [of |-> s, n |-> l.n]
  BY <1>1 DEF ExactCount
<1> HIDE DEF l, r
<1>8. ASSUME NEW x \in Exprs, x.op = "int" PROVE Meaning(x, env) = Num(x.n)
  BY <1>8, MeaningCases
<1>9. CASE r.op = "int" /\ \E s \in CountSubject(l) : fact = [of |-> s, n |-> r.n]
  <2>1. PICK s \in CountSubject(l) : fact = [of |-> s, n |-> r.n]
    BY <1>9
  <2>2. Meaning(l, env) = Num(Len(CoinNumbers(s, env.tx))) /\ Meaning(r, env) = Num(r.n)
    BY <1>5, <1>8, <1>9, CountMeaning
  <2>3. Len(CoinNumbers(s, env.tx)) = r.n
    BY <1>3, <1>6, <2>2, EqualNumbers
  <2> QED BY <2>1, <2>3
<1>10. CASE l.op = "int" /\ \E s \in CountSubject(r) : fact = [of |-> s, n |-> l.n]
  <2>1. PICK s \in CountSubject(r) : fact = [of |-> s, n |-> l.n]
    BY <1>10
  <2>2. Meaning(r, env) = Num(Len(CoinNumbers(s, env.tx))) /\ Meaning(l, env) = Num(l.n)
    BY <1>5, <1>8, <1>10, CountMeaning
  <2>3. l.n = Len(CoinNumbers(s, env.tx))
    BY <1>3, <1>6, <2>2, EqualNumbers
  <2> QED BY <2>1, <2>3
<1> QED BY <1>7, <1>9, <1>10

\* The counts of a path are those its requirements demand outright.
LEMMA CountsOfPath ==
    ASSUME Path \in Paths, NEW fact \in ExactCounts(Path)
    PROVE  \E e \in ToSet(Requires(Path)) : \E c \in ToSet(Conjuncts[e]) : fact \in ExactCount(c)
<1> DEFINE es == Requires(Path)
           ps == [i \in DOMAIN es |-> Conjuncts[es[i]]]
           S  == UNION {ToSet(Conjuncts[e]) : e \in ToSet(es)}
<1>1. IsSeq(es) /\ ToSet(es) \subseteq Exprs
  BY RequiredAre
<1>2. PICK c \in ToSet(Concat(ps)) : fact \in ExactCount(c)
  BY Zenon DEF ExactCounts
<1> HIDE DEF es
<1>3. DOMAIN es = 1 .. Len(es) /\ \A i \in 1 .. Len(es) : es[i] \in ToSet(es)
  BY <1>1, Members, SeqProps
<1>4. \A i \in 1 .. Len(es) : ps[i] = Conjuncts[es[i]]
  BY <1>3
<1>5. ps = [i \in DOMAIN es |-> ps[i]]
  OBVIOUS
<1> HIDE DEF ps
<1>6. \A i \in 1 .. Len(es) : IsSeq(ps[i])
  BY <1>1, <1>3, <1>4, ConjunctsAre
<1>7. \A i \in 1 .. Len(es) : ToSet(ps[i]) \subseteq S
  BY <1>3, <1>4
<1> HIDE DEF S
<1>8. ToSet(Concat(ps)) \subseteq S
  BY <1>1, <1>5, <1>6, <1>7, Pieces
<1>9. c \in S
  BY <1>2, <1>8
<1> QED BY <1>2, <1>9 DEF S, es

\* A continuation demanded outright is there.
LEMMA ContinuationHolds ==
    ASSUME OnChain, Sane, RegularForm, NEW e \in ToSet(Requires(Path)), NEW c \in ToSet(Conjuncts[e]),
           IsCallOf(c, "continuation"), NEW env, Agrees(env), NEW i \in OutputIndex(c.kids[3])
    PROVE  i < Len(env.tx.outputs)
<1>1. c.op = "call" /\ ~IsVerify(c) /\ \A g : IsCallOf(c, g) => g = "continuation"
  BY NamedCall
<1>2. Plain(c)
  BY <1>1 DEF Plain, Logical, IsSigning
<1>3. c \in Exprs /\ IsValue(c, ArgNames) /\ Truthful(Meaning(c, env))
  BY <1>2, DemandHolds
<1>4. Len(Args(c)) = 2 /\ OutputIndex(Args(c)[2]) # {}
  BY <1>1, <1>3, ValueCases DEF IsBinary, Logical, Comparisons, Arithmetic
<1>5. PICK n \in Nat : OutputIndex(Args(c)[2]) = {n} /\ Meaning(c, env) = Truth(n < Len(env.tx.outputs))
  BY <1>3, <1>4, ContinuationIs
<1>6. Args(c)[2] = c.kids[3]
  BY <1>1, <1>3, <1>4, Calls
<1>7. i = n
  BY <1>5, <1>6
<1> DEFINE b == n < Len(env.tx.outputs)
<1> HIDE DEF b
<1>8. Meaning(c, env) = Truth(b)
  BY <1>5 DEF b
<1>9. b
  BY <1>3, <1>8, Zenon DEF Truthful, Truthy, Truth, Num
<1> QED BY <1>7, <1>9 DEF b

-----------------------------------------------------------------------------
(* Comparisons and the fields of outputs.                                  *)

LEMMA SameValueEitherWay == \A v, w : SameValue(v, w) <=> SameValue(w, v)
BY DEF SameValue

\* A comparison turned round is still that comparison.
LEMMA TurnedRound ==
    ASSUME NEW op \in Comparisons, NEW v, NEW w
    PROVE  BinaryMeaning(ReverseRelation(op), w, v) = BinaryMeaning(op, v, w)
<1> DEFINE p == SameValue(v, w)
           q == SameValue(w, v)
<1>1. Truth(p) = Truth(q) /\ Truth(~p) = Truth(~q)
  BY SameValueEitherWay DEF Truth
<1>2. CASE op \in {"==", "!="}
  <2>1. ReverseRelation(op) = op
    BY <1>2 DEF ReverseRelation
  <2> HIDE DEF p, q
  <2>2. Undefined \in {v, w} <=> Undefined \in {w, v}
    OBVIOUS
  <2>3. CASE Undefined \in {v, w}
    BY <2>1, <2>2, <2>3, Zenon DEF BinaryMeaning
  <2>4. CASE Undefined \notin {v, w} /\ op = "=="
    <3>1. BinaryMeaning("==", v, w) = Truth(p) /\ BinaryMeaning("==", w, v) = Truth(q)
      BY <2>2, <2>4, Zenon DEF BinaryMeaning, p, q
    <3> QED BY <1>1, <2>1, <2>4, <3>1
  <2>5. CASE Undefined \notin {v, w} /\ op = "!="
    <3>1. BinaryMeaning("!=", v, w) = Truth(~p) /\ BinaryMeaning("!=", w, v) = Truth(~q)
      BY <2>2, <2>5 DEF BinaryMeaning, p, q
    <3> QED BY <1>1, <2>1, <2>5, <3>1
  <2> QED BY <1>2, <2>3, <2>4, <2>5
<1>3. CASE op \in {">", ">=", "<", "<="}
  <2> DEFINE m == v[2]
             n == w[2]
             back == ReverseRelation(op)
  <2>1. back \notin {"==", "!="} /\ op \notin {"==", "!="}
    BY <1>3 DEF ReverseRelation
  <2>2. NumericResult(back, n, m) = NumericResult(op, m, n)
    <3> HIDE DEF m, n
    <3> QED BY <1>3 DEF ReverseRelation, NumericResult
  <2> HIDE DEF back, p, q
  <2>3. BinaryMeaning(op, v, w) =
          IF Undefined \in {v, w} \/ ~(IsNum(v) /\ IsNum(w)) THEN Undefined ELSE NumericResult(op, m, n)
    BY <2>1 DEF BinaryMeaning
  <2>4. BinaryMeaning(back, w, v) =
          IF Undefined \in {v, w} \/ ~(IsNum(v) /\ IsNum(w)) THEN Undefined ELSE NumericResult(back, n, m)
    BY <2>1 DEF BinaryMeaning
  <2> QED BY <2>2, <2>3, <2>4 DEF back
<1> QED BY <1>2, <1>3 DEF Comparisons

\* A field of an output is what the transaction has there.
LEMMA OutputMeaning ==
    ASSUME NEW e \in Exprs, NEW o \in OutputField(e), NEW env
    PROVE  /\ e.op = "field" /\ o.field = e.name
           /\ Meaning(e, env) = CoinMeaning(env.tx.outputs, o.index, o.field)
<1> DEFINE object == e.kids[1]
<1>1. e.op = "field" /\ \E i \in OutputIndex(object) : o = [index |-> i, field |-> e.name]
  BY DEF OutputField
<1>2. PICK i \in OutputIndex(object) : o = [index |-> i, field |-> e.name]
  BY <1>1
<1>3. IsCallOf(object, "output") /\ Len(Args(object)) = 1 /\ i = Args(object)[1].n
  BY DEF OutputIndex
<1>4. ~IsName(object, "block") /\ ~IsCallOf(object, "input")
  <2>1. object.op = "call" /\ \A g : IsCallOf(object, g) => g = "output"
    BY <1>3, NamedCall
  <2> QED BY <2>1 DEF IsName
<1>5. Args(object) # << >>
  BY <1>3
<1>6. Meaning(e, env) = FieldMeaning(e, env)
  BY <1>1, MeaningCases
<1>7. FieldMeaning(e, env) = CoinMeaning(env.tx.outputs, Args(object)[1].n, e.name)
  BY <1>3, <1>4, <1>5, Zenon DEF FieldMeaning
<1> HIDE DEF object
<1>8. o.index = i /\ o.field = e.name
  BY <1>2
<1> QED BY <1>1, <1>3, <1>6, <1>7, <1>8

\* A field that is a condition, or a part of a value, reads a coin: it is not of
\* type Bool.
LEMMA FieldIsNoCondition ==
    ASSUME NEW e \in Exprs, IsCondition(e, ParamNames, ArgNames), e.op = "field", NEW ctx
    PROVE  TypeOf(e, ctx) # "Bool"
<1>1. IsValue(e, ArgNames)
  BY ConditionCases, NamedSigns DEF Logical
<1>2. ReadsCoin(e)
  BY <1>1, ValueCases DEF IsBinary, IsLock, IsPlainLock, IsCallOf, Logical, Comparisons, Arithmetic
<1> QED BY <1>2, CoinIsNoBool

LEMMA ValueIsCondition ==
    ASSUME NEW e \in Exprs, NEW params, NEW args, IsValue(e, args)
    PROVE  IsCondition(e, params, args)
<1>1. PICK condition : /\ \A d \in Exprs : condition[d] = ConditionFrom(params, args, d, condition)
                       /\ \A d : IsCondition(d, params, args) = condition[d]
  BY ConditionUnfolds
<1>2. ConditionFrom(params, args, e, condition)
  BY DEF ConditionFrom
<1> QED BY <1>1, <1>2

\* The operands of `and` and `or` have been given type Bool.
LEMMA OperandsAreBool ==
    ASSUME NEW e \in Exprs, e.op \in Logical, NEW ctx, WellTyped(e, ctx)
    PROVE  TypeOf(e.kids[1], ctx) = "Bool" /\ TypeOf(e.kids[2], ctx) = "Bool"
<1>1. PICK ok : (\A d \in Exprs : ok[d] = WellTypedFrom(ctx, d, ok)) /\ \A d : WellTyped(d, ctx) = ok[d]
  BY WellTypedUnfolds
<1>2. WellTypedFrom(ctx, e, ok)
  BY <1>1
<1>3. e.op # "ident" /\ e.op # "call" /\ e.op # "field"
  BY DEF Logical
<1>4. \A i \in DOMAIN e.kids : TypeOf(e.kids[i], ctx) = "Bool"
  BY <1>2, <1>3 DEF WellTypedFrom
<1>5. IsBinary(e)
  BY DEF IsBinary
<1>6. 1 \in 1 .. Len(e.kids) /\ 2 \in 1 .. Len(e.kids) /\ DOMAIN e.kids = 1 .. Len(e.kids)
  BY <1>5, Pairs, Trees
<1> QED BY <1>4, <1>6

-----------------------------------------------------------------------------
(* Bindings.  A requirement that compares a field of an output is a comparison, and true.*)

\* No operand of `and` or `or` in a requirement is a field.
LEMMA OperandsAreNoFields ==
    ASSUME NEW e \in Exprs, IsCondition(e, ParamNames, ArgNames), e.op \in Logical, NEW ctx, WellTyped(e, ctx)
    PROVE  e.kids[1].op # "field" /\ e.kids[2].op # "field"
<1>1. /\ IsBinary(e) /\ ~IsLock(e) /\ ~IsPlainLock(e)
      /\ e.op \notin {"call", "ident", "int", "bool", "string", "field", "not"}
  BY DEF IsBinary, IsLock, IsPlainLock, Logical
<1>2. 1 \in 1 .. Len(e.kids) /\ 2 \in 1 .. Len(e.kids) /\ e.kids[1] \in Exprs /\ e.kids[2] \in Exprs
  BY <1>1, Pairs
<1>3. IsCondition(e.kids[1], ParamNames, ArgNames) /\ IsCondition(e.kids[2], ParamNames, ArgNames)
  <2>1. CASE IsValue(e, ArgNames)
    <3>1. ~IsCallOf(e, "continuation") /\ ~IsCallOf(e, "sha256") /\ ~IsCallOf(e, "blake2b")
      BY <1>1 DEF IsCallOf
    <3>2. IsValue(e.kids[1], ArgNames) /\ IsValue(e.kids[2], ArgNames)
      BY <1>1, <2>1, <3>1, ValueCases
    <3> QED BY <1>2, <3>2, ValueIsCondition
  <2>2. CASE SignsByName(e, ParamNames, ArgNames)
    BY <1>1, <2>2, NamedSigns
  <2>3. CASE \A i \in 1 .. Len(e.kids) : IsCondition(e.kids[i], ParamNames, ArgNames)
    BY <1>2, <2>3
  <2> QED BY <2>1, <2>2, <2>3, ConditionCases
<1>4. TypeOf(e.kids[1], ctx) = "Bool" /\ TypeOf(e.kids[2], ctx) = "Bool"
  BY OperandsAreBool
<1> QED BY <1>2, <1>3, <1>4, FieldIsNoCondition

\* What a comparison says of an output, whichever side the output is on.
LEMMA ComparisonBinds ==
    ASSUME NEW e \in Exprs, e.op \in Comparisons, NEW b \in OutputBinding(e), NEW env,
           Meaning(e, env) = Truth(TRUE)
    PROVE  BindingHolds(b, env)
<1> DEFINE l == e.kids[1]
           r == e.kids[2]
<1>1. IsBinary(e)
  BY DEF IsBinary
<1>2. l \in Exprs /\ r \in Exprs
  BY <1>1, Pairs
<1>3. BinaryMeaning(e.op, Meaning(l, env), Meaning(r, env)) = Truth(TRUE)
  BY <1>1, MeaningOfBinary
<1>4. \/ \E o \in OutputField(l) : b = [index |-> o.index, field |-> o.field, relation |-> e.op, expected |-> r]
      \/ \E o \in OutputField(r) :
            b = [index |-> o.index, field |-> o.field, relation |-> ReverseRelation(e.op), expected |-> l]
  BY <1>1 DEF OutputBinding
<1> HIDE DEF l, r
<1>5. CASE \E o \in OutputField(l) : b = [index |-> o.index, field |-> o.field, relation |-> e.op, expected |-> r]
  <2>1. PICK o \in OutputField(l) : b = [index |-> o.index, field |-> o.field, relation |-> e.op, expected |-> r]
    BY <1>5
  <2>2. b.index = o.index /\ b.field = o.field /\ b.relation = e.op /\ b.expected = r
    BY <2>1
  <2>3. Meaning(l, env) = CoinMeaning(env.tx.outputs, o.index, o.field)
    BY <1>2, OutputMeaning
  <2> QED BY <1>3, <2>2, <2>3, Zenon DEF BindingHolds
<1>6. CASE \E o \in OutputField(r) :
              b = [index |-> o.index, field |-> o.field, relation |-> ReverseRelation(e.op), expected |-> l]
  <2>1. PICK o \in OutputField(r) :
              b = [index |-> o.index, field |-> o.field, relation |-> ReverseRelation(e.op), expected |-> l]
    BY <1>6
  <2>2. b.index = o.index /\ b.field = o.field /\ b.relation = ReverseRelation(e.op) /\ b.expected = l
    BY <2>1
  <2>3. Meaning(r, env) = CoinMeaning(env.tx.outputs, o.index, o.field)
    BY <1>2, OutputMeaning
  <2>4. BinaryMeaning(ReverseRelation(e.op), Meaning(r, env), Meaning(l, env)) = Truth(TRUE)
    <3> DEFINE v == Meaning(l, env)
               w == Meaning(r, env)
    <3>1. BinaryMeaning(e.op, v, w) = Truth(TRUE)
      BY <1>3
    <3> HIDE DEF v, w
    <3>2. BinaryMeaning(ReverseRelation(e.op), w, v) = BinaryMeaning(e.op, v, w)
      BY TurnedRound, Zenon
    <3>3. BinaryMeaning(ReverseRelation(e.op), w, v) = Truth(TRUE)
      BY <3>1, <3>2, Zenon
    <3> QED BY <3>3 DEF v, w
  <2> QED BY <2>2, <2>3, <2>4, Zenon DEF BindingHolds
<1> QED BY <1>4, <1>5, <1>6

\* A binding is a whole requirement, and that is true.
LEMMA RequirementBinds ==
    ASSUME OnChain, Sane, RegularForm, NEW e \in ToSet(Requires(Path)), NEW b \in OutputBinding(e),
           NEW env, Agrees(env)
    PROVE  BindingHolds(b, env)
<1>1. e \in Exprs /\ IsCondition(e, ParamNames, ArgNames)
  BY SpendFacts, RequiredAre DEF RegularForm
<1>2. PICK ctx : SpendContext(ctx) /\ Checked(e, ctx)
  <2>1. PICK ctx : SpendContext(ctx) /\ \A q \in ToSet(Requires(Path)) : Checked(q, ctx)
    BY RequirementsAreChecked
  <2> QED BY <2>1
<1>3. IsBinary(e)
  BY DEF OutputBinding
<1>4. e.op \notin Logical
  <2> SUFFICES ASSUME e.op \in Logical PROVE FALSE
    OBVIOUS
  <2>1. e.kids[1].op # "field" /\ e.kids[2].op # "field"
    BY <1>1, <1>2, OperandsAreNoFields DEF Checked
  <2>2. OutputField(e.kids[1]) = {} /\ OutputField(e.kids[2]) = {}
    BY <2>1 DEF OutputField
  <2> QED BY <2>2 DEF OutputBinding
<1>5. e.op \notin Arithmetic
  BY <1>1, <1>2, TypeCases DEF Checked
<1>6. e.op \in Comparisons
  BY <1>3, <1>4, <1>5 DEF IsBinary
<1>7. e \in ToSet(Conjuncts[e]) /\ Plain(e)
  <2>1. e.op \notin {"and", "not", "call"}
    BY <1>6 DEF Comparisons
  <2>2. ToSet(Conjuncts[e]) = {e}
    BY <1>1, <2>1, ConjunctsAre
  <2>3. ~IsSigning(e)
    BY <2>1 DEF IsSigning, IsVerify, IsCallOf
  <2> QED BY <1>4, <2>1, <2>2, <2>3 DEF Plain
<1>8. Truthful(Meaning(e, env))
  BY <1>7, DemandHolds
<1>9. IsTruth(Meaning(e, env))
  <2>1. Meaning(e, env) = BinaryMeaning(e.op, Meaning(e.kids[1], env), Meaning(e.kids[2], env))
    BY <1>1, <1>3, MeaningOfBinary
  <2> QED BY <1>6, <2>1, BinaryIsTruth
<1>10. Meaning(e, env) = Truth(TRUE)
  BY <1>8, <1>9, Zenon DEF Truthful, IsTruth, Truthy, Truth
<1> QED BY <1>1, <1>6, <1>10, ComparisonBinds

\* Counts, bindings and successors, for one accepted spend.
LEMMA SpendIsModelled == IInv => ModelIsTrue
<1> SUFFICES ASSUME IInv, stage = "spent", RegularForm, KeysFollowScripts,
                    LocksOfTheirKind(spend.tx, spend.witness, spend.now)
             PROVE  LET model == TransitionModel(Path)
                    IN  /\ \A fact \in model.counts :
                               fact.n = Len(IF fact.of = "input_count" THEN spend.tx.inputs ELSE spend.tx.outputs)
                        /\ \A b \in model.bindings :
                               BindingHolds(b, Environment(spend.tx, spend.witness, spend.now))
                        /\ \A e \in ToSet(Requires(Path)) : \A c \in ToSet(Conjuncts[e]) :
                               IsCallOf(c, "continuation") =>
                                   \A i \in OutputIndex(c.kids[3]) : i < Len(spend.tx.outputs)
  BY Zenon DEF ModelIsTrue
<1> DEFINE env == Environment(spend.tx, spend.witness, spend.now)
<1>1. OnChain /\ Sane
  BY DEF OnChain, Sane
<1>2. Agrees(env)
  BY <1>1, EnvironmentAgrees
<1>3. env.tx = spend.tx
  BY <1>2 DEF Agrees
<1> HIDE DEF env
<1>4. Path \in Paths
  BY <1>1, SpendFacts
<1>5. ASSUME NEW fact \in ExactCounts(Path)
      PROVE  fact.n = Len(IF fact.of = "input_count" THEN spend.tx.inputs ELSE spend.tx.outputs)
  <2>1. PICK e \in ToSet(Requires(Path)) : \E c \in ToSet(Conjuncts[e]) : fact \in ExactCount(c)
    BY <1>4, CountsOfPath
  <2>2. PICK c \in ToSet(Conjuncts[e]) : fact \in ExactCount(c)
    BY <2>1
  <2>3. fact.n = Len(CoinNumbers(fact.of, env.tx))
    BY <1>1, <1>2, <2>2, CountHolds
  <2> QED BY <1>3, <2>3, Zenon DEF CoinNumbers
<1>6. ASSUME NEW e \in ToSet(Requires(Path)), NEW b \in OutputBinding(e) PROVE BindingHolds(b, env)
  BY <1>1, <1>2, RequirementBinds
<1>7. ASSUME NEW e \in ToSet(Requires(Path)), NEW c \in ToSet(Conjuncts[e]), IsCallOf(c, "continuation"),
             NEW i \in OutputIndex(c.kids[3])
      PROVE  i < Len(spend.tx.outputs)
  BY <1>1, <1>2, <1>3, <1>7, ContinuationHolds
<1> DEFINE model == TransitionModel(Path)
<1>8. model.counts = ExactCounts(Path) /\ model.bindings = UNION {OutputBinding(e) : e \in ToSet(Requires(Path))}
  BY DEF TransitionModel
<1> HIDE DEF model
<1>9. \A b \in model.bindings : BindingHolds(b, env)
  BY <1>6, <1>8
<1> QED BY <1>5, <1>7, <1>8, <1>9, Zenon DEF model, env

\* What the application model tells a wallet of a spend path (the exact counts, the
\* bindings of outputs, turned round where the output is on the right, and the
\* successors demanded outright) is true of every spend the chain accepts.
THEOREM ModelSaysTrue == Spec => []ModelIsTrue
<1>1. IInv => ModelIsTrue
  BY SpendIsModelled
<1>2. Spec => []IInv
  BY InvariantHolds
<1> QED BY <1>1, <1>2, PTL

=============================================================================
