-------------------------- MODULE SpendScriptProofs --------------------------
(***************************************************************************)
(* Machine-checked proofs about SpendPath, for all contracts, bindings,    *)
(* transactions and limits.  Here: that the recursive functions over       *)
(* expressions are what their equations say, by induction over trees, what *)
(* lowering, binding and encoding make of code, the inductive invariant of *)
(* the pipeline, that every script it makes is well formed, and what       *)
(* running the code of an instruction, of a value or of a lock leaves.     *)
(* SpendPathProofs goes on from there to what an accepted spend proves.    *)
(***************************************************************************)
EXTENDS SpendPath, Foundations

-----------------------------------------------------------------------------
(* Trees.                                                                  *)

Below(e) == {y \in Exprs : Depth[y] < Depth[e]}

Agree(e, f, g) == \A y \in Below(e) : f[y] = g[y]

LEMMA Trees ==
    ASSUME NEW e \in Exprs
    PROVE  /\ IsSeq(e.kids) /\ Len(e.kids) \in Nat /\ DOMAIN e.kids = 1 .. Len(e.kids)
           /\ e.n \in Nat /\ e.name \in STRING /\ Shaped(e) /\ Depth[e] \in 0 .. MaxDepth
           /\ \A i \in 1 .. Len(e.kids) : e.kids[i] \in Exprs /\ e.kids[i] \in Below(e)
<1>1. e.n \in Nat /\ e.name \in STRING /\ Shaped(e) /\ e.kids \in Seq(Exprs)
  BY ExprsAssumption
<1>2. Depth[e] \in 0 .. MaxDepth
  BY ExprsAssumption
<1>3. IsSeq(e.kids)
  BY <1>1, TypedIsSeq
<1>4. Len(e.kids) \in Nat /\ DOMAIN e.kids = 1 .. Len(e.kids)
  BY <1>3, SeqProps
<1>5. \A i \in 1 .. Len(e.kids) : e.kids[i] \in Exprs
  BY <1>1
<1>6. \A i \in DOMAIN e.kids : Depth[e.kids[i]] < Depth[e]
  BY ExprsAssumption
<1> QED BY <1>1, <1>2, <1>3, <1>4, <1>5, <1>6 DEF Below

LEMMA BelowBelow ==
    ASSUME NEW e \in Exprs, NEW t \in Below(e), NEW u \in Below(t)
    PROVE  u \in Below(e)
<1>1. t \in Exprs /\ u \in Exprs
  BY DEF Below
<1>2. Depth[e] \in Int /\ Depth[t] \in Int /\ Depth[u] \in Int
  BY <1>1, Trees
<1> QED BY <1>1, <1>2 DEF Below

\* The parts of the parts.
LEMMA Grandkids ==
    ASSUME NEW e \in Exprs, NEW i \in 1 .. Len(e.kids), NEW j \in 1 .. Len(e.kids[i].kids)
    PROVE  e.kids[i].kids[j] \in Exprs /\ e.kids[i].kids[j] \in Below(e)
<1>1. e.kids[i] \in Exprs /\ e.kids[i] \in Below(e)
  BY Trees
<1>2. e.kids[i].kids[j] \in Exprs /\ e.kids[i].kids[j] \in Below(e.kids[i])
  BY <1>1, Trees
<1> QED BY <1>1, <1>2, BelowBelow

\* What is said of every expression whose parts it is said of.
LEMMA TreeInduction ==
    ASSUME NEW T, T \subseteq Exprs,
           \A e \in Exprs : (\A y \in Below(e) : y \in T) => e \in T
    PROVE  T = Exprs
<1> DEFINE N == {n \in Nat : \A e \in Exprs : Depth[e] < n => e \in T}
<1>1. \A e \in Exprs : Depth[e] \in 0 .. MaxDepth
  BY Trees
<1>2. 0 \in N
  BY <1>1
<1>3. ASSUME NEW n \in N PROVE n + 1 \in N
  <2> SUFFICES ASSUME NEW e \in Exprs, Depth[e] < n + 1 PROVE e \in T
    OBVIOUS
  <2>1. \A y \in Below(e) : y \in Exprs /\ Depth[y] < n
    BY <1>1 DEF Below
  <2>2. \A y \in Below(e) : y \in T
    BY <2>1
  <2> QED BY <2>2
<1>4. N \in SUBSET Nat
  OBVIOUS
<1> HIDE DEF N
<1>5. N = Nat
  BY <1>2, <1>3, <1>4, NatInductionOnSet
<1>6. MaxDepth + 1 \in N
  BY <1>5, ExprsAssumption
<1>7. \A e \in Exprs : e \in T
  BY <1>6, <1>1, ExprsAssumption DEF N
<1> QED BY <1>7

\* The arguments of a call.
LEMMA Calls ==
    ASSUME NEW e \in Exprs, e.op = "call"
    PROVE  /\ Len(e.kids) > 0 /\ Callee(e) \in Exprs /\ Callee(e) \in Below(e)
           /\ IsSeq(Args(e)) /\ Len(Args(e)) = Len(e.kids) - 1 /\ Len(Args(e)) \in Nat
           /\ DOMAIN Args(e) = 1 .. Len(Args(e))
           /\ \A i \in 1 .. Len(Args(e)) :
                Args(e)[i] = e.kids[i + 1] /\ Args(e)[i] \in Exprs /\ Args(e)[i] \in Below(e)
<1> DEFINE ks == e.kids
           n  == Len(ks)
<1>1. IsSeq(ks) /\ n \in Nat /\ \A i \in 1 .. n : ks[i] \in Exprs /\ ks[i] \in Below(e)
  BY Trees
<1>2. n > 0
  <2>1. Shaped(e)
    BY Trees
  <2> QED BY <2>1 DEF Shaped
<1>3. ks \in Seq(Exprs)
  BY ExprsAssumption
<1> HIDE DEF ks
<1>4. Tail(ks) = SubSeq(ks, 2, n)
  BY <1>2, <1>3, TailIsSubSeq
<1> DEFINE two == 2
<1>5. two \in 1 .. n + 1 /\ n \in 0 .. n /\ two <= n + 1 /\ n - two + 1 = n - 1 /\ \A i : i \in Nat => two + i - 1 = i + 1
  BY <1>1, <1>2
<1>7. Tail(ks) = SubSeq(ks, two, n)
  BY <1>4
<1> HIDE DEF two
<1>8. /\ IsSeq(SubSeq(ks, two, n)) /\ Len(SubSeq(ks, two, n)) = n - two + 1
      /\ \A i \in 1 .. n - two + 1 : SubSeq(ks, two, n)[i] = ks[two + i - 1]
  BY <1>1, <1>5, StretchSeq
<1>8a. ASSUME NEW i \in 1 .. n - 1 PROVE Tail(ks)[i] = ks[i + 1]
  <2>1. i \in 1 .. n - two + 1 /\ two + i - 1 = i + 1
    BY <1>1, <1>5
  <2>2. SubSeq(ks, two, n)[i] = ks[two + i - 1]
    BY <1>8, <2>1
  <2> QED BY <1>7, <2>1, <2>2
<1>8b. Len(Tail(ks)) = n - 1
  BY <1>5, <1>7, <1>8
<1>9. IsSeq(Tail(ks)) /\ Len(Tail(ks)) = n - 1 /\ \A i \in 1 .. n - 1 : Tail(ks)[i] = ks[i + 1]
  BY <1>7, <1>8, <1>8a, <1>8b
<1>10. DOMAIN Tail(ks) = 1 .. n - 1
  BY <1>9, SeqProps
<1>11. ks[1] \in Exprs /\ ks[1] \in Below(e)
  BY <1>1, <1>2
<1>12. \A i \in 1 .. n - 1 : i + 1 \in 1 .. n
  BY <1>1
<1>13. \A i \in 1 .. n - 1 : Tail(ks)[i] \in Exprs /\ Tail(ks)[i] \in Below(e)
  BY <1>1, <1>9, <1>12
<1> QED BY <1>1, <1>2, <1>9, <1>10, <1>11, <1>13 DEF Callee, Args, ks

-----------------------------------------------------------------------------
(* Every recursive function over trees is what its definition says.        *)

ExprsOf(p)      == Exprs
DepthOfExpr(p, e) == Depth[e]

LEMMA DepthsAreBounded == ASSUME NEW p PROVE \A e \in ExprsOf(p) : DepthOfExpr(p, e) \in 0 .. MaxDepth
BY Trees DEF ExprsOf, DepthOfExpr

\* Sequences made of values at expressions below.
LEMMA SameList ==
    ASSUME NEW e \in Exprs, NEW f, NEW g, Agree(e, f, g), NEW es, \A i \in DOMAIN es : es[i] \in Below(e)
    PROVE  [i \in DOMAIN es |-> f[es[i]]] = [i \in DOMAIN es |-> g[es[i]]]
<1>1. \A i \in DOMAIN es : f[es[i]] = g[es[i]]
  BY DEF Agree
<1> QED BY <1>1, Zenon

LEMMA SameLowerAll ==
    ASSUME NEW e \in Exprs, NEW f, NEW g, Agree(e, f, g), NEW es, \A i \in DOMAIN es : es[i] \in Below(e)
    PROVE  LowerAll(es, f) = LowerAll(es, g)
<1>1. [i \in DOMAIN es |-> f[es[i]]] = [i \in DOMAIN es |-> g[es[i]]]
  BY SameList
<1> QED BY <1>1, Zenon DEF LowerAll

LEMMA SameKid ==
    ASSUME NEW e \in Exprs, NEW f, NEW g, Agree(e, f, g)
    PROVE  /\ \A i \in 1 .. Len(e.kids) : f[e.kids[i]] = g[e.kids[i]]
           /\ \A i \in 1 .. Len(e.kids) : \A j \in 1 .. Len(e.kids[i].kids) :
                f[e.kids[i].kids[j]] = g[e.kids[i].kids[j]]
           /\ [i \in DOMAIN e.kids |-> f[e.kids[i]]] = [i \in DOMAIN e.kids |-> g[e.kids[i]]]
<1>1. \A i \in 1 .. Len(e.kids) : e.kids[i] \in Below(e)
  BY Trees
<1>2. \A i \in 1 .. Len(e.kids) : \A j \in 1 .. Len(e.kids[i].kids) : e.kids[i].kids[j] \in Below(e)
  BY Grandkids
<1>3. DOMAIN e.kids = 1 .. Len(e.kids)
  BY Trees
<1>4. [i \in DOMAIN e.kids |-> f[e.kids[i]]] = [i \in DOMAIN e.kids |-> g[e.kids[i]]]
  BY <1>1, <1>3, SameList
<1> QED BY <1>1, <1>2, <1>4 DEF Agree

\* How many parts each kind of expression has.
LEMMA Kinds ==
    ASSUME NEW e \in Exprs
    PROVE  /\ e.op \in {"not", "negate", "field"} => Len(e.kids) = 1
           /\ IsBinary(e) => Len(e.kids) = 2
           /\ e.op = "call" => Len(e.kids) > 0
           /\ e.op \in {"ident", "int", "string", "bool"} => Len(e.kids) = 0
           /\ e.op \in {"ident", "int", "string", "bool", "not", "negate", "field", "call", "array"} \/ IsBinary(e)
<1>1. Shaped(e)
  BY Trees
<1> QED BY <1>1 DEF Shaped, IsBinary, Logical, Comparisons, Arithmetic

LEMMA SameArg ==
    ASSUME NEW e \in Exprs, NEW f, NEW g, Agree(e, f, g), e.op = "call"
    PROVE  /\ f[Callee(e)] = g[Callee(e)]
           /\ Callee(e).op = "field" => f[Callee(e).kids[1]] = g[Callee(e).kids[1]]
           /\ \A i \in DOMAIN Args(e) : f[Args(e)[i]] = g[Args(e)[i]]
           /\ \A i \in DOMAIN Args(e) : Args(e)[i] \in Below(e)
           /\ \A i \in DOMAIN Args(e) : \A j \in DOMAIN Args(e)[i].kids :
                f[Args(e)[i].kids[j]] = g[Args(e)[i].kids[j]]
           /\ \A i \in DOMAIN Args(e) :
                [j \in DOMAIN Args(e)[i].kids |-> f[Args(e)[i].kids[j]]] =
                    [j \in DOMAIN Args(e)[i].kids |-> g[Args(e)[i].kids[j]]]
           /\ LowerAll(Args(e), f) = LowerAll(Args(e), g)
<1>1. /\ Len(e.kids) > 0 /\ Callee(e) \in Exprs /\ Callee(e) \in Below(e)
      /\ DOMAIN Args(e) = 1 .. Len(Args(e))
      /\ \A i \in 1 .. Len(Args(e)) : Args(e)[i] \in Exprs /\ Args(e)[i] \in Below(e)
  BY Calls
<1>2. ASSUME Callee(e).op = "field" PROVE Callee(e).kids[1] \in Below(e)
  <2>1. Len(Callee(e).kids) = 1
    BY <1>1, <1>2, Kinds
  <2>2. Callee(e).kids[1] \in Below(Callee(e))
    BY <1>1, <2>1, Trees
  <2> QED BY <1>1, <2>2, BelowBelow
<1>3. ASSUME NEW i \in DOMAIN Args(e) PROVE \A j \in DOMAIN Args(e)[i].kids : Args(e)[i].kids[j] \in Below(e)
  <2>1. Args(e)[i] \in Exprs /\ Args(e)[i] \in Below(e)
    BY <1>1
  <2>2. \A j \in DOMAIN Args(e)[i].kids : Args(e)[i].kids[j] \in Below(Args(e)[i])
    BY <2>1, Trees
  <2> QED BY <2>1, <2>2, BelowBelow
<1>4. \A i \in DOMAIN Args(e) : Args(e)[i] \in Below(e)
  BY <1>1
<1>5. LowerAll(Args(e), f) = LowerAll(Args(e), g)
  BY <1>4, SameLowerAll
<1>6. ASSUME NEW i \in DOMAIN Args(e)
      PROVE  [j \in DOMAIN Args(e)[i].kids |-> f[Args(e)[i].kids[j]]] =
                [j \in DOMAIN Args(e)[i].kids |-> g[Args(e)[i].kids[j]]]
  <2> DEFINE es == Args(e)[i].kids
  <2>1. \A j \in DOMAIN es : es[j] \in Below(e)
    BY <1>3
  <2> HIDE DEF es
  <2>2. [j \in DOMAIN es |-> f[es[j]]] = [j \in DOMAIN es |-> g[es[j]]]
    BY <2>1, SameList
  <2> QED BY <2>2 DEF es
<1> QED BY <1>1, <1>2, <1>3, <1>4, <1>5, <1>6 DEF Agree

LowerOf(p, e, f)    == LowerFrom(e, f)
SubtermsOf(p, e, f)  == SubtermsFrom(e, f)
ConjunctsOf(p, e, f) == ConjunctsFrom(e, f)
ArgumentsOfAs(p, e, f) == ArgumentsFrom(e, f)
MeaningOf(env, e, f)   == MeaningFrom(env, e, f)
ValueOf(args, e, f)    == ValueFrom(args, e, f)
ConditionOf(p, e, f) == ConditionFrom(p[1], p[2], e, f)
TypeOfAs(ctx, e, f)    == TypeFrom(ctx, e, f)
WellTypedOf(ctx, e, f) == WellTypedFrom(ctx, e, f)

Lowering   == INSTANCE Recursion WITH Domain <- ExprsOf, Size <- DepthOfExpr, From <- LowerOf
Subterming == INSTANCE Recursion WITH Domain <- ExprsOf, Size <- DepthOfExpr, From <- SubtermsOf
Conjoining == INSTANCE Recursion WITH Domain <- ExprsOf, Size <- DepthOfExpr, From <- ConjunctsOf
Arguing    == INSTANCE Recursion WITH Domain <- ExprsOf, Size <- DepthOfExpr, From <- ArgumentsOfAs
Evaluating == INSTANCE Recursion WITH Domain <- ExprsOf, Size <- DepthOfExpr, From <- MeaningOf
Valuing    == INSTANCE Recursion WITH Domain <- ExprsOf, Size <- DepthOfExpr, From <- ValueOf
Requiring  == INSTANCE Recursion WITH Domain <- ExprsOf, Size <- DepthOfExpr, From <- ConditionOf
Typing     == INSTANCE Recursion WITH Domain <- ExprsOf, Size <- DepthOfExpr, From <- TypeOfAs
Checking   == INSTANCE Recursion WITH Domain <- ExprsOf, Size <- DepthOfExpr, From <- WellTypedOf

\* Agreement below, as the theorem on recursive functions states it.
LEMMA AgreeBelow ==
    ASSUME NEW p, NEW e \in Exprs, NEW f, NEW g,
           \A y \in ExprsOf(p) : DepthOfExpr(p, y) < DepthOfExpr(p, e) => f[y] = g[y]
    PROVE  Agree(e, f, g)
BY DEF ExprsOf, DepthOfExpr, Agree, Below

LEMMA LowerUnfolds ==
    /\ Lower = [e \in Exprs |-> LowerFrom(e, Lower)]
    /\ \A e \in Exprs : Lower[e] = LowerFrom(e, Lower)
<1> DEFINE none == 0
<1> HIDE DEF none
<1>1. ASSUME NEW e \in Exprs, NEW f, NEW g, Agree(e, f, g) PROVE LowerFrom(e, f) = LowerFrom(e, g)
  <2>1. CASE e.op = "call"
    <3>1. LowerCall(e, f) = LowerCall(e, g)
      BY <1>1, <2>1, SameArg DEF LowerCall, LowerNth, LowerMultisig, IsVerify
    <3> QED BY <2>1, <3>1 DEF LowerFrom
  <2>2. CASE e.op = "field"
    <3>1. Len(e.kids) = 1
      BY <2>2, Kinds
    <3>2. f[e.kids[1]] = g[e.kids[1]]
      BY <1>1, <3>1, SameKid
    <3>3. LowerField(e, f) = LowerField(e, g)
      BY <3>2 DEF LowerField
    <3> QED BY <2>2, <3>3 DEF LowerFrom
  <2>3. CASE e.op = "array"
    <3>1. \A i \in DOMAIN e.kids : e.kids[i] \in Below(e)
      BY Trees
    <3>2. LowerAll(e.kids, f) = LowerAll(e.kids, g)
      BY <1>1, <3>1, SameLowerAll
    <3> QED BY <2>3, <3>2 DEF LowerFrom
  <2>4. CASE e.op = "not"
    <3>1. f[e.kids[1]] = g[e.kids[1]]
      BY <1>1, <2>4, Kinds, SameKid
    <3> QED BY <2>4, <3>1 DEF LowerFrom
  <2>5. CASE IsBinary(e)
    <3>1. f[e.kids[1]] = g[e.kids[1]] /\ f[e.kids[2]] = g[e.kids[2]]
      BY <1>1, <2>5, Kinds, SameKid
    <3>2. LowerBinary(e, f) = LowerBinary(e, g)
      BY <3>1 DEF LowerBinary
    <3> QED BY <2>5, <3>2 DEF LowerFrom, IsBinary, Logical, Comparisons, Arithmetic
  <2>6. CASE e.op \in {"ident", "int", "string", "bool", "negate"}
    BY <2>6 DEF LowerFrom
  <2> QED BY <2>1, <2>2, <2>3, <2>4, <2>5, <2>6, Kinds
<1>2. Lowering!UsesSmaller(none)
  BY <1>1, AgreeBelow DEF Lowering!UsesSmaller, LowerOf, ExprsOf
<1>3. Lowering!Measured(none, MaxDepth)
  BY DepthsAreBounded DEF Lowering!Measured
<1>4. \E f : Lowering!Defines(none, f)
  <2>0. Lowering!Induction
    BY NatInductionOnSet DEF Lowering!Induction
  <2> QED BY <2>0, <1>2, <1>3, Lowering!Exists, ExprsAssumption
<1>5. \E f : f = [e \in Exprs |-> LowerFrom(e, f)]
  BY <1>4 DEF Lowering!Defines, LowerOf, ExprsOf
<1>6. Lower = [e \in Exprs |-> LowerFrom(e, Lower)]
  BY <1>5, Zenon DEF Lower
<1> QED BY <1>6, Zenon


LEMMA SubtermsUnfolds == \A e \in Exprs : Subterms[e] = SubtermsFrom(e, Subterms)
<1> DEFINE none == 0
<1> HIDE DEF none
<1>1. ASSUME NEW e \in Exprs, NEW f, NEW g, Agree(e, f, g) PROVE SubtermsFrom(e, f) = SubtermsFrom(e, g)
  <2>1. [i \in DOMAIN e.kids |-> f[e.kids[i]]] = [i \in DOMAIN e.kids |-> g[e.kids[i]]]
    BY <1>1, SameKid
  <2> QED BY <2>1, Zenon DEF SubtermsFrom
<1>2. Subterming!UsesSmaller(none)
  BY <1>1, AgreeBelow DEF Subterming!UsesSmaller, SubtermsOf, ExprsOf
<1>3. Subterming!Measured(none, MaxDepth)
  BY DepthsAreBounded DEF Subterming!Measured
<1>4. \E f : Subterming!Defines(none, f)
  <2>0. Subterming!Induction
    BY NatInductionOnSet DEF Subterming!Induction
  <2> QED BY <2>0, <1>2, <1>3, Subterming!Exists, ExprsAssumption
<1>5. \E f : f = [e \in Exprs |-> SubtermsFrom(e, f)]
  BY <1>4 DEF Subterming!Defines, SubtermsOf, ExprsOf
<1>6. Subterms = [e \in Exprs |-> SubtermsFrom(e, Subterms)]
  BY <1>5, Zenon DEF Subterms
<1> QED BY <1>6, Zenon

LEMMA ConjunctsUnfolds == \A e \in Exprs : Conjuncts[e] = ConjunctsFrom(e, Conjuncts)
<1> DEFINE none == 0
<1> HIDE DEF none
<1>1. ASSUME NEW e \in Exprs, NEW f, NEW g, Agree(e, f, g) PROVE ConjunctsFrom(e, f) = ConjunctsFrom(e, g)
  <2>1. CASE e.op = "and"
    <3>1. IsBinary(e)
      BY <2>1 DEF IsBinary, Logical
    <3>2. f[e.kids[1]] = g[e.kids[1]] /\ f[e.kids[2]] = g[e.kids[2]]
      BY <1>1, <3>1, Kinds, SameKid
    <3> QED BY <3>2 DEF ConjunctsFrom
  <2>2. CASE e.op # "and"
    BY <2>2 DEF ConjunctsFrom
  <2> QED BY <2>1, <2>2
<1>2. Conjoining!UsesSmaller(none)
  BY <1>1, AgreeBelow DEF Conjoining!UsesSmaller, ConjunctsOf, ExprsOf
<1>3. Conjoining!Measured(none, MaxDepth)
  BY DepthsAreBounded DEF Conjoining!Measured
<1>4. \E f : Conjoining!Defines(none, f)
  <2>0. Conjoining!Induction
    BY NatInductionOnSet DEF Conjoining!Induction
  <2> QED BY <2>0, <1>2, <1>3, Conjoining!Exists, ExprsAssumption
<1>5. \E f : f = [e \in Exprs |-> ConjunctsFrom(e, f)]
  BY <1>4 DEF Conjoining!Defines, ConjunctsOf, ExprsOf
<1>6. Conjuncts = [e \in Exprs |-> ConjunctsFrom(e, Conjuncts)]
  BY <1>5, Zenon DEF Conjuncts
<1> QED BY <1>6, Zenon

LEMMA ArgumentsUnfold == \A e \in Exprs : ArgumentsOf[e] = ArgumentsFrom(e, ArgumentsOf)
<1> DEFINE none == 0
<1> HIDE DEF none
<1>1. ASSUME NEW e \in Exprs, NEW f, NEW g, Agree(e, f, g) PROVE ArgumentsFrom(e, f) = ArgumentsFrom(e, g)
  <2>1. [i \in DOMAIN e.kids |-> f[e.kids[i]]] = [i \in DOMAIN e.kids |-> g[e.kids[i]]]
    BY <1>1, SameKid
  <2> QED BY <2>1, Zenon DEF ArgumentsFrom
<1>2. Arguing!UsesSmaller(none)
  BY <1>1, AgreeBelow DEF Arguing!UsesSmaller, ArgumentsOfAs, ExprsOf
<1>3. Arguing!Measured(none, MaxDepth)
  BY DepthsAreBounded DEF Arguing!Measured
<1>4. \E f : Arguing!Defines(none, f)
  <2>0. Arguing!Induction
    BY NatInductionOnSet DEF Arguing!Induction
  <2> QED BY <2>0, <1>2, <1>3, Arguing!Exists, ExprsAssumption
<1>5. \E f : f = [e \in Exprs |-> ArgumentsFrom(e, f)]
  BY <1>4 DEF Arguing!Defines, ArgumentsOfAs, ExprsOf
<1>6. ArgumentsOf = [e \in Exprs |-> ArgumentsFrom(e, ArgumentsOf)]
  BY <1>5, Zenon DEF ArgumentsOf
<1> QED BY <1>6, Zenon

LEMMA MeaningUnfolds ==
    ASSUME NEW env
    PROVE  \E of : (\A e \in Exprs : of[e] = MeaningFrom(env, e, of)) /\ \A e : Meaning(e, env) = of[e]
<1>1. ASSUME NEW e \in Exprs, NEW f, NEW g, Agree(e, f, g) PROVE MeaningFrom(env, e, f) = MeaningFrom(env, e, g)
  <2>1. CASE e.op = "call"
    <3>1. ASSUME NEW i \in DOMAIN Args(e)
          PROVE  [j \in DOMAIN Args(e)[i].kids |-> f[Args(e)[i].kids[j]]] =
                    [j \in DOMAIN Args(e)[i].kids |-> g[Args(e)[i].kids[j]]]
      BY <1>1, <2>1, SameArg
    <3>2. /\ Callee(e).op = "field" => f[Callee(e).kids[1]] = g[Callee(e).kids[1]]
          /\ \A i \in DOMAIN Args(e) : f[Args(e)[i]] = g[Args(e)[i]]
      BY <1>1, <2>1, SameArg
    <3>3. DOMAIN Args(e) = 1 .. Len(Args(e))
      BY <2>1, Calls
    <3>4. CallMeaning(e, env, f) = CallMeaning(e, env, g)
      <4>1. CASE IsVerify(e) /\ Len(Args(e)) = 1
        BY <4>1, <3>2, <3>3 DEF CallMeaning, IsVerify, IsCallOf, IsName
      <4>2. CASE IsCallOf(e, "multisig") /\ Len(Args(e)) = 3
        <5>1. 2 \in DOMAIN Args(e) /\ 3 \in DOMAIN Args(e)
          BY <3>3, <4>2
        <5>2. ~IsVerify(e)
          BY <4>2 DEF IsVerify, IsCallOf, IsName
        <5>3. [j \in DOMAIN Args(e)[2].kids |-> f[Args(e)[2].kids[j]]] =
                 [j \in DOMAIN Args(e)[2].kids |-> g[Args(e)[2].kids[j]]]
          BY <3>1, <5>1
        <5>4. [j \in DOMAIN Args(e)[3].kids |-> f[Args(e)[3].kids[j]]] =
                 [j \in DOMAIN Args(e)[3].kids |-> g[Args(e)[3].kids[j]]]
          BY <3>1, <5>1
        <5>5. ~(IsCallOf(e, "continuation")) /\ ~(\E h \in HashFunctions : IsCallOf(e, h))
          BY <4>2 DEF IsCallOf, IsName, HashFunctions
        <5> QED BY <4>2, <5>2, <5>3, <5>4, <5>5, Zenon DEF CallMeaning
      <4>3. CASE ~(IsVerify(e) /\ Len(Args(e)) = 1) /\ ~(IsCallOf(e, "multisig") /\ Len(Args(e)) = 3)
        <5>1. Len(Args(e)) = 1 => f[Args(e)[1]] = g[Args(e)[1]]
          BY <3>2, <3>3
        <5>2. CASE Len(Args(e)) = 1 /\ \E h \in HashFunctions : IsCallOf(e, h)
          <6>1. ~(IsCallOf(e, "continuation"))
            BY <5>2 DEF IsCallOf, IsName, HashFunctions
          <6> QED BY <4>3, <5>1, <5>2, <6>1, Zenon DEF CallMeaning
        <5>3. CASE ~(Len(Args(e)) = 1 /\ \E h \in HashFunctions : IsCallOf(e, h))
          BY <4>3, <5>3, Zenon DEF CallMeaning
        <5> QED BY <5>2, <5>3
      <4> QED BY <4>1, <4>2, <4>3
    <3> QED BY <2>1, <3>4 DEF MeaningFrom, IsBinary, Logical, Comparisons, Arithmetic
  <2>2. CASE e.op = "not"
    <3>1. f[e.kids[1]] = g[e.kids[1]]
      BY <1>1, <2>2, Kinds, SameKid
    <3> QED BY <2>2, <3>1 DEF MeaningFrom
  <2>3. CASE IsBinary(e)
    <3>1. f[e.kids[1]] = g[e.kids[1]] /\ f[e.kids[2]] = g[e.kids[2]]
      BY <1>1, <2>3, Kinds, SameKid
    <3> QED BY <2>3, <3>1 DEF MeaningFrom, IsBinary, Logical, Comparisons, Arithmetic
  <2>4. CASE e.op \in {"ident", "int", "string", "bool", "negate", "array", "field"}
    BY <2>4 DEF MeaningFrom, IsBinary, Logical, Comparisons, Arithmetic
  <2> QED BY <2>1, <2>2, <2>3, <2>4, Kinds
<1>2. Evaluating!UsesSmaller(env)
  BY <1>1, AgreeBelow DEF Evaluating!UsesSmaller, MeaningOf, ExprsOf
<1>3. Evaluating!Measured(env, MaxDepth)
  BY DepthsAreBounded DEF Evaluating!Measured
<1>4. \E f : Evaluating!Defines(env, f)
  <2>0. Evaluating!Induction
    BY NatInductionOnSet DEF Evaluating!Induction
  <2> QED BY <2>0, <1>2, <1>3, Evaluating!Exists, ExprsAssumption
<1>5. \E f : f = [e \in Exprs |-> MeaningFrom(env, e, f)]
  BY <1>4 DEF Evaluating!Defines, MeaningOf, ExprsOf
<1> DEFINE of == CHOOSE f : f = [e \in Exprs |-> MeaningFrom(env, e, f)]
<1>6. of = [e \in Exprs |-> MeaningFrom(env, e, of)]
  BY <1>5, Zenon
<1>7. \A e : Meaning(e, env) = of[e]
  BY Zenon DEF Meaning
<1> HIDE DEF of
<1>8. \A e \in Exprs : of[e] = MeaningFrom(env, e, of)
  BY <1>6, Zenon
<1> QED BY <1>7, <1>8


LEMMA ValueUnfolds ==
    ASSUME NEW args
    PROVE  \E value : (\A e \in Exprs : value[e] = ValueFrom(args, e, value)) /\ \A e : IsValue(e, args) = value[e]
<1>1. ASSUME NEW e \in Exprs, NEW f, NEW g, Agree(e, f, g) PROVE ValueFrom(args, e, f) = ValueFrom(args, e, g)
  <2>1. CASE e.op = "call"
    <3>3. DOMAIN Args(e) = 1 .. Len(Args(e))
      BY <2>1, Calls
    <3>2. /\ Callee(e).op = "field" => f[Callee(e).kids[1]] = g[Callee(e).kids[1]]
          /\ f[Callee(e)] = g[Callee(e)]
          /\ \A i \in DOMAIN Args(e) : f[Args(e)[i]] = g[Args(e)[i]]
      BY <1>1, <2>1, SameArg
    <3>4. Len(Args(e)) = 1 => f[Args(e)[1]] = g[Args(e)[1]]
      BY <3>2, <3>3
    <3> QED BY <2>1, <3>4 DEF ValueFrom, IsBinary, IsLock, IsPlainLock, Logical, Comparisons, Arithmetic, IsCallOf
  <2>2. CASE e.op = "not"
    <3>1. f[e.kids[1]] = g[e.kids[1]]
      BY <1>1, <2>2, Kinds, SameKid
    <3> QED BY <2>2, <3>1 DEF ValueFrom
  <2>3. CASE IsBinary(e)
    <3>1. f[e.kids[1]] = g[e.kids[1]] /\ f[e.kids[2]] = g[e.kids[2]]
      BY <1>1, <2>3, Kinds, SameKid
    <3> QED BY <2>3, <3>1 DEF ValueFrom, IsBinary, Logical, Comparisons, Arithmetic
  <2>4. CASE e.op \in {"ident", "int", "string", "bool", "negate", "array", "field"}
    BY <2>4 DEF ValueFrom, IsBinary, IsLock, IsPlainLock, IsCallOf, Logical, Comparisons, Arithmetic
  <2> QED BY <2>1, <2>2, <2>3, <2>4, Kinds
<1>2. Valuing!UsesSmaller(args)
  BY <1>1, AgreeBelow DEF Valuing!UsesSmaller, ValueOf, ExprsOf
<1>3. Valuing!Measured(args, MaxDepth)
  BY DepthsAreBounded DEF Valuing!Measured
<1>4. \E f : Valuing!Defines(args, f)
  <2>0. Valuing!Induction
    BY NatInductionOnSet DEF Valuing!Induction
  <2> QED BY <2>0, <1>2, <1>3, Valuing!Exists, ExprsAssumption
<1>5. \E f : f = [e \in Exprs |-> ValueFrom(args, e, f)]
  BY <1>4 DEF Valuing!Defines, ValueOf, ExprsOf
<1> DEFINE value == CHOOSE f : f = [e \in Exprs |-> ValueFrom(args, e, f)]
<1>6. value = [e \in Exprs |-> ValueFrom(args, e, value)]
  BY <1>5, Zenon
<1>7. \A e : IsValue(e, args) = value[e]
  BY Zenon DEF IsValue
<1> HIDE DEF value
<1>8. \A e \in Exprs : value[e] = ValueFrom(args, e, value)
  BY <1>6, Zenon
<1> QED BY <1>7, <1>8

LEMMA ConditionUnfolds ==
    ASSUME NEW params, NEW args
    PROVE  \E condition : (\A e \in Exprs : condition[e] = ConditionFrom(params, args, e, condition)) /\ \A e : IsCondition(e, params, args) = condition[e]
<1> DEFINE both == <<params, args>>
<1>0. both[1] = params /\ both[2] = args
  OBVIOUS
<1> HIDE DEF both
<1>1. ASSUME NEW e \in Exprs, NEW f, NEW g, Agree(e, f, g) PROVE ConditionFrom(params, args, e, f) = ConditionFrom(params, args, e, g)
  <2>1. \A i \in DOMAIN e.kids : f[e.kids[i]] = g[e.kids[i]]
    BY <1>1, SameKid, Trees
  <2> QED BY <2>1 DEF ConditionFrom
<1>2. Requiring!UsesSmaller(both)
  BY <1>1, <1>0, AgreeBelow DEF Requiring!UsesSmaller, ConditionOf, ExprsOf
<1>3. Requiring!Measured(both, MaxDepth)
  BY DepthsAreBounded DEF Requiring!Measured
<1>4. \E f : Requiring!Defines(both, f)
  <2>0. Requiring!Induction
    BY NatInductionOnSet DEF Requiring!Induction
  <2> QED BY <2>0, <1>2, <1>3, Requiring!Exists, ExprsAssumption
<1>5. \E f : f = [e \in Exprs |-> ConditionFrom(params, args, e, f)]
  BY <1>0, <1>4 DEF Requiring!Defines, ConditionOf, ExprsOf
<1> DEFINE condition == CHOOSE f : f = [e \in Exprs |-> ConditionFrom(params, args, e, f)]
<1>6. condition = [e \in Exprs |-> ConditionFrom(params, args, e, condition)]
  BY <1>5, Zenon
<1>7. \A e : IsCondition(e, params, args) = condition[e]
  BY Zenon DEF IsCondition
<1> HIDE DEF condition
<1>8. \A e \in Exprs : condition[e] = ConditionFrom(params, args, e, condition)
  BY <1>6, Zenon
<1> QED BY <1>7, <1>8

LEMMA TypeUnfolds ==
    ASSUME NEW ctx
    PROVE  \E type : (\A e \in Exprs : type[e] = TypeFrom(ctx, e, type)) /\ \A e : TypeOf(e, ctx) = type[e]
<1>1. ASSUME NEW e \in Exprs, NEW f, NEW g, Agree(e, f, g) PROVE TypeFrom(ctx, e, f) = TypeFrom(ctx, e, g)
  <2>1. CASE e.op = "field"
    <3>1. f[e.kids[1]] = g[e.kids[1]]
      BY <1>1, <2>1, Kinds, SameKid
    <3>2. FieldType(e, ctx, f) = FieldType(e, ctx, g)
      BY <3>1 DEF FieldType
    <3> QED BY <2>1, <3>2 DEF TypeFrom, Arithmetic, Logical, Comparisons
  <2>2. CASE e.op # "field"
    BY <2>2 DEF TypeFrom, Arithmetic, Logical, Comparisons
  <2> QED BY <2>1, <2>2
<1>2. Typing!UsesSmaller(ctx)
  BY <1>1, AgreeBelow DEF Typing!UsesSmaller, TypeOfAs, ExprsOf
<1>3. Typing!Measured(ctx, MaxDepth)
  BY DepthsAreBounded DEF Typing!Measured
<1>4. \E f : Typing!Defines(ctx, f)
  <2>0. Typing!Induction
    BY NatInductionOnSet DEF Typing!Induction
  <2> QED BY <2>0, <1>2, <1>3, Typing!Exists, ExprsAssumption
<1>5. \E f : f = [e \in Exprs |-> TypeFrom(ctx, e, f)]
  BY <1>4 DEF Typing!Defines, TypeOfAs, ExprsOf
<1> DEFINE type == CHOOSE f : f = [e \in Exprs |-> TypeFrom(ctx, e, f)]
<1>6. type = [e \in Exprs |-> TypeFrom(ctx, e, type)]
  BY <1>5, Zenon
<1>7. \A e : TypeOf(e, ctx) = type[e]
  BY Zenon DEF TypeOf
<1> HIDE DEF type
<1>8. \A e \in Exprs : type[e] = TypeFrom(ctx, e, type)
  BY <1>6, Zenon
<1> QED BY <1>7, <1>8

LEMMA WellTypedUnfolds ==
    ASSUME NEW ctx
    PROVE  \E ok : (\A e \in Exprs : ok[e] = WellTypedFrom(ctx, e, ok)) /\ \A e : WellTyped(e, ctx) = ok[e]
<1>1. ASSUME NEW e \in Exprs, NEW f, NEW g, Agree(e, f, g) PROVE WellTypedFrom(ctx, e, f) = WellTypedFrom(ctx, e, g)
  <2>1. CASE e.op = "call"
    <3>3. DOMAIN Args(e) = 1 .. Len(Args(e))
      BY <2>1, Calls
    <3>2. /\ Callee(e).op = "field" => f[Callee(e).kids[1]] = g[Callee(e).kids[1]]
          /\ f[Callee(e)] = g[Callee(e)]
          /\ \A i \in DOMAIN Args(e) : f[Args(e)[i]] = g[Args(e)[i]]
      BY <1>1, <2>1, SameArg
    <3>5. (\A i \in DOMAIN Args(e) : f[Args(e)[i]]) = (\A i \in DOMAIN Args(e) : g[Args(e)[i]])
      BY <3>2
    <3>6. IsVerify(e) => f[Callee(e).kids[1]] = g[Callee(e).kids[1]]
      BY <3>2 DEF IsVerify
    <3>4. CallWellTyped(e, ctx, f) = CallWellTyped(e, ctx, g)
      <4>1. CASE IsVerify(e)
        <5>1. ~IsCallOf(e, "input") /\ ~IsCallOf(e, "output") /\ ~IsCallOf(e, "continuation")
              /\ ~IsCallOf(e, "zk_verify") /\ ~IsCallOf(e, "multisig") /\ ~\E h \in HashFunctions : IsCallOf(e, h)
          BY <4>1 DEF IsVerify, IsCallOf, IsName
        <5> QED BY <3>5, <3>6, <4>1, <5>1 DEF CallWellTyped
      <4>2. CASE ~IsVerify(e)
        <5>1. f[Callee(e)] = g[Callee(e)]
          BY <3>2
        <5> DEFINE af == \A i \in DOMAIN Args(e) : f[Args(e)[i]]
                   ag == \A i \in DOMAIN Args(e) : g[Args(e)[i]]
                   ft == \E h \in HashFunctions : IsCallOf(e, h)
                   t1 == TypeOf(Args(e)[1], ctx) = "ZKProof"
                   l1 == Len(Args(e)) = 1
                   c1 == Len(Args(e)) = 1 /\ Args(e)[1].op = "int" /\ Args(e)[1].n <= U32Max
                   c2 == Len(Args(e)) = 2 /\ Args(e)[1].op = "string" /\ Args(e)[1].name # "" /\ OutputIndex(Args(e)[2]) # {}
                   c3 == Args(e)[1].op = "int" /\ (Args(e)[2].op = "array" => Args(e)[1].n <= Len(Args(e)[2].kids))
                   l3 == Len(Args(e)) = 3
                   io == IsCallOf(e, "input") \/ IsCallOf(e, "output")
                   co == IsCallOf(e, "continuation")
                   zk == IsCallOf(e, "zk_verify")
                   ms == IsCallOf(e, "multisig")
        <5>2. CallWellTyped(e, ctx, f) =
                CASE io -> c1 [] co -> c2 [] zk -> (l1 /\ af /\ t1) [] ms -> (l3 /\ af /\ c3)
                  [] ft -> (l1 /\ af) [] OTHER -> (f[Callee(e)] /\ af)
          BY <4>2 DEF CallWellTyped
        <5>3. CallWellTyped(e, ctx, g) =
                CASE io -> c1 [] co -> c2 [] zk -> (l1 /\ ag /\ t1) [] ms -> (l3 /\ ag /\ c3)
                  [] ft -> (l1 /\ ag) [] OTHER -> (g[Callee(e)] /\ ag)
          BY <4>2 DEF CallWellTyped
        <5>4. af = ag
          BY <3>5
        <5> HIDE DEF af, ag, ft, t1, l1, c1, c2, c3, l3, io, co, zk, ms
        <5> QED BY <5>1, <5>2, <5>3, <5>4
      <4> QED BY <4>1, <4>2
    <3> QED BY <2>1, <3>4 DEF WellTypedFrom
  <2>2. CASE e.op # "call"
    <3>1. \A i \in DOMAIN e.kids : f[e.kids[i]] = g[e.kids[i]]
      BY <1>1, SameKid, Trees
    <3>2. e.op = "field" => f[e.kids[1]] = g[e.kids[1]]
      BY <1>1, SameKid, Kinds
    <3> QED BY <2>2, <3>1, <3>2 DEF WellTypedFrom
  <2> QED BY <2>1, <2>2
<1>2. Checking!UsesSmaller(ctx)
  BY <1>1, AgreeBelow DEF Checking!UsesSmaller, WellTypedOf, ExprsOf
<1>3. Checking!Measured(ctx, MaxDepth)
  BY DepthsAreBounded DEF Checking!Measured
<1>4. \E f : Checking!Defines(ctx, f)
  <2>0. Checking!Induction
    BY NatInductionOnSet DEF Checking!Induction
  <2> QED BY <2>0, <1>2, <1>3, Checking!Exists, ExprsAssumption
<1>5. \E f : f = [e \in Exprs |-> WellTypedFrom(ctx, e, f)]
  BY <1>4 DEF Checking!Defines, WellTypedOf, ExprsOf
<1> DEFINE ok == CHOOSE f : f = [e \in Exprs |-> WellTypedFrom(ctx, e, f)]
<1>6. ok = [e \in Exprs |-> WellTypedFrom(ctx, e, ok)]
  BY <1>5, Zenon
<1>7. \A e : WellTyped(e, ctx) = ok[e]
  BY Zenon DEF WellTyped
<1> HIDE DEF ok
<1>8. \A e \in Exprs : ok[e] = WellTypedFrom(ctx, e, ok)
  BY <1>6, Zenon
<1> QED BY <1>7, <1>8

-----------------------------------------------------------------------------
(* What lowering emits.                                                    *)

LEMMA ConcatIs == ASSUME NEW ps, IsSeq(ps) PROVE Concat(ps) = FlattenSeq(ps)
BY ConcatEmpty DEF Concat

\* A sequence as long as another.
LEMMA Mapped ==
    ASSUME NEW es, IsSeq(es), NEW s, s = [i \in DOMAIN es |-> s[i]]
    PROVE  IsSeq(s) /\ Len(s) = Len(es) /\ DOMAIN s = 1 .. Len(es)
<1> DEFINE n == Len(es)
<1>1. DOMAIN es = 1 .. n /\ n \in Nat
  BY SeqProps
<1> HIDE DEF n
<1>2. s = [i \in 1 .. n |-> s[i]]
  BY <1>1
<1>3. IsSeq(s) /\ Len(s) = n
  BY <1>1, <1>2, TableIsSeq
<1>4. DOMAIN s = 1 .. n
  BY <1>2
<1> QED BY <1>3, <1>4 DEF n

Emitted ==
    {"push", "symbol", "unlowered", "input_count", "output_count", "input_value", "input_script",
     "output_value", "output_script", "covenant_id", "covenant_depth", "sequencing_commitment", "zk_verify",
     "check_lock", "check_lock_from_stack", "checksig", "checkmultisig", "sha256", "blake2b", "hash160",
     "verify", "not", "booland", "boolor", "equal", "numnotequal", "greaterthan", "greaterthanorequal",
     "lessthan", "lessthanorequal", "add", "sub", "mul", "div", "mod"}

Instruction(ins) ==
    ins[1] \in Emitted /\ (ins[1] = "check_lock" => ins[2] \in Nat) /\ (ins[1] = "unlowered" => ins = Unlowered)

IsCode(code) == IsSeq(code) /\ \A ins \in ToSet(code) : Instruction(ins)

LEMMA NoCode == IsCode(<< >>)
BY EmptyIsSeq, ToSetEmpty DEF IsCode

LEMMA OneCode == ASSUME NEW ins, Instruction(ins) PROVE IsCode(<<ins>>)
BY OneIsSeq, ToSetOne DEF IsCode

LEMMA MoreCode == ASSUME NEW c, NEW d, IsCode(c), IsCode(d) PROVE IsCode(c \o d)
<1>1. IsSeq(c \o d) /\ ToSet(c \o d) = ToSet(c) \cup ToSet(d)
  BY ConcatSeq, ToSetConcat DEF IsCode
<1> QED BY <1>1 DEF IsCode

LEMMA AllCode ==
    ASSUME NEW ps, IsSeq(ps), \A i \in 1 .. Len(ps) : IsCode(ps[i])
    PROVE  IsCode(Concat(ps))
<1> DEFINE S == {ins \in UNION {ToSet(ps[i]) : i \in 1 .. Len(ps)} : Instruction(ins)}
<1>1. IsSeqOfSeqs(ps)
  BY DEF IsSeqOfSeqs, IsCode
<1>2. \A i \in 1 .. Len(ps) : ToSet(ps[i]) \subseteq S
  BY DEF IsCode
<1>3. \A ins \in S : Instruction(ins)
  OBVIOUS
<1> HIDE DEF S
<1>4. ToSet(FlattenSeq(ps)) \subseteq S
  BY <1>1, <1>2, FlattenWithin
<1>5. IsSeq(FlattenSeq(ps))
  BY <1>1, FlattenIsSeq
<1> QED BY <1>3, <1>4, <1>5, ConcatIs DEF IsCode

LEMMA LoweredIsCode == \A e \in Exprs : IsCode(Lower[e])
<1> DEFINE T == {e \in Exprs : IsCode(Lower[e])}
<1>1. ASSUME NEW e \in Exprs, \A y \in Below(e) : y \in T PROVE e \in T
  <2>0. \A y \in Below(e) : IsCode(Lower[y])
    BY <1>1
  <2>1. \A i \in 1 .. Len(e.kids) : IsCode(Lower[e.kids[i]])
    BY <2>0, Trees
  <2>2. ASSUME NEW es, IsSeq(es), \A i \in 1 .. Len(es) : es[i] \in Below(e)
        PROVE  IsCode(LowerAll(es, Lower))
    <3> DEFINE ps == [i \in DOMAIN es |-> Lower[es[i]]]
    <3>1. ps = [i \in DOMAIN es |-> ps[i]]
      BY Zenon
    <3>2. IsSeq(ps) /\ Len(ps) = Len(es) /\ DOMAIN ps = 1 .. Len(es)
      <4> HIDE DEF ps
      <4> QED BY <2>2, <3>1, Mapped
    <3>3. \A i \in 1 .. Len(es) : ps[i] = Lower[es[i]]
      BY <3>2
    <3> HIDE DEF ps
    <3>4. \A i \in 1 .. Len(ps) : IsCode(ps[i])
      BY <2>0, <2>2, <3>2, <3>3
    <3>5. IsCode(Concat(ps))
      BY <3>2, <3>4, AllCode
    <3> QED BY <3>5 DEF ps, LowerAll
  <2>3. Lower[e] = LowerFrom(e, Lower)
    BY LowerUnfolds
  <2>4. CASE e.op = "call"
    <3> DEFINE args == Args(e)
    <3>1. /\ Callee(e) \in Below(e) /\ Callee(e) \in Exprs /\ IsSeq(args) /\ DOMAIN args = 1 .. Len(args)
          /\ \A i \in 1 .. Len(args) : args[i] \in Below(e)
          /\ \A i \in 1 .. Len(args) : args[i] \in Exprs
      BY <2>4, Calls
    <3>2. IsCode(LowerAll(args, Lower)) /\ IsCode(Lower[Callee(e)])
      BY <2>0, <2>2, <3>1
    <3>3. \A i : IsCode(LowerNth(args, i, Lower))
      BY <2>0, <3>1, NoCode DEF LowerNth
    <3>4. IsVerify(e) => IsCode(Lower[Callee(e).kids[1]])
      <4> SUFFICES ASSUME IsVerify(e) PROVE IsCode(Lower[Callee(e).kids[1]])
        OBVIOUS
      <4>1. Len(Callee(e).kids) = 1
        BY <3>1, Kinds DEF IsVerify
      <4>2. Callee(e).kids[1] \in Below(Callee(e))
        BY <3>1, <4>1, Trees
      <4> QED BY <2>0, <3>1, <4>2, BelowBelow
    <3>5. IsCode(<<Unlowered>>) /\ IsCode(<<<<"checksig">>>>) /\ IsCode(<<<<"zk_verify">>>>)
          /\ IsCode(<<<<"output_count">>>>) /\ IsCode(<<<<"greaterthan">>>>)
      BY OneCode DEF Instruction, Emitted, Unlowered
    <3>6. \A v : IsCode(<<Push(v)>>)
      BY OneCode DEF Instruction, Emitted, Push
    <3>7. \A n : IsCode(<<<<"checkmultisig", n>>>>)
      BY OneCode DEF Instruction, Emitted
    <3>8. \A f \in HashFunctions : IsCode(<<<<f>>>>)
      BY OneCode DEF Instruction, Emitted, HashFunctions
    <3>9. IsCode(LowerIndex(args))
      BY <3>5, <3>6 DEF LowerIndex
    <3>10. IsCode(LowerContinuation(args))
      <4>1. \A v : <<<<"output_count">>, Push(v), <<"greaterthan">>>> =
                        <<<<"output_count">>>> \o (<<Push(v)>> \o <<<<"greaterthan">>>>)
        OBVIOUS
      <4>2. \A v : IsCode(<<<<"output_count">>, Push(v), <<"greaterthan">>>>)
        BY <3>5, <3>6, <4>1, MoreCode
      <4> QED BY <3>5, <4>2 DEF LowerContinuation
    <3>11. IsCode(LowerMultisig(args, Lower))
      <4> DEFINE a == LowerNth(args, 3, Lower)
                 b == LowerNth(args, 2, Lower)
                 t == <<Push(Num(args[1].n))>>
                 k == IF Len(args) > 1 /\ args[2].op = "array" THEN Len(args[2].kids) ELSE 0
                 m == <<<<"checkmultisig", k>>>>
      <4>1. IsCode(a) /\ IsCode(b) /\ IsCode(t) /\ IsCode(m)
        BY <3>3, <3>6, <3>7
      <4>2. LowerMultisig(args, Lower) = <<Unlowered>> \/ LowerMultisig(args, Lower) = a \o t \o b \o m
        BY DEF LowerMultisig
      <4> HIDE DEF a, b, t, m
      <4>3. IsCode(a \o t \o b \o m)
        BY <4>1, MoreCode
      <4> QED BY <3>5, <4>2, <4>3
    <3>12. IsCode(LowerNth(args, 1, Lower) \o <<<<"checksig">>>>) /\ IsCode(LowerNth(args, 1, Lower) \o <<<<"zk_verify">>>>)
           /\ \A f \in HashFunctions : IsCode(LowerNth(args, 1, Lower) \o <<<<f>>>>)
      BY <3>3, <3>5, <3>8, MoreCode
    <3>13. IsVerify(e) => IsCode(Lower[Callee(e).kids[1]] \o LowerNth(args, 1, Lower) \o <<<<"checksig">>>>)
      BY <3>3, <3>4, <3>5, MoreCode
    <3>14. IsCode(Lower[Callee(e)] \o LowerAll(args, Lower))
      BY <3>2, MoreCode
    <3>15. (\E f \in HashFunctions : IsCallOf(e, f)) => Callee(e).name \in HashFunctions
      BY DEF IsCallOf, IsName
    <3>16. IsCode(LowerCall(e, Lower))
      <4>1. CASE IsVerify(e)
        <5>1. LowerCall(e, Lower) = Lower[Callee(e).kids[1]] \o LowerNth(args, 1, Lower) \o <<<<"checksig">>>>
          BY <4>1 DEF LowerCall, IsVerify, IsCallOf, IsName
        <5> QED BY <3>13, <4>1, <5>1
      <4>2. CASE ~IsVerify(e)
        <5> DEFINE call(fs) == \E f \in fs : IsCallOf(e, f)
        <5>1. call({"input", "output"}) => LowerCall(e, Lower) = LowerIndex(args)
          BY <4>2 DEF LowerCall, IsCallOf, IsName, HashFunctions
        <5>2. call({"continuation"}) => LowerCall(e, Lower) = LowerContinuation(args)
          BY <4>2 DEF LowerCall, IsCallOf, IsName, HashFunctions
        <5>3. call({"multisig"}) => LowerCall(e, Lower) = LowerMultisig(args, Lower)
          BY <4>2 DEF LowerCall, IsCallOf, IsName, HashFunctions
        <5>4. call({"zk_verify"}) => LowerCall(e, Lower) = LowerNth(args, 1, Lower) \o <<<<"zk_verify">>>>
          BY <4>2 DEF LowerCall, IsCallOf, IsName, HashFunctions
        <5>5. call(HashFunctions) => LowerCall(e, Lower) = LowerNth(args, 1, Lower) \o <<<<Callee(e).name>>>>
          BY <4>2 DEF LowerCall, IsCallOf, IsName, HashFunctions
        <5>6. ~call({"input", "output"}) /\ ~call({"continuation"}) /\ ~call({"multisig"})
              /\ ~call({"zk_verify"}) /\ ~call(HashFunctions) =>
                 LowerCall(e, Lower) = Lower[Callee(e)] \o LowerAll(args, Lower)
          BY <4>2 DEF LowerCall
        <5> HIDE DEF call
        <5>7. call(HashFunctions) => Callee(e).name \in HashFunctions
          BY <3>15 DEF call
        <5> QED BY <3>9, <3>10, <3>11, <3>12, <3>14, <5>1, <5>2, <5>3, <5>4, <5>5, <5>6, <5>7
      <4> QED BY <4>1, <4>2
    <3>17. LowerFrom(e, Lower) = LowerCall(e, Lower)
      BY <2>4 DEF LowerFrom, IsBinary, Logical, Comparisons, Arithmetic
    <3> QED BY <2>3, <3>16, <3>17
  <2>5. CASE e.op = "field"
    <3>1. IsCode(Lower[e.kids[1]])
      BY <2>1, <2>5, Kinds
    <3>2. IsCode(<<Symbol(e.name)>>) /\ IsCode(<<<<"covenant_depth">>>>) /\ IsCode(<<<<"sequencing_commitment">>>>)
      BY OneCode DEF Instruction, Emitted, Symbol
    <3>3. ASSUME NEW root \in {"input", "output"}, NEW args, NEW field
          PROVE  IsCode(<<LowerTransactionField(root, args, field)>>)
      <4>1. Instruction(LowerTransactionField(root, args, field))
        BY <3>3 DEF LowerTransactionField, CoinReading, Instruction, Emitted, Unlowered
      <4> QED BY <4>1, OneCode
    <3>4. IsCode(Lower[e.kids[1]] \o <<Symbol(e.name)>>)
      BY <3>1, <3>2, MoreCode
    <3>5. IsCode(LowerField(e, Lower))
      BY <3>2, <3>3, <3>4 DEF LowerField, IsCallOf, IsName, IsPath
    <3>6. LowerFrom(e, Lower) = LowerField(e, Lower)
      BY <2>5 DEF LowerFrom, IsBinary, Logical, Comparisons, Arithmetic
    <3> QED BY <2>3, <3>5, <3>6
  <2>6. CASE IsBinary(e)
    <3>1. IsCode(Lower[e.kids[1]]) /\ IsCode(Lower[e.kids[2]]) /\ e.kids[2] \in Exprs
      BY <2>1, <2>6, Kinds, Trees
    <3>2. IsCode(<<<<"check_lock", e.kids[2].n>>>>)
      BY <3>1, Trees, OneCode DEF Instruction, Emitted
    <3>3. IsCode(<<<<"check_lock_from_stack">>>>)
      BY OneCode DEF Instruction, Emitted
    <3>4. IsCode(<<<<Opcode(e.op)>>>>)
      <4>1. Opcode(e.op) \in Emitted \ {"check_lock", "unlowered"}
        BY <2>6 DEF Opcode, Emitted, IsBinary, Logical, Comparisons, Arithmetic
      <4>2. Instruction(<<Opcode(e.op)>>)
          BY <4>1 DEF Instruction
        <4> QED BY <4>2, OneCode
    <3>5. IsCode(Lower[e.kids[2]] \o <<<<"check_lock_from_stack">>>>)
          /\ IsCode(Lower[e.kids[1]] \o Lower[e.kids[2]] \o <<<<Opcode(e.op)>>>>)
      BY <3>1, <3>3, <3>4, MoreCode
    <3>6. IsCode(LowerBinary(e, Lower))
      BY <3>2, <3>5 DEF LowerBinary
    <3>7. LowerFrom(e, Lower) = LowerBinary(e, Lower)
      BY <2>6 DEF LowerFrom, IsBinary, Logical, Comparisons, Arithmetic
    <3> QED BY <2>3, <3>6, <3>7
  <2>7. CASE e.op = "array"
    <3>1. IsCode(LowerAll(e.kids, Lower))
      BY <2>2, Trees
    <3>2. LowerFrom(e, Lower) = LowerAll(e.kids, Lower)
      BY <2>7 DEF LowerFrom, IsBinary, Logical, Comparisons, Arithmetic
    <3> QED BY <2>3, <3>1, <3>2
  <2>8. CASE e.op = "not"
    <3>1. IsCode(Lower[e.kids[1]]) /\ IsCode(<<<<"not">>>>)
      BY <2>1, <2>8, Kinds, OneCode DEF Instruction, Emitted
    <3>2. LowerFrom(e, Lower) = Lower[e.kids[1]] \o <<<<"not">>>>
      BY <2>8 DEF LowerFrom, IsBinary, Logical, Comparisons, Arithmetic
    <3> QED BY <2>3, <3>1, <3>2, MoreCode
  <2>9. CASE e.op \in {"ident", "int", "string", "bool", "negate"}
    <3>1. \E ins : Instruction(ins) /\ LowerFrom(e, Lower) = <<ins>>
      BY <2>9 DEF LowerFrom, IsBinary, Logical, Comparisons, Arithmetic, Instruction, Emitted, Push, Symbol, Unlowered
    <3> QED BY <2>3, <3>1, OneCode
  <2> QED BY <2>4, <2>5, <2>6, <2>7, <2>8, <2>9, Kinds
<1>2. T \subseteq Exprs
  OBVIOUS
<1> HIDE DEF T
<1>3. T = Exprs
  BY <1>1, <1>2, TreeInduction
<1> QED BY <1>3 DEF T

-----------------------------------------------------------------------------
(* From instructions to a script.                                          *)

LEMMA Pieces ==
    ASSUME NEW es, IsSeq(es), NEW ps, ps = [i \in DOMAIN es |-> ps[i]], \A i \in 1 .. Len(es) : IsSeq(ps[i])
    PROVE  /\ IsSeqOfSeqs(ps) /\ Len(ps) = Len(es) /\ IsSeq(Concat(ps)) /\ Concat(ps) = FlattenSeq(ps)
           /\ \A i \in 1 .. Len(es) : ToSet(ps[i]) \subseteq ToSet(Concat(ps))
           /\ \A S : (\A i \in 1 .. Len(es) : ToSet(ps[i]) \subseteq S) => ToSet(Concat(ps)) \subseteq S
<1>1. IsSeq(ps) /\ Len(ps) = Len(es)
  BY Mapped
<1>2. IsSeqOfSeqs(ps)
  BY <1>1 DEF IsSeqOfSeqs
<1>3. Concat(ps) = FlattenSeq(ps)
  BY <1>1, ConcatIs
<1>4. IsSeq(FlattenSeq(ps))
  BY <1>2, FlattenIsSeq
<1>5. \A i \in 1 .. Len(es) : ToSet(ps[i]) \subseteq ToSet(FlattenSeq(ps))
  BY <1>1, <1>2, FlattenHas
<1>6. \A S : (\A i \in 1 .. Len(es) : ToSet(ps[i]) \subseteq S) => ToSet(FlattenSeq(ps)) \subseteq S
  BY <1>1, <1>2, FlattenWithin
<1> QED BY <1>1, <1>2, <1>3, <1>4, <1>5, <1>6

\* The elements of a sequence, one by one.
LEMMA Members ==
    ASSUME NEW s, IsSeq(s)
    PROVE  /\ \A i \in 1 .. Len(s) : s[i] \in ToSet(s)
           /\ \A x \in ToSet(s) : \E i \in 1 .. Len(s) : x = s[i]
BY ToSetProps

LEMMA Bodies ==
    ASSUME NEW s \in Paths
    PROVE  /\ IsSeq(s.body) /\ DOMAIN s.body = 1 .. Len(s.body) /\ Len(s.body) \in Nat
           /\ \A i \in 1 .. Len(s.body) :
                s.body[i].expr \in Exprs /\ s.body[i].kind \in {"let", "require", "return"} /\ s.body[i] \in Statements
<1>1. s.body \in Seq(Statements)
  BY DEF Paths
<1>2. \A i \in 1 .. Len(s.body) : s.body[i] \in Statements
  BY <1>1
<1>3. IsSeq(s.body)
  BY <1>1, TypedIsSeq
<1>4. DOMAIN s.body = 1 .. Len(s.body) /\ Len(s.body) \in Nat
  BY <1>3, SeqProps
<1> QED BY <1>2, <1>3, <1>4 DEF Statements

LEMMA SpendIsCode == ASSUME NEW s \in Paths PROVE IsCode(LowerSpend(s))
<1> DEFINE ps == [i \in DOMAIN s.body |-> LowerStatement(s.body[i])]
<1>1. /\ IsSeq(s.body) /\ DOMAIN s.body = 1 .. Len(s.body)
      /\ \A i \in 1 .. Len(s.body) : s.body[i].expr \in Exprs /\ s.body[i].kind \in {"let", "require", "return"}
  BY Bodies
<1>2. ASSUME NEW i \in 1 .. Len(s.body) PROVE IsCode(LowerStatement(s.body[i]))
  <2> DEFINE st == s.body[i]
             end == CASE st.kind = "let" -> <<Symbol(st.name)>>
                      [] st.kind = "require" -> <<<<"verify">>>>
                      [] st.kind = "return" -> << >>
  <2>1. st.expr \in Exprs /\ st.kind \in {"let", "require", "return"}
    BY <1>1
  <2>2. IsCode(Lower[st.expr])
    BY <2>1, LoweredIsCode
  <2>3. end = <<Symbol(st.name)>> \/ end = <<<<"verify">>>> \/ end = << >>
    BY <2>1
  <2>4. IsCode(<<Symbol(st.name)>>) /\ IsCode(<<<<"verify">>>>) /\ IsCode(<< >>)
    BY OneCode, NoCode DEF Instruction, Emitted, Symbol
  <2>5. IsCode(end)
    <3> HIDE DEF end
    <3> QED BY <2>3, <2>4
  <2>6. LowerStatement(st) = Lower[st.expr] \o end
    BY DEF LowerStatement
  <2> HIDE DEF end, st
  <2>7. IsCode(LowerStatement(st))
    BY <2>2, <2>5, <2>6, MoreCode
  <2> QED BY <2>7 DEF st
<1>3. ps = [i \in DOMAIN s.body |-> ps[i]] /\ \A i \in 1 .. Len(s.body) : ps[i] = LowerStatement(s.body[i])
  BY <1>1
<1>4. LowerSpend(s) = Concat(ps)
  BY DEF LowerSpend
<1> HIDE DEF ps
<1>5. IsSeq(ps) /\ Len(ps) = Len(s.body)
  BY <1>1, <1>3, Mapped
<1>6. IsCode(Concat(ps))
  BY <1>2, <1>3, <1>5, AllCode
<1> QED BY <1>4, <1>6

LEMMA BoundCode ==
    ASSUME NEW code, NEW b, IsSeq(code)
    PROVE  /\ IsSeq(BindCode(code, b))
           /\ \A ins \in ToSet(BindCode(code, b)) :
                (\E v : ins = Push(v)) \/ (ins \in ToSet(code) /\ ins[1] # "symbol")
<1> DEFINE ps == [i \in DOMAIN code |-> BindInstruction(code, i, b)]
           P(ins) == (\E v : ins = Push(v)) \/ (ins \in ToSet(code) /\ ins[1] # "symbol")
           S == {ins \in UNION {ToSet(ps[i]) : i \in 1 .. Len(code)} : P(ins)}
<1>1. DOMAIN code = 1 .. Len(code) /\ \A i \in 1 .. Len(code) : code[i] \in ToSet(code)
  BY SeqProps, Members
<1>2. ASSUME NEW i \in 1 .. Len(code)
      PROVE  IsSeq(BindInstruction(code, i, b)) /\ \A ins \in ToSet(BindInstruction(code, i, b)) : P(ins)
  <2>1. CASE code[i][1] # "symbol"
    BY <1>1, <2>1, OneIsSeq, ToSetOne DEF BindInstruction
  <2>2. CASE code[i][1] = "symbol" /\ IsSpendParam(code[i][2])
    BY <2>2, EmptyIsSeq, ToSetEmpty DEF BindInstruction
  <2>3. CASE code[i][1] = "symbol" /\ ~IsSpendParam(code[i][2])
    BY <2>3, OneIsSeq, ToSetOne DEF BindInstruction
  <2> QED BY <2>1, <2>2, <2>3
<1>3. ps = [i \in DOMAIN code |-> ps[i]] /\ \A i \in 1 .. Len(code) : ps[i] = BindInstruction(code, i, b)
  BY <1>1
<1>4. BindCode(code, b) = Concat(ps)
  BY DEF BindCode
<1> HIDE DEF ps
<1>5. \A i \in 1 .. Len(code) : IsSeq(ps[i]) /\ ToSet(ps[i]) \subseteq S
  BY <1>2, <1>3
<1>6. \A ins \in S : P(ins)
  OBVIOUS
<1> HIDE DEF S
<1>7. IsSeq(Concat(ps)) /\ ToSet(Concat(ps)) \subseteq S
  BY <1>3, <1>5, Pieces
<1> QED BY <1>4, <1>6, <1>7

\* What is known to compile: no symbol, nothing unlowered, nothing the gate holds back.
Grounded ==
    Emitted \ {"symbol", "unlowered", "mul", "div", "mod", "hash160", "covenant_id", "covenant_depth",
               "zk_verify", "sequencing_commitment"}

LEMMA EncodeSeq == ASSUME NEW ins PROVE IsSeq(Encode(ins))
<1>1. \A x, y : IsSeq(<<x, y>>)
  BY TwoSeq
<1>2. \A x, y : IsSeq(<<x>> \o <<y>>)
  BY OneIsSeq, ConcatSeq
<1>3. \A x, y, z : IsSeq(<<x>> \o <<y, z>>)
  BY OneIsSeq, TwoSeq, ConcatSeq
<1> QED BY <1>1, <1>2, <1>3, OneIsSeq DEF Encode, EncodedNumber

LEMMA EncodedOps ==
    ASSUME NEW ins, ins[1] \in Grounded
    PROVE  \A op \in ToSet(Encode(ins)) : op[1] \in ScriptOps
<1>1. \A x : ToSet(<<x>>) = {x}
  BY ToSetOne
<1>2. \A x, y : ToSet(<<x>> \o <<y>>) = {x, y}
  BY TwoSeq
<1>3. \A x, y, z : ToSet(<<x>> \o <<y, z>>) = {x, y, z}
  BY ThreeSeq
<1>4. \A y, z : ToSet(<<y, z>>) = {y, z}
  BY TwoSeq
<1>5. CASE ins[1] = "push"
  BY <1>1, <1>5 DEF Encode, ScriptOps
<1>6. CASE ins[1] \in {"input_value", "input_script", "output_value", "output_script"}
  BY <1>2, <1>6 DEF Encode, EncodedNumber, Push, ScriptOps
<1>7. CASE ins[1] = "checkmultisig"
  BY <1>2, <1>7 DEF Encode, EncodedNumber, Push, ScriptOps
<1>8. CASE ins[1] = "check_lock"
  BY <1>3, <1>8 DEF Encode, EncodedNumber, Push, ScriptOps
<1>9. CASE ins[1] = "check_lock_from_stack"
  BY <1>4, <1>9 DEF Encode, Push, ScriptOps
<1>10. CASE ins[1] \notin {"push", "symbol", "input_value", "input_script", "output_value", "output_script",
                          "checkmultisig", "check_lock", "check_lock_from_stack"}
  <2>1. Encode(ins) = <<ins>>
    BY <1>10 DEF Encode
  <2>2. ins[1] \in ScriptOps
    BY <1>10 DEF Grounded, Emitted, ScriptOps
  <2> QED BY <1>1, <2>1, <2>2
<1> QED BY <1>5, <1>6, <1>7, <1>8, <1>9, <1>10 DEF Grounded

LEMMA EncodedCode ==
    ASSUME NEW code, IsSeq(code)
    PROVE  /\ IsSeq(EncodeAll(code))
           /\ \A ins \in ToSet(code) : ToSet(Encode(ins)) \subseteq ToSet(EncodeAll(code))
           /\ \A op \in ToSet(EncodeAll(code)) : \E ins \in ToSet(code) : op \in ToSet(Encode(ins))
<1> DEFINE ps == [i \in DOMAIN code |-> Encode(code[i])]
           S == UNION {ToSet(Encode(ins)) : ins \in ToSet(code)}
<1>1. DOMAIN code = 1 .. Len(code) /\ \A i \in 1 .. Len(code) : code[i] \in ToSet(code)
  BY SeqProps, Members
<1>2. ps = [i \in DOMAIN code |-> ps[i]] /\ \A i \in 1 .. Len(code) : ps[i] = Encode(code[i])
  BY <1>1
<1>3. EncodeAll(code) = Concat(ps)
  BY DEF EncodeAll
<1> HIDE DEF ps
<1>4. \A i \in 1 .. Len(code) : IsSeq(ps[i]) /\ ToSet(ps[i]) \subseteq S
  BY <1>1, <1>2, EncodeSeq
<1>5. /\ IsSeq(Concat(ps)) /\ ToSet(Concat(ps)) \subseteq S
      /\ \A i \in 1 .. Len(code) : ToSet(ps[i]) \subseteq ToSet(Concat(ps))
  BY <1>2, <1>4, Pieces
<1>6. \A ins \in ToSet(code) : \E i \in 1 .. Len(code) : ins = code[i]
  BY Members
<1> QED BY <1>2, <1>3, <1>5, <1>6

-----------------------------------------------------------------------------
(* What every stage has.                                                   *)

Analyzed   == {"checked", "lowered", "compiled", "instantiated", "ready", "spent"}
Lowered    == Analyzed \ {"checked"}
CompiledOn == Lowered \ {"lowered"}
Bound      == CompiledOn \ {"compiled"}

\* A spend that was built or submitted.
SignedBy(witness) == witness = [i \in DOMAIN Path.params |-> Sig(witness[i][2])]

IInv ==
    /\ stage \in Stages
    /\ stage \in {"source", "unreadable"} => contract = Nothing
    /\ target \in Targets \cup {Nothing}
    /\ warnings \subseteq {16, 20}
    /\ stage \in Analyzed \cup {"read"} => contract \in Contracts
    /\ stage \in Analyzed => ContractChecks(contract)
    /\ stage \in Lowered => Lowers(contract)
    /\ stage \in CompiledOn => target \in Targets /\ Compiles(contract, target)
    /\ stage \in Bound => bound \in Bindings /\ CanInstantiate(bound) /\ redeem = InstantiateScript(bound)
    /\ stage \in {"ready", "spent"} =>
            /\ OnlySignatures /\ IsTransaction(spend.tx) /\ SignedBy(spend.witness)
            /\ Accepts(redeem.script, spend.witness, spend.tx)
    /\ stage = "spent" => spend.now \in Moments /\ Final(spend.tx, spend.now)

\* The path that is followed.
LEMMA ThePath ==
    ASSUME contract \in Contracts, Only(contract.spends)
    PROVE  Path \in Paths /\ Path \in ToSet(contract.spends) /\ ToSet(contract.spends) = {Path}
<1>1. contract.spends \in Seq(Paths)
  BY ContractsAssumption
<1> DEFINE s == contract.spends
<1>2. IsSeq(s) /\ Len(s) = 1 /\ s[1] \in Paths
  BY <1>1, TypedIsSeq DEF Only
<1> HIDE DEF s
<1>3. ToSet(s) = {s[i] : i \in 1 .. 1}
  BY <1>2, ToSetProps
<1>4. 1 .. 1 = {1}
  OBVIOUS
<1>5. ToSet(s) = {s[1]}
  BY <1>3, <1>4
<1> QED BY <1>2, <1>5 DEF s, Path

\* The code of a contract that lowers and compiles has nothing the engine lacks.
LEMMA CodeIsGrounded ==
    ASSUME contract \in Contracts, Only(contract.spends), Lowers(contract),
           NEW t \in Targets, Compiles(contract, t)
    PROVE  IsCode(Code) /\ \A ins \in ToSet(Code) : ins[1] \in Grounded \cup {"symbol"}
<1>1. Path \in Paths /\ Path \in ToSet(contract.spends)
  BY ThePath
<1>2. IsCode(Code)
  BY <1>1, SpendIsCode DEF Code
<1>3. Unlowered \notin ToSet(Code) /\ \A ins \in ToSet(Code) : Admits(t, InstructionStatus(ins))
  BY <1>1 DEF Lowers, Compiles, Code
<1>4. ASSUME NEW ins \in ToSet(Code) PROVE ins[1] \in Grounded \cup {"symbol"}
  <2>1. Instruction(ins) /\ ins # Unlowered
    BY <1>2, <1>3 DEF IsCode
  <2>2. InstructionStatus(ins) # "unsupported"
    BY <1>3 DEF Admits
  <2> QED BY <2>1, <2>2 DEF InstructionStatus, Instruction, Grounded
<1> QED BY <1>2, <1>4

LEMMA Locked ==
    ASSUME NEW code, IsCode(code), FitsScriptNumbers(code)
    PROVE  LockTimeRequirement(code).lockTime \in 0 .. I64Max /\ LockTimeRequirement(code).usesLockTime \in BOOLEAN
<1> DEFINE locks == {i \in DOMAIN code : code[i][1] \in {"check_lock", "check_lock_from_stack"}}
           first == CHOOSE i \in locks : \A j \in locks : i <= j
<1>1. DOMAIN code = 1 .. Len(code) /\ Len(code) \in Nat /\ \A i \in 1 .. Len(code) : code[i] \in ToSet(code)
  BY SeqProps, Members DEF IsCode
<1>2. CASE locks = {}
  BY <1>2, WidthsAssumption DEF LockTimeRequirement
<1>3. CASE locks # {}
  <2>1. locks \in SUBSET Nat
    BY <1>1
  <2>2. \E i \in locks : \A j \in locks : i <= j
    <3> HIDE DEF locks
    <3> QED BY <1>3, <2>1, LeastOf
  <2>3. first \in locks
    BY <2>2, Zenon
  <2> HIDE DEF first
  <2>4. code[first] \in ToSet(code)
    BY <1>1, <2>3
  <2>5. ASSUME code[first][1] = "check_lock" PROVE code[first][2] \in 0 .. I64Max
    <3> DEFINE ins == code[first]
               n   == ins[2]
    <3>1. n \in Nat
      BY <2>4, <2>5 DEF IsCode, Instruction
    <3>2. Encode(ins) = <<Push(Num(n))>> \o <<<<"checklocktimeverify">>, Push(Truth(TRUE))>>
      BY <2>5 DEF Encode, EncodedNumber
    <3> HIDE DEF ins, n
    <3>7. ASSUME NEW x, NEW y, NEW z, NEW s, s = <<x>> \o <<y, z>> PROVE x \in ToSet(s)
      <4>1. ToSet(<<x>> \o <<y, z>>) = {x, y, z}
        BY ThreeSeq
      <4> QED BY <3>7, <4>1, Zenon
    <3>3. Push(Num(n)) \in ToSet(Encode(ins))
      BY <3>2, <3>7
    <3>4. Push(Num(n)) \in ToSet(EncodeAll(code))
      BY <2>4, <3>3, EncodedCode DEF ins, IsCode
    <3>5. Push(Num(n))[1] = "push" /\ IsNum(Push(Num(n))[2]) /\ Push(Num(n))[2][2] = n
      BY DEF Push, Num, IsNum
    <3>6. n <= I64Max
      BY <3>4, <3>5 DEF FitsScriptNumbers
    <3> QED BY <3>1, <3>6, WidthsAssumption DEF n, ins
  <2>6. LockTimeRequirement(code) =
          [usesLockTime |-> TRUE, lockTime |-> IF code[first][1] = "check_lock" THEN code[first][2] ELSE 0]
    BY <1>3 DEF LockTimeRequirement, first
  <2> QED BY <2>5, <2>6, WidthsAssumption
<1> QED BY <1>2, <1>3

\* A script that was instantiated.
LEMMA ScriptIsTyped ==
    ASSUME contract \in Contracts, Lowers(contract), NEW t \in Targets, Compiles(contract, t),
           NEW b, CanInstantiate(b)
    PROVE  /\ InstantiateScript(b).lockTime \in 0 .. I64Max /\ InstantiateScript(b).usesLockTime \in BOOLEAN
           /\ \A op \in ToSet(InstantiateScript(b).script) :
                op[1] \in ScriptOps /\ (op[1] = "push" /\ IsNum(op[2]) => op[2][2] <= I64Max)
<1> DEFINE code == BindCode(Code, b)
<1>1. IsCode(Code) /\ \A ins \in ToSet(Code) : ins[1] \in Grounded \cup {"symbol"}
  BY CodeIsGrounded DEF CanInstantiate
<1>2. IsSeq(code) /\ \A ins \in ToSet(code) : (\E v : ins = Push(v)) \/ (ins \in ToSet(Code) /\ ins[1] # "symbol")
  BY <1>1, BoundCode DEF IsCode
<1>3. FitsScriptNumbers(code)
  BY DEF CanInstantiate
<1>4. /\ InstantiateScript(b).script = CompileSpendScript(code)
      /\ InstantiateScript(b).lockTime = LockTimeRequirement(code).lockTime
      /\ InstantiateScript(b).usesLockTime = LockTimeRequirement(code).usesLockTime
  BY DEF InstantiateScript
<1> HIDE DEF code
<1>5. \A v : Push(v)[1] = "push" /\ "push" \in Grounded
  BY DEF Push, Grounded, Emitted
<1>6. \A ins \in ToSet(code) : ins[1] \in Grounded
  BY <1>1, <1>2, <1>5
<1>7. IsCode(code)
  BY <1>1, <1>2, <1>5 DEF IsCode, Instruction, Emitted, Push
<1>8. IsSeq(EncodeAll(code)) /\ \A op \in ToSet(EncodeAll(code)) : \E ins \in ToSet(code) : op \in ToSet(Encode(ins))
  BY <1>2, EncodedCode
<1>9. \A op \in ToSet(EncodeAll(code)) : op[1] \in ScriptOps /\ (op[1] = "push" /\ IsNum(op[2]) => op[2][2] <= I64Max)
  BY <1>3, <1>6, <1>8, EncodedOps DEF FitsScriptNumbers
<1>10. ToSet(CompileSpendScript(code)) = ToSet(EncodeAll(code)) \cup {Push(Truth(TRUE))}
  <2> DEFINE one  == <<Push(Truth(TRUE))>>
             rest == EncodeAll(code)
  <2>1. IsSeq(one) /\ ToSet(one) = {Push(Truth(TRUE))} /\ IsSeq(rest)
    BY <1>8, OneIsSeq, ToSetOne
  <2>2. CompileSpendScript(code) = rest \o one
    BY DEF CompileSpendScript
  <2> HIDE DEF one, rest
  <2>3. ToSet(CompileSpendScript(code)) = ToSet(rest) \cup {Push(Truth(TRUE))}
    BY <2>1, <2>2, ToSetConcat
  <2> QED BY <2>3 DEF rest
<1>11. Push(Truth(TRUE))[1] \in ScriptOps /\ Push(Truth(TRUE))[2][2] <= I64Max
  BY WidthsAssumption DEF Push, Truth, Num, ScriptOps
<1> QED BY <1>4, <1>7, <1>3, <1>9, <1>10, <1>11, Locked

-----------------------------------------------------------------------------
(* The invariant, step by step.                                            *)

\* What is said of a contract is said of it in the next state.
LEMMA SameContract ==
    ASSUME contract' = contract, NEW b
    PROVE  /\ Path' = Path /\ Code' = Code /\ OnlySignatures' = OnlySignatures
           /\ bound' = b => InstantiateScript(bound)' = InstantiateScript(b)
           /\ bound' = b => CanInstantiate(bound)' = CanInstantiate(b)
<1>1. Path' = Path
  BY DEF Path
<1>2. Code' = Code /\ OnlySignatures' = OnlySignatures
  BY <1>1 DEF Code, OnlySignatures
<1>3. \A c : BindCode(c, b)' = BindCode(c, b)
  BY <1>1 DEF BindCode, BindInstruction, IsSpendParam
<1>4. ASSUME bound' = b PROVE InstantiateScript(bound)' = InstantiateScript(b)
  BY <1>2, <1>3, <1>4 DEF InstantiateScript
<1>5. ASSUME bound' = b PROVE CanInstantiate(bound)' = CanInstantiate(b)
  <2>1. ValidBindings(bound)' = ValidBindings(b)
    BY <1>5 DEF ValidBindings
  <2>2. Unbound(Code)' = Unbound(Code)
    BY <1>1, <1>2 DEF Unbound, IsSpendParam
  <2> QED BY <1>2, <1>3, <1>5, <2>1, <2>2 DEF CanInstantiate
<1> QED BY <1>1, <1>2, <1>4, <1>5

LEMMA BuiltIsTransaction ==
    ASSUME redeem.lockTime \in Nat, NEW feeCoins \in 1 .. 2, NEW change \in Changes
    PROVE  IsTransaction(BuiltTransaction(feeCoins, change))
<1> DEFINE tx    == BuiltTransaction(feeCoins, change)
           fees  == [i \in 1 .. feeCoins |-> [value |-> Num(LockAmount), script |-> Script(Wallet)]]
           lock  == <<[value |-> Num(LockAmount), script |-> ContractScript]>>
           back  == <<[value |-> Num(LockAmount), script |-> Script(Wallet)]>>
           coins == {c \in {[value |-> Num(LockAmount), script |-> ContractScript],
                            [value |-> Num(LockAmount), script |-> Script(Wallet)],
                            [value |-> Num(1), script |-> Script(Wallet)]} : IsCoin(c)}
<1>1. ASSUME NEW n \in 0 .. I64Max, NEW k PROVE IsCoin([value |-> Num(n), script |-> Script(k)])
  BY DEF IsCoin, Num, Script
<1>2. /\ IsCoin([value |-> Num(LockAmount), script |-> ContractScript])
      /\ IsCoin([value |-> Num(LockAmount), script |-> Script(Wallet)])
      /\ IsCoin([value |-> Num(1), script |-> Script(Wallet)])
  BY <1>1, ChainAssumption, WidthsAssumption DEF ContractScript
<1>3. lock \in Seq(coins) /\ back \in Seq(coins) /\ change \in Seq(coins) /\ fees \in Seq(coins)
  <2>1. feeCoins \in Nat
    OBVIOUS
  <2>2. fees \in [1 .. feeCoins -> coins]
    BY <1>2
  <2>3. lock \in Seq(coins) /\ back \in Seq(coins) /\ change \in Seq(coins)
    <3> DEFINE x == [value |-> Num(LockAmount), script |-> ContractScript]
               y == [value |-> Num(LockAmount), script |-> Script(Wallet)]
               z == [value |-> Num(1), script |-> Script(Wallet)]
    <3>1. x \in coins /\ y \in coins /\ z \in coins
      BY <1>2
    <3>2. change = << >> \/ change = <<z>>
      BY DEF Changes
    <3>3. lock = <<x>> /\ back = <<y>>
      OBVIOUS
    <3>4. \A C : << >> \in Seq(C) /\ \A v \in C : <<v>> \in Seq(C)
      OBVIOUS
    <3>5. <<x>> \in Seq(coins) /\ <<y>> \in Seq(coins) /\ <<z>> \in Seq(coins) /\ << >> \in Seq(coins)
      BY <3>1, <3>4, Zenon
    <3> QED BY <3>2, <3>3, <3>5, Zenon
  <2> QED BY <2>1, <2>2, <2>3, SeqDef
<1>4. \A c \in coins : IsCoin(c)
  OBVIOUS
<1>5. tx.inputs = lock \o fees /\ tx.outputs = back \o change /\ tx.lockTime = redeem.lockTime
      /\ tx.sequence = IF redeem.usesLockTime THEN 0 ELSE MaxSequence
  BY DEF BuiltTransaction
<1> HIDE DEF tx, lock, fees, back, coins
<1>6. tx.inputs \in Seq(coins) /\ tx.outputs \in Seq(coins)
  BY <1>3, <1>5, ConcatProperties
<1>7. ASSUME NEW s \in Seq(coins) PROVE s \in Seq(ToSet(s)) /\ \A c \in ToSet(s) : IsCoin(c)
  <2>1. IsSeq(s) /\ Len(s) \in Nat /\ s = [i \in 1 .. Len(s) |-> s[i]] /\ \A i \in 1 .. Len(s) : s[i] \in coins
    BY <1>7, TypedIsSeq, SeqProps
  <2>2. ToSet(s) = {s[i] : i \in 1 .. Len(s)}
    BY <2>1, ToSetProps
  <2>3. s \in Seq({s[i] : i \in 1 .. Len(s)})
    BY <2>1, TableIsSeq
  <2> QED BY <1>4, <2>1, <2>2, <2>3
<1>8. tx.lockTime \in Nat /\ tx.sequence \in Nat
  BY <1>5, ChainAssumption
<1>9. /\ tx.inputs \in Seq(ToSet(tx.inputs)) /\ \A c \in ToSet(tx.inputs) : IsCoin(c)
      /\ tx.outputs \in Seq(ToSet(tx.outputs)) /\ \A c \in ToSet(tx.outputs) : IsCoin(c)
  BY <1>6, <1>7
<1> QED BY <1>8, <1>9 DEF IsTransaction, tx

LEMMA InitIsInvariant == Init => IInv
BY DEF Init, IInv, Stages, Analyzed, Lowered, CompiledOn, Bound

LEMMA ReadKeeps == ASSUME IInv, NEW c \in Contracts, Read(c) PROVE IInv'
BY DEF Read, IInv, Stages, Analyzed, Lowered, CompiledOn, Bound

LEMMA UnreadableKeeps == ASSUME IInv, Unreadable PROVE IInv'
BY DEF Unreadable, IInv, Stages, Analyzed, Lowered, CompiledOn, Bound

LEMMA RejectKeeps == ASSUME IInv, Reject PROVE IInv'
BY DEF Reject, IInv, Stages, Analyzed, Lowered, CompiledOn, Bound

LEMMA AnalyzeKeeps == ASSUME IInv, Analyze PROVE IInv'
BY DEF Analyze, IInv, Stages, Analyzed, Lowered, CompiledOn, Bound

LEMMA LowerKeeps == ASSUME IInv, LowerContract PROVE IInv'
BY DEF LowerContract, IInv, Stages, Analyzed, Lowered, CompiledOn, Bound

LEMMA CompileKeeps == ASSUME IInv, NEW t \in CompileTargets, CompileFor(t) PROVE IInv'
<1>1. WarningsOf(contract) \subseteq {16, 20}
  BY DEF WarningsOf, KipStatus, KipRequirements
<1>2. CASE Compiles(contract, t)
  <2>1. /\ stage' = "compiled" /\ target' = t /\ warnings' = WarningsOf(contract) /\ stage = "lowered"
        /\ UNCHANGED <<contract, bound, redeem, spend>>
    BY <1>2 DEF CompileFor
  <2>2. t \in Targets
    BY TargetsAssumption
  <2> QED BY <1>1, <1>2, <2>1, <2>2 DEF IInv, Stages, Analyzed, Lowered, CompiledOn, Bound
<1>3. CASE ~Compiles(contract, t)
  BY <1>3, RejectKeeps DEF CompileFor
<1> QED BY <1>2, <1>3

LEMMA InstantiateKeeps == ASSUME IInv, NEW b \in Bindings, InstantiateContract(b) PROVE IInv'
<1>1. CASE CanInstantiate(b)
  <2>1. /\ stage' = "instantiated" /\ bound' = b /\ redeem' = InstantiateScript(b) /\ stage = "compiled"
        /\ UNCHANGED <<contract, target, warnings, spend>>
    BY <1>1 DEF InstantiateContract
  <2>2. InstantiateScript(bound)' = InstantiateScript(b) /\ CanInstantiate(bound)' = CanInstantiate(b)
    BY <2>1, SameContract
  <2>3. bound' \in Bindings /\ CanInstantiate(bound)' /\ redeem' = InstantiateScript(bound)'
    BY <1>1, <2>1, <2>2
  <2> QED BY <2>1, <2>3 DEF IInv, Stages, Analyzed, Lowered, CompiledOn, Bound
<1>2. CASE ~CanInstantiate(b)
  BY <1>2, RejectKeeps DEF InstantiateContract
<1> QED BY <1>1, <1>2

\* What was bound stays bound while a spend is made.
LEMMA BoundStays ==
    ASSUME IInv, stage \in Bound, UNCHANGED <<contract, bound, redeem>>
    PROVE  /\ bound' \in Bindings /\ CanInstantiate(bound)' /\ redeem' = InstantiateScript(bound)'
           /\ OnlySignatures' = OnlySignatures /\ Path' = Path
           /\ redeem.lockTime \in Nat
<1>1. bound \in Bindings /\ CanInstantiate(bound) /\ redeem = InstantiateScript(bound)
      /\ contract \in Contracts /\ Lowers(contract) /\ target \in Targets /\ Compiles(contract, target)
  BY DEF IInv, Bound, CompiledOn, Lowered, Analyzed
<1>2. /\ InstantiateScript(bound)' = InstantiateScript(bound) /\ CanInstantiate(bound)' = CanInstantiate(bound)
      /\ OnlySignatures' = OnlySignatures /\ Path' = Path
  BY SameContract
<1>3. redeem.lockTime \in 0 .. I64Max
  BY <1>1, ScriptIsTyped
<1> QED BY <1>1, <1>2, <1>3, WidthsAssumption

LEMMA SameSigned ==
    ASSUME NEW w, Path' = Path, spend'.witness = w, SignedBy(w)
    PROVE  SignedBy(spend.witness)'
BY DEF SignedBy

LEMMA BuildKeeps ==
    ASSUME IInv, NEW feeCoins \in 1 .. 2, NEW change \in Changes, BuildSpend(feeCoins, change)
    PROVE  IInv'
<1> DEFINE tx == BuiltTransaction(feeCoins, change)
           w  == WalletWitness
<1>1. CASE OnlySignatures /\ Accepts(redeem.script, w, tx)
  <2>1. /\ stage = "instantiated" /\ stage' = "ready" /\ spend' = [tx |-> tx, witness |-> w]
        /\ UNCHANGED <<contract, target, warnings, bound, redeem>>
    BY <1>1 DEF BuildSpend
  <2>2. /\ bound' \in Bindings /\ CanInstantiate(bound)' /\ redeem' = InstantiateScript(bound)'
        /\ OnlySignatures' = OnlySignatures /\ Path' = Path
        /\ redeem.lockTime \in Nat
    BY <2>1, BoundStays DEF Bound, CompiledOn, Lowered, Analyzed
  <2>3. IsTransaction(tx)
    BY <2>2, BuiltIsTransaction
  <2>4. SignedBy(w)
    BY DEF SignedBy, WalletWitness, Sig
  <2> HIDE DEF tx, w
  <2>5. spend'.witness = w /\ spend'.tx = tx
    BY <2>1
  <2>6. SignedBy(spend.witness)'
    BY <2>2, <2>4, <2>5, SameSigned
  <2>7. IsTransaction(spend'.tx) /\ Accepts(redeem'.script, spend'.witness, spend'.tx)
    BY <1>1, <2>1, <2>3, <2>5
  <2> QED BY <1>1, <2>1, <2>2, <2>6, <2>7 DEF IInv, Stages, Analyzed, Lowered, CompiledOn, Bound
<1>2. CASE ~(OnlySignatures /\ Accepts(redeem.script, w, tx))
  BY <1>2, RejectKeeps DEF BuildSpend
<1> QED BY <1>1, <1>2

LEMMA SubmitBuiltKeeps == ASSUME IInv, NEW now \in Moments, SubmitBuilt(now) PROVE IInv'
<1>1. /\ stage = "ready" /\ stage' = "spent" /\ Final(spend.tx, now)
      /\ spend' = [tx |-> spend.tx, witness |-> spend.witness, now |-> now]
      /\ UNCHANGED <<contract, target, warnings, bound, redeem>>
  BY DEF SubmitBuilt
<1>2. /\ bound' \in Bindings /\ CanInstantiate(bound)' /\ redeem' = InstantiateScript(bound)'
      /\ OnlySignatures' = OnlySignatures /\ Path' = Path
  BY <1>1, BoundStays DEF Bound, CompiledOn, Lowered, Analyzed
<1>3. /\ OnlySignatures /\ IsTransaction(spend.tx) /\ SignedBy(spend.witness)
      /\ Accepts(redeem.script, spend.witness, spend.tx)
  BY <1>1 DEF IInv
<1>4. spend'.tx = spend.tx /\ spend'.witness = spend.witness /\ spend'.now = now
  BY <1>1
<1>5. SignedBy(spend.witness)'
  BY <1>2, <1>3, <1>4, SameSigned
<1> QED BY <1>1, <1>2, <1>3, <1>4, <1>5 DEF IInv, Stages, Analyzed, Lowered, CompiledOn, Bound

LEMMA SubmitOtherKeeps ==
    ASSUME IInv, NEW tx \in Transactions, NEW now \in Moments, NEW w \in Witnesses, SubmitOther(tx, w, now)
    PROVE  IInv'
<1>1. /\ stage = "instantiated" /\ stage' = "spent" /\ Final(tx, now) /\ OnlySignatures
      /\ spend' = [tx |-> tx, witness |-> w, now |-> now] /\ Accepts(redeem.script, w, tx)
      /\ UNCHANGED <<contract, target, warnings, bound, redeem>>
  BY DEF SubmitOther
<1>2. /\ bound' \in Bindings /\ CanInstantiate(bound)' /\ redeem' = InstantiateScript(bound)'
      /\ OnlySignatures' = OnlySignatures /\ Path' = Path
  BY <1>1, BoundStays DEF Bound, CompiledOn, Lowered, Analyzed
<1>3. IsTransaction(tx)
  BY ChainAssumption
<1>4. SignedBy(w)
  BY DEF SignedBy, Witnesses, Sig
<1>5. spend'.tx = tx /\ spend'.witness = w /\ spend'.now = now
  BY <1>1
<1>6. SignedBy(spend.witness)'
  BY <1>2, <1>4, <1>5, SameSigned
<1> QED BY <1>1, <1>2, <1>3, <1>5, <1>6 DEF IInv, Stages, Analyzed, Lowered, CompiledOn, Bound

LEMMA StutterKeeps == ASSUME IInv, UNCHANGED vars PROVE IInv'
<1>1. UNCHANGED <<stage, contract, target, warnings, bound, redeem, spend>>
  BY DEF vars
<1>2. /\ InstantiateScript(bound)' = InstantiateScript(bound) /\ CanInstantiate(bound)' = CanInstantiate(bound)
      /\ OnlySignatures' = OnlySignatures /\ Path' = Path
  BY <1>1, SameContract
<1>3. SignedBy(spend.witness) => SignedBy(spend.witness)'
  BY <1>1, <1>2, SameSigned
<1> QED BY <1>1, <1>2, <1>3 DEF IInv

\* Every step keeps it.
LEMMA StepsKeep == IInv /\ [Next]_vars => IInv'
<1> SUFFICES ASSUME IInv, [Next]_vars PROVE IInv'
  OBVIOUS
<1>1. CASE \E c \in Contracts : Read(c)
  BY <1>1, ReadKeeps
<1>2. CASE Unreadable
  BY <1>2, UnreadableKeeps
<1>3. CASE Analyze
  BY <1>3, AnalyzeKeeps
<1>4. CASE LowerContract
  BY <1>4, LowerKeeps
<1>5. CASE \E t \in CompileTargets : CompileFor(t)
  BY <1>5, CompileKeeps
<1>6. CASE \E b \in Bindings : InstantiateContract(b)
  BY <1>6, InstantiateKeeps
<1>7. CASE \E feeCoins \in 1 .. 2, change \in Changes : BuildSpend(feeCoins, change)
  BY <1>7, BuildKeeps
<1>8. CASE \E now \in Moments : SubmitBuilt(now)
  BY <1>8, SubmitBuiltKeeps
<1>9. CASE \E tx \in Transactions, now \in Moments : \E w \in Witnesses : SubmitOther(tx, w, now)
  BY <1>9, SubmitOtherKeeps
<1>10. CASE UNCHANGED vars
  BY <1>10, StutterKeeps
<1> QED BY <1>1, <1>2, <1>3, <1>4, <1>5, <1>6, <1>7, <1>8, <1>9, <1>10 DEF Next, Steps

LEMMA InvariantIsTyped == IInv => TypeOK
<1> SUFFICES ASSUME IInv PROVE TypeOK
  OBVIOUS
<1>1. ASSUME stage \in {"instantiated", "ready", "spent"}
      PROVE  /\ bound \in Bindings
             /\ redeem.lockTime \in 0 .. I64Max /\ redeem.usesLockTime \in BOOLEAN
             /\ \A op \in ToSet(redeem.script) :
                    op[1] \in ScriptOps /\ (op[1] = "push" /\ IsNum(op[2]) => op[2][2] <= I64Max)
  <2>1. bound \in Bindings /\ CanInstantiate(bound) /\ redeem = InstantiateScript(bound)
        /\ contract \in Contracts /\ Lowers(contract) /\ target \in Targets /\ Compiles(contract, target)
    BY <1>1 DEF IInv, Bound, CompiledOn, Lowered, Analyzed
  <2> QED BY <2>1, ScriptIsTyped
<1>2. /\ stage \in Stages /\ (stage \in {"source", "unreadable"} => contract = Nothing)
      /\ target \in Targets \cup {Nothing} /\ warnings \subseteq {16, 20}
      /\ (stage = "spent" => spend.now \in Moments)
  BY DEF IInv
<1> QED BY <1>1, <1>2 DEF TypeOK

LEMMA InvariantHolds == Spec => []IInv
BY InitIsInvariant, StepsKeep, PTL DEF Spec

\* TypeOK: every stage has what the stages before it made, and the script the
\* compiler's lowering, gate, binding and encoding make of a contract consists of
\* operations that the engine has, with numbers that a script can hold.
THEOREM ScriptIsWellFormed == Spec => []TypeOK
BY InvariantHolds, InvariantIsTyped, PTL

-----------------------------------------------------------------------------
(* Running a script.  What the engine does with a script is what it does with its operations one
   after the other, from each of the stacks they may leave.                *)

StepsOf(p)       == 0 .. Len(p[1])
StepOf(p, i)     == i
RunOf(p, i, at)  == RunFrom(p[1], p[2], p[3], i, at)

Running == INSTANCE Recursion WITH Domain <- StepsOf, Size <- StepOf, From <- RunOf

\* An operation, and a script, from any of several stacks.
Onward(stacks, op, tx)     == UNION {After(s, op, tx) : s \in stacks}
Along(stacks, script, tx)  == UNION {Run(script, s, tx) : s \in stacks}

\* The stacks after each operation of a script, up to the n-th.
RunsAs(script, witness, tx, n, at) == at = [i \in 0 .. n |-> RunFrom(script, witness, tx, i, at)]

LEMMA RunUnfolds ==
    ASSUME NEW script, NEW witness, NEW tx, IsSeq(script)
    PROVE  \E at : /\ RunsAs(script, witness, tx, Len(script), at)
                   /\ Run(script, witness, tx) = at[Len(script)]
<1> DEFINE p == <<script, witness, tx>>
<1>0. Len(script) \in Nat
  BY SeqProps
<1>1. p[1] = script /\ p[2] = witness /\ p[3] = tx
  OBVIOUS
<1> HIDE DEF p
<1>2. Running!UsesSmaller(p)
  <2>1. ASSUME NEW i \in 0 .. Len(script), NEW f, NEW g,
               \A j \in 0 .. Len(script) : j < i => f[j] = g[j]
        PROVE  RunFrom(script, witness, tx, i, f) = RunFrom(script, witness, tx, i, g)
    <3>1. CASE i = 0
      BY <3>1 DEF RunFrom
    <3>2. CASE i # 0
      <4>1. f[i - 1] = g[i - 1]
        BY <1>0, <2>1, <3>2
      <4> QED BY <4>1 DEF RunFrom
    <3> QED BY <3>1, <3>2
  <2> QED BY <1>1, <2>1 DEF Running!UsesSmaller, RunOf, StepsOf, StepOf
<1>3. Running!Measured(p, Len(script))
  BY <1>1 DEF Running!Measured, StepsOf, StepOf
<1>4. \E f : Running!Defines(p, f)
  <2>0. Running!Induction
    BY NatInductionOnSet DEF Running!Induction
  <2> QED BY <2>0, <1>0, <1>2, <1>3, Running!Exists
<1>5. \E f : RunsAs(script, witness, tx, Len(script), f)
  BY <1>1, <1>4 DEF Running!Defines, RunsAs, RunOf, StepsOf
<1> DEFINE at == CHOOSE at : at = [i \in 0 .. Len(script) |-> RunFrom(script, witness, tx, i, at)]
<1>6. at = [i \in 0 .. Len(script) |-> RunFrom(script, witness, tx, i, at)]
  BY <1>5, Zenon DEF RunsAs
<1>7. Run(script, witness, tx) = at[Len(script)]
  BY Zenon DEF Run
<1> QED BY <1>6, <1>7, Zenon DEF RunsAs

Stepwise(script, witness, tx, n, at) ==
    /\ at[0] = {witness}
    /\ \A i \in 1 .. n : at[i] = Onward(at[i - 1], script[i], tx)

LEMMA RunsAsAt ==
    ASSUME NEW script, NEW witness, NEW tx, NEW n \in Nat, NEW at, RunsAs(script, witness, tx, n, at)
    PROVE  Stepwise(script, witness, tx, n, at)
<1>1. \A i \in 0 .. n : at[i] = RunFrom(script, witness, tx, i, at)
  BY Zenon DEF RunsAs
<1>2. at[0] = RunFrom(script, witness, tx, 0, at)
  BY <1>1
<1>3. ASSUME NEW i \in 1 .. n PROVE i # 0 /\ at[i] = RunFrom(script, witness, tx, i, at)
  BY <1>1, <1>3
<1>4. ASSUME NEW i \in 1 .. n PROVE at[i] = Onward(at[i - 1], script[i], tx)
  BY <1>3 DEF RunFrom, Onward
<1>5. at[0] = {witness}
  BY <1>2 DEF RunFrom
<1> QED BY <1>4, <1>5 DEF Stepwise

LEMMA RunEmpty == \A witness, tx : Run(<< >>, witness, tx) = {witness}
<1> TAKE witness, tx
<1>1. IsSeq(<< >>) /\ Len(<< >>) = 0
  BY EmptyIsSeq
<1>2. PICK at : RunsAs(<< >>, witness, tx, Len(<< >>), at) /\ Run(<< >>, witness, tx) = at[Len(<< >>)]
  BY <1>1, RunUnfolds
<1> DEFINE e == << >>
<1>3. RunsAs(e, witness, tx, 0, at) /\ Run(e, witness, tx) = at[0]
  BY <1>1, <1>2
<1> HIDE DEF e
<1>4. at[0] = {witness}
  BY <1>3, RunsAsAt DEF Stepwise
<1> QED BY <1>3, <1>4 DEF e

\* One more operation, from whatever stack those before it leave.
LEMMA RunAppend ==
    ASSUME NEW script, IsSeq(script), NEW op
    PROVE  \A witness, tx :
             Run(Append(script, op), witness, tx) = Onward(Run(script, witness, tx), op, tx)
<1> TAKE witness, tx
<1> DEFINE more == Append(script, op)
           n    == Len(script)
<1>1. n \in Nat
  BY SeqProps
<1>2. IsSeq(more) /\ Len(more) = n + 1 /\ more[n + 1] = op /\ \A i \in 1 .. n : more[i] = script[i]
  <2>1. OneMore(more, script, op)
    BY DEF OneMore
  <2> HIDE DEF more
  <2>2. OneLonger(more, script, op)
    BY <2>1, Appended
  <2> QED BY <2>2 DEF OneLonger
<1> HIDE DEF more, n
<1>3. PICK f : RunsAs(script, witness, tx, n, f) /\ Run(script, witness, tx) = f[n]
  BY RunUnfolds DEF n
<1>4. PICK g : RunsAs(more, witness, tx, n + 1, g) /\ Run(more, witness, tx) = g[n + 1]
  <2>1. \E g : RunsAs(more, witness, tx, Len(more), g) /\ Run(more, witness, tx) = g[Len(more)]
    BY <1>2, RunUnfolds
  <2> QED BY <1>2, <2>1
<1>5. f[0] = {witness} /\ \A i \in 1 .. n : f[i] = Onward(f[i - 1], script[i], tx)
  <2>1. Stepwise(script, witness, tx, n, f)
    BY <1>1, <1>3, RunsAsAt
  <2> QED BY <2>1 DEF Stepwise
<1>6. g[0] = {witness} /\ \A i \in 1 .. n + 1 : g[i] = Onward(g[i - 1], more[i], tx)
  <2> DEFINE m == n + 1
  <2>1. m \in Nat /\ RunsAs(more, witness, tx, m, g)
    BY <1>1, <1>4
  <2> HIDE DEF m
  <2>2. Stepwise(more, witness, tx, m, g)
    BY <2>1, RunsAsAt
  <2> QED BY <2>2 DEF m, Stepwise
<1> DEFINE T == {j \in Nat : j <= n => f[j] = g[j]}
<1>7. 0 \in T
  BY <1>5, <1>6
<1>8. ASSUME NEW j \in T PROVE j + 1 \in T
  <2>1. CASE j + 1 <= n
    <3> DEFINE i == j + 1
    <3>1. i \in 1 .. n /\ i \in 1 .. n + 1 /\ f[i - 1] = g[i - 1] /\ i - 1 = j
      BY <1>1, <1>8, <2>1
    <3> HIDE DEF i
    <3>2. f[i] = g[i]
      BY <1>2, <1>5, <1>6, <3>1
    <3> QED BY <3>2, <1>1, <1>8 DEF i
  <2>2. CASE ~(j + 1 <= n)
    BY <2>2, <1>8
  <2> QED BY <2>1, <2>2
<1>9. T \in SUBSET Nat
  OBVIOUS
<1> HIDE DEF T
<1>10. T = Nat
  BY <1>7, <1>8, <1>9, NatInductionOnSet
<1>11. f[n] = g[n]
  BY <1>1, <1>10 DEF T
<1>12. g[n + 1] = Onward(g[n], more[n + 1], tx)
  <2> DEFINE k == n + 1
  <2>1. k \in 1 .. k /\ k - 1 = n
    BY <1>1
  <2>2. g[k] = Onward(g[k - 1], more[k], tx)
    BY <2>1, <1>6
  <2> HIDE DEF k
  <2>3. g[k] = Onward(g[n], more[k], tx)
    BY <2>1, <2>2
  <2> QED BY <2>3 DEF k
<1> QED BY <1>2, <1>3, <1>4, <1>11, <1>12, Zenon DEF more

RunsOn(a, b, witness, tx) == Run(a \o b, witness, tx) = Along(Run(a, witness, tx), b, tx)

\* One script after another.
LEMMA RunConcat ==
    ASSUME NEW a, NEW b, IsSeq(a), IsSeq(b)
    PROVE  \A witness, tx : RunsOn(a, b, witness, tx)
<1> TAKE witness, tx
<1> DEFINE T == {n \in Nat : \A c : IsSeq(c) /\ Len(c) = n => RunsOn(a, c, witness, tx)}
<1>1. 0 \in T
  <2>1. ASSUME NEW c, IsSeq(c), Len(c) = 0 PROVE RunsOn(a, c, witness, tx)
    <3>1. c = << >>
      BY <2>1, EmptyLen
    <3>2. a \o c = a
      BY <3>1, ConcatEmpty
    <3>3. \A s : Run(c, s, tx) = {s}
      BY <3>1, RunEmpty
    <3>4. Along(Run(a, witness, tx), c, tx) = Run(a, witness, tx)
      BY <3>3 DEF Along
    <3> QED BY <3>2, <3>4 DEF RunsOn
  <2> QED BY <2>1
<1>2. ASSUME NEW n \in T PROVE n + 1 \in T
  <2>0. n \in Nat /\ \A c : IsSeq(c) /\ Len(c) = n => RunsOn(a, c, witness, tx)
    OBVIOUS
  <2>1. ASSUME NEW c, IsSeq(c), Len(c) = n + 1 PROVE RunsOn(a, c, witness, tx)
    <3> DEFINE d  == SubSeq(c, 1, n)
               op == c[n + 1]
    <3>1. IsSeq(d) /\ Len(d) = n /\ \A i \in 1 .. n : d[i] = c[i]
      BY <2>0, <2>1, PrefixSeq
    <3> HIDE DEF d
    <3>2. c = Append(d, op)
      <4>0. op = c[n + 1]
        OBVIOUS
      <4> HIDE DEF op
      <4>1. IsSeq(Append(d, op)) /\ Len(Append(d, op)) = n + 1 /\ Append(d, op)[n + 1] = op
            /\ \A i \in 1 .. n : Append(d, op)[i] = d[i]
        <5> DEFINE m == Append(d, op)
        <5>1. OneMore(m, d, op)
          BY DEF OneMore
        <5> HIDE DEF m
        <5>2. OneLonger(m, d, op)
          BY <3>1, <5>1, Appended
        <5>3. IsSeq(m) /\ Len(m) = n + 1 /\ m[n + 1] = op /\ \A i \in 1 .. n : m[i] = d[i]
          BY <3>1, <5>2 DEF OneLonger
        <5> QED BY <5>3 DEF m
      <4>2. \A i \in 1 .. n + 1 : c[i] = Append(d, op)[i]
        BY <2>0, <3>1, <4>0, <4>1
      <4> QED BY <2>1, <4>1, <4>2, SameSeq
    <3> HIDE DEF op
    <3>3. a \o c = Append(a \o d, op) /\ IsSeq(a \o d)
      <4>1. IsSeq(a \o d) /\ IsSeq(<<op>>)
        BY <3>1, ConcatSeq, OneIsSeq
      <4>2. c = d \o <<op>>
        BY <3>1, <3>2, AppendSeq
      <4>3. a \o c = (a \o d) \o <<op>>
        BY <3>1, <4>1, <4>2, ConcatAssoc
      <4> QED BY <4>1, <4>3, AppendSeq
    <3>4. Run(a \o d, witness, tx) = Along(Run(a, witness, tx), d, tx)
      BY <2>0, <3>1 DEF RunsOn
    <3>5. Run(a \o c, witness, tx) = Onward(Run(a \o d, witness, tx), op, tx)
      BY <3>3, RunAppend
    <3>6. \A s : Run(c, s, tx) = Onward(Run(d, s, tx), op, tx)
      BY <3>1, <3>2, RunAppend
    <3>7. Onward(Along(Run(a, witness, tx), d, tx), op, tx)
          = UNION {Onward(Run(d, s, tx), op, tx) : s \in Run(a, witness, tx)}
      BY DEF Onward, Along
    <3>8. Along(Run(a, witness, tx), c, tx)
          = UNION {Onward(Run(d, s, tx), op, tx) : s \in Run(a, witness, tx)}
      BY <3>6 DEF Along
    <3> QED BY <3>4, <3>5, <3>7, <3>8 DEF RunsOn
  <2> QED BY <2>0, <2>1
<1>3. T \in SUBSET Nat
  OBVIOUS
<1> HIDE DEF T
<1>4. T = Nat
  BY <1>1, <1>2, <1>3, NatInductionOnSet
<1>5. Len(b) \in T
  BY <1>4, SeqProps
<1> QED BY <1>5 DEF T

LEMMA RunOne == \A op, witness, tx : Run(<<op>>, witness, tx) = After(witness, op, tx)
<1> TAKE op, witness, tx
<1>1. <<op>> = Append(<< >>, op)
  OBVIOUS
<1>2. Run(Append(<< >>, op), witness, tx) = Onward(Run(<< >>, witness, tx), op, tx)
  <2>1. \A w, t : Run(Append(<< >>, op), w, t) = Onward(Run(<< >>, w, t), op, t)
    <3> DEFINE none == << >>
    <3>1. IsSeq(none)
      BY EmptyIsSeq
    <3> HIDE DEF none
    <3>2. \A w, t : Run(Append(none, op), w, t) = Onward(Run(none, w, t), op, t)
      BY <3>1, RunAppend, Zenon
    <3> QED BY <3>2 DEF none
  <2> QED BY <2>1, Zenon
<1>3. Run(<< >>, witness, tx) = {witness}
  BY RunEmpty
<1>4. Run(<<op>>, witness, tx) = Onward({witness}, op, tx)
  BY <1>1, <1>2, <1>3, Zenon
<1> QED BY <1>4 DEF Onward

-----------------------------------------------------------------------------
(* Binding and encoding.  They take a code piece by piece: what a piece becomes depends on nothing but
   whether a coin is being read where it begins.                           *)

\* A sequence mapped to pieces, and two of them one after the other.
MapsTo(c, ps) == ps = [i \in DOMAIN c |-> ps[i]] /\ \A i \in 1 .. Len(c) : IsSeq(ps[i])

MapsBoth(c, d, ps, qs, rs) ==
    /\ rs = [i \in DOMAIN (c \o d) |-> rs[i]]
    /\ \A i \in 1 .. Len(c) : rs[i] = ps[i]
    /\ \A i \in 1 .. Len(d) : rs[Len(c) + i] = qs[i]

Joined(ps, qs, rs) == Concat(rs) = Concat(ps) \o Concat(qs)

LEMMA PiecesApart ==
    ASSUME NEW c, NEW d, IsSeq(c), IsSeq(d), NEW ps, MapsTo(c, ps), NEW qs, MapsTo(d, qs),
           NEW rs, MapsBoth(c, d, ps, qs, rs)
    PROVE  Joined(ps, qs, rs)
<1>1. Len(c) \in Nat /\ Len(d) \in Nat
  BY SeqProps
<1>2. IsSeq(c \o d) /\ Len(c \o d) = Len(c) + Len(d)
  BY ConcatSeq
<1>3. IsSeqOfSeqs(ps) /\ Len(ps) = Len(c) /\ Concat(ps) = FlattenSeq(ps)
  BY Pieces DEF MapsTo
<1>4. IsSeqOfSeqs(qs) /\ Len(qs) = Len(d) /\ Concat(qs) = FlattenSeq(qs)
  BY Pieces DEF MapsTo
<1>5. IsSeq(ps \o qs) /\ Len(ps \o qs) = Len(ps) + Len(qs)
      /\ (\A i \in 1 .. Len(ps) : (ps \o qs)[i] = ps[i])
      /\ (\A i \in 1 .. Len(qs) : (ps \o qs)[Len(ps) + i] = qs[i])
  BY <1>3, <1>4, ConcatSeq DEF IsSeqOfSeqs
<1>6. IsSeq(rs) /\ Len(rs) = Len(c) + Len(d)
  BY <1>2, Mapped DEF MapsBoth
<1> DEFINE pq == ps \o qs
           m  == Len(c)
           n  == Len(d)
<1>7. IsSeq(pq) /\ Len(pq) = m + n /\ (\A i \in 1 .. m : pq[i] = rs[i])
      /\ (\A i \in 1 .. n : pq[m + i] = rs[m + i]) /\ m \in Nat /\ n \in Nat /\ Len(rs) = m + n
  BY <1>1, <1>3, <1>4, <1>5, <1>6 DEF MapsBoth
<1> HIDE DEF pq, m, n
<1>8. \A j \in 1 .. m + n : rs[j] = pq[j]
  <2> TAKE j \in 1 .. m + n
  <2>1. CASE j <= m
    <3>1. j \in 1 .. m
      BY <1>7, <2>1
    <3> QED BY <1>7, <3>1
  <2>2. CASE j > m
    <3> DEFINE k == j - m
    <3>1. k \in 1 .. n /\ m + k = j
      BY <1>7, <2>2
    <3> HIDE DEF k
    <3>2. pq[m + k] = rs[m + k]
      BY <1>7, <3>1
    <3> QED BY <3>1, <3>2
  <2>3. j <= m \/ j > m
    BY <1>7
  <2> QED BY <2>1, <2>2, <2>3
<1>9. rs = pq
  BY <1>6, <1>7, <1>8, SameSeq
<1>10. Concat(rs) = FlattenSeq(pq)
  BY <1>6, <1>9, ConcatIs
<1>11. FlattensApart(ps, qs)
  BY <1>3, <1>4, FlattenConcat
<1> QED BY <1>3, <1>4, <1>10, <1>11 DEF FlattensApart, Joined, pq

\* And what one element is mapped to.
LEMMA PieceOfOne ==
    ASSUME NEW x, NEW rs, rs = [i \in DOMAIN <<x>> |-> rs[i]], IsSeq(rs[1])
    PROVE  Concat(rs) = rs[1]
<1>1. IsSeq(<<x>>) /\ Len(<<x>>) = 1
  BY OneIsSeq
<1> DEFINE c == <<x>>
<1>2. IsSeq(c) /\ Len(c) = 1 /\ rs = [i \in DOMAIN c |-> rs[i]]
  BY <1>1
<1> HIDE DEF c
<1>3. IsSeq(rs) /\ Len(rs) = 1
  BY <1>2, Mapped
<1>4. rs = <<rs[1]>>
  <2>1. IsSeq(<<rs[1]>>) /\ Len(<<rs[1]>>) = 1 /\ <<rs[1]>>[1] = rs[1]
    BY OneIsSeq
  <2> DEFINE q == <<rs[1]>>
  <2>2. IsSeq(q) /\ Len(q) = 1 /\ q[1] = rs[1]
    BY <2>1
  <2> HIDE DEF q
  <2>3. rs = q
    BY <1>3, <2>2, SameSeq
  <2> QED BY <2>3 DEF q
<1>5. Concat(rs) = FlattenSeq(rs)
  BY <1>3, ConcatIs
<1>6. FlattenSeq(<<rs[1]>>) = rs[1]
  BY FlattenOne
<1> QED BY <1>4, <1>5, <1>6, Zenon

LEMMA PieceOfNone == \A rs : rs = [i \in DOMAIN << >> |-> rs[i]] => Concat(rs) = << >>
<1> TAKE rs
<1> HAVE rs = [i \in DOMAIN << >> |-> rs[i]]
<1> DEFINE c == << >>
<1>1. IsSeq(c) /\ Len(c) = 0 /\ rs = [i \in DOMAIN c |-> rs[i]]
  BY EmptyIsSeq
<1> HIDE DEF c
<1>2. IsSeq(rs) /\ Len(rs) = 0
  BY <1>1, Mapped
<1>3. rs = << >>
  BY <1>2, EmptyLen
<1> QED BY <1>2, <1>3, ConcatIs, FlattenEmpty

EncodedApart(c, d) == EncodeAll(c \o d) = EncodeAll(c) \o EncodeAll(d)

LEMMA EncodeApart == ASSUME NEW c, NEW d, IsSeq(c), IsSeq(d) PROVE EncodedApart(c, d)
<1> DEFINE e  == c \o d
           ps == [i \in DOMAIN c |-> Encode(c[i])]
           qs == [i \in DOMAIN d |-> Encode(d[i])]
           rs == [i \in DOMAIN e |-> Encode(e[i])]
<1>1. IsSeq(e) /\ Len(e) = Len(c) + Len(d) /\ (\A i \in 1 .. Len(c) : e[i] = c[i])
      /\ (\A i \in 1 .. Len(d) : e[Len(c) + i] = d[i])
  BY ConcatSeq
<1> HIDE DEF e
<1>2. DOMAIN c = 1 .. Len(c) /\ DOMAIN d = 1 .. Len(d) /\ DOMAIN e = 1 .. Len(e)
      /\ Len(c) \in Nat /\ Len(d) \in Nat
  BY <1>1, SeqProps
<1>3. ps = [i \in DOMAIN c |-> ps[i]] /\ (\A i \in 1 .. Len(c) : IsSeq(ps[i]))
  BY <1>2, EncodeSeq
<1>4. qs = [i \in DOMAIN d |-> qs[i]] /\ (\A i \in 1 .. Len(d) : IsSeq(qs[i]))
  BY <1>2, EncodeSeq
<1>5. rs = [i \in DOMAIN e |-> rs[i]] /\ (\A i \in 1 .. Len(c) : rs[i] = ps[i])
      /\ (\A i \in 1 .. Len(d) : rs[Len(c) + i] = qs[i])
  <2>1. rs = [i \in DOMAIN e |-> rs[i]]
    OBVIOUS
  <2>2. \A i \in 1 .. Len(c) : i \in DOMAIN e /\ i \in DOMAIN c
    BY <1>1, <1>2
  <2>3. \A i \in 1 .. Len(d) : Len(c) + i \in DOMAIN e /\ i \in DOMAIN d
    BY <1>1, <1>2
  <2>4. \A i \in 1 .. Len(c) : rs[i] = ps[i]
    BY <1>1, <2>2
  <2>5. \A i \in 1 .. Len(d) : rs[Len(c) + i] = qs[i]
    BY <1>1, <2>3
  <2> QED BY <2>1, <2>4, <2>5
<1>6. EncodeAll(c) = Concat(ps) /\ EncodeAll(d) = Concat(qs) /\ EncodeAll(e) = Concat(rs)
  BY DEF EncodeAll
<1> HIDE DEF ps, qs, rs
<1>7. Joined(ps, qs, rs)
  <2>1. rs = [i \in DOMAIN (c \o d) |-> rs[i]]
    BY <1>5, Zenon DEF e
  <2>2. MapsTo(c, ps) /\ MapsTo(d, qs)
    BY <1>3, <1>4, Zenon DEF MapsTo
  <2>3. MapsBoth(c, d, ps, qs, rs)
    BY <1>5, <2>1, Zenon DEF MapsBoth
  <2> QED BY <2>2, <2>3, PiecesApart, Zenon
<1> QED BY <1>6, <1>7 DEF EncodedApart, Joined, e

LEMMA EncodeFew ==
    /\ EncodeAll(<< >>) = << >>
    /\ \A ins : EncodeAll(<<ins>>) = Encode(ins)
<1>1. EncodeAll(<< >>) = << >>
  <2> DEFINE c == << >>
             rs == [i \in DOMAIN c |-> Encode(c[i])]
  <2>1. rs = [i \in DOMAIN << >> |-> rs[i]]
    OBVIOUS
  <2>2. EncodeAll(c) = Concat(rs)
    BY DEF EncodeAll
  <2> HIDE DEF rs
  <2> QED BY <2>1, <2>2, PieceOfNone
<1>2. ASSUME NEW ins PROVE EncodeAll(<<ins>>) = Encode(ins)
  <2> DEFINE c == <<ins>>
             rs == [i \in DOMAIN c |-> Encode(c[i])]
  <2>1. rs = [i \in DOMAIN <<ins>> |-> rs[i]] /\ rs[1] = Encode(ins)
    OBVIOUS
  <2>2. EncodeAll(c) = Concat(rs)
    BY DEF EncodeAll
  <2>3. IsSeq(Encode(ins))
    BY EncodeSeq
  <2> HIDE DEF rs
  <2>4. Concat(rs) = rs[1]
    BY <2>1, <2>3, PieceOfOne
  <2> QED BY <2>1, <2>2, <2>4
<1> QED BY <1>1, <1>2

-----------------------------------------------------------------------------
(* Binding code behind other code.                                         *)

Reading(ins) == ins[1] \in {"input_script", "output_script"}

\* An instruction bound after one that reads a script, or that does not.
BindOne(read, ins, b) ==
    IF ins[1] # "symbol" THEN <<ins>>
    ELSE IF IsSpendParam(ins[2]) THEN << >>
    ELSE <<Push(IF b[ins[2]][1] = "key" /\ read THEN Script(b[ins[2]][2]) ELSE b[ins[2]])>>

ReadBefore(read, code, i) == IF i = 1 THEN read ELSE Reading(code[i - 1])
ReadAfter(read, code)     == IF code = << >> THEN read ELSE Reading(code[Len(code)])

BindAfter(read, code, b) ==
    Concat([i \in DOMAIN code |-> BindOne(ReadBefore(read, code, i), code[i], b)])

LEMMA BindOneSeq == \A read, ins, b : IsSeq(BindOne(read, ins, b))
<1>1. \A x : IsSeq(<<x>>)
  BY OneIsSeq
<1> QED BY <1>1, EmptyIsSeq, Zenon DEF BindOne

LEMMA BindAfterSeq == ASSUME NEW read, NEW code, NEW b, IsSeq(code) PROVE IsSeq(BindAfter(read, code, b))
<1> DEFINE ps == [i \in DOMAIN code |-> BindOne(ReadBefore(read, code, i), code[i], b)]
<1>1. DOMAIN code = 1 .. Len(code)
  BY SeqProps
<1>2. ps = [i \in DOMAIN code |-> ps[i]] /\ \A i \in 1 .. Len(code) : IsSeq(ps[i])
  BY <1>1, BindOneSeq
<1>3. BindAfter(read, code, b) = Concat(ps)
  BY DEF BindAfter
<1> HIDE DEF ps
<1> QED BY <1>2, <1>3, Pieces

LEMMA BindsAll == ASSUME NEW code, NEW b, IsSeq(code) PROVE BindCode(code, b) = BindAfter(FALSE, code, b)
<1>1. DOMAIN code = 1 .. Len(code) /\ Len(code) \in Nat
  BY SeqProps
<1>2. ASSUME NEW i \in DOMAIN code
      PROVE  BindInstruction(code, i, b) = BindOne(ReadBefore(FALSE, code, i), code[i], b)
  <2>1. CASE i = 1
    <3>1. ~FollowsScriptRead(code, i) /\ ReadBefore(FALSE, code, i) = FALSE
      BY <2>1 DEF FollowsScriptRead, ReadBefore
    <3> QED BY <3>1 DEF BindInstruction, BindOne, BoundValue
  <2>2. CASE i # 1
    <3>1. i > 1
      BY <1>1, <2>2
    <3>2. FollowsScriptRead(code, i) <=> ReadBefore(FALSE, code, i)
      BY <2>2, <3>1 DEF FollowsScriptRead, ReadBefore, Reading
    <3> QED BY <3>2 DEF BindInstruction, BindOne, BoundValue
  <2> QED BY <2>1, <2>2
<1>3. [i \in DOMAIN code |-> BindInstruction(code, i, b)]
      = [i \in DOMAIN code |-> BindOne(ReadBefore(FALSE, code, i), code[i], b)]
  BY <1>2
<1> QED BY <1>3, Zenon DEF BindCode, BindAfter

BoundApart(read, c, d, b) ==
    BindAfter(read, c \o d, b) = BindAfter(read, c, b) \o BindAfter(ReadAfter(read, c), d, b)

LEMMA BindApart ==
    ASSUME NEW read, NEW c, NEW d, NEW b, IsSeq(c), IsSeq(d)
    PROVE  BoundApart(read, c, d, b)
<1> DEFINE e  == c \o d
           after == ReadAfter(read, c)
           m  == Len(c)
           n  == Len(d)
           ps == [i \in DOMAIN c |-> BindOne(ReadBefore(read, c, i), c[i], b)]
           qs == [i \in DOMAIN d |-> BindOne(ReadBefore(after, d, i), d[i], b)]
           rs == [i \in DOMAIN e |-> BindOne(ReadBefore(read, e, i), e[i], b)]
<1>1. IsSeq(e) /\ Len(e) = m + n /\ (\A i \in 1 .. m : e[i] = c[i])
      /\ (\A i \in 1 .. n : e[m + i] = d[i])
  BY ConcatSeq
<1>2. after = IF m = 0 THEN read ELSE Reading(c[m])
  BY EmptyLen DEF ReadAfter
<1> HIDE DEF e, after
<1>3. DOMAIN c = 1 .. m /\ DOMAIN d = 1 .. n /\ m \in Nat /\ n \in Nat /\ DOMAIN e = 1 .. Len(e)
  BY <1>1, SeqProps
<1> HIDE DEF m, n
<1>4. ps = [i \in DOMAIN c |-> ps[i]] /\ (\A i \in 1 .. m : IsSeq(ps[i]))
  BY <1>3, BindOneSeq
<1>5. qs = [i \in DOMAIN d |-> qs[i]] /\ (\A i \in 1 .. n : IsSeq(qs[i]))
  BY <1>3, BindOneSeq
<1>6. rs = [i \in DOMAIN e |-> rs[i]]
  OBVIOUS
<1>7. ASSUME NEW i \in 1 .. m PROVE rs[i] = ps[i]
  <2>1. i \in DOMAIN e /\ i \in DOMAIN c /\ e[i] = c[i]
    BY <1>1, <1>3
  <2>2. ReadBefore(read, e, i) = ReadBefore(read, c, i)
    <3>1. CASE i = 1
      BY <3>1 DEF ReadBefore
    <3>2. CASE i # 1
      <4> DEFINE j == i - 1
      <4>1. j \in 1 .. m
        BY <1>3, <3>2
      <4> HIDE DEF j
      <4>2. e[j] = c[j]
        BY <1>1, <4>1
      <4> QED BY <3>2, <4>2 DEF ReadBefore, j
    <3> QED BY <3>1, <3>2
  <2> QED BY <2>1, <2>2
<1>8. ASSUME NEW i \in 1 .. n PROVE rs[m + i] = qs[i]
  <2> DEFINE k == m + i
  <2>1. k \in DOMAIN e /\ i \in DOMAIN d /\ e[k] = d[i] /\ (k = 1 <=> m = 0 /\ i = 1)
    BY <1>1, <1>3
  <2>2. ReadBefore(read, e, k) = ReadBefore(after, d, i)
    <3>1. CASE i = 1 /\ m = 0
      BY <1>2, <2>1, <3>1 DEF ReadBefore
    <3>2. CASE i = 1 /\ m # 0
      <4>1. m \in 1 .. m /\ k - 1 = m
        BY <1>3, <3>2
      <4>2. e[m] = c[m]
        BY <1>1, <4>1
      <4> HIDE DEF k
      <4>3. ReadBefore(read, e, k) = Reading(e[m])
        BY <2>1, <3>2, <4>1 DEF ReadBefore
      <4> QED BY <1>2, <3>2, <4>2, <4>3 DEF ReadBefore, Reading
    <3>3. CASE i # 1
      <4> DEFINE j == i - 1
      <4>1. j \in 1 .. n /\ k - 1 = m + j
        BY <1>3, <3>3
      <4> HIDE DEF j, k
      <4>2. e[k - 1] = d[j]
        BY <1>1, <4>1
      <4> QED BY <2>1, <3>3, <4>2 DEF ReadBefore, Reading, j
    <3> QED BY <3>1, <3>2, <3>3
  <2> HIDE DEF k
  <2>3. rs[k] = qs[i]
    BY <2>1, <2>2
  <2> QED BY <2>3 DEF k
<1>9. BindAfter(read, c, b) = Concat(ps) /\ BindAfter(after, d, b) = Concat(qs) /\ BindAfter(read, e, b) = Concat(rs)
  BY DEF BindAfter
<1> HIDE DEF ps, qs, rs
<1>10. Joined(ps, qs, rs)
  <2>1. rs = [i \in DOMAIN (c \o d) |-> rs[i]]
    BY <1>6, Zenon DEF e
  <2>2. /\ \A i \in 1 .. Len(c) : IsSeq(ps[i]) /\ rs[i] = ps[i]
        /\ \A i \in 1 .. Len(d) : IsSeq(qs[i]) /\ rs[Len(c) + i] = qs[i]
    BY <1>4, <1>5, <1>7, <1>8 DEF m, n
  <2>3. MapsTo(c, ps) /\ MapsTo(d, qs)
    BY <1>4, <1>5, <2>2, Zenon DEF MapsTo
  <2>4. MapsBoth(c, d, ps, qs, rs)
    BY <2>1, <2>2, Zenon DEF MapsBoth
  <2> QED BY <2>3, <2>4, PiecesApart, Zenon
<1> QED BY <1>9, <1>10 DEF BoundApart, Joined, e, after

LEMMA BindFew ==
    /\ \A read, b : BindAfter(read, << >>, b) = << >>
    /\ \A read, ins, b : BindAfter(read, <<ins>>, b) = BindOne(read, ins, b)
<1>1. ASSUME NEW read, NEW b PROVE BindAfter(read, << >>, b) = << >>
  <2> DEFINE c == << >>
             rs == [i \in DOMAIN c |-> BindOne(ReadBefore(read, c, i), c[i], b)]
  <2>1. rs = [i \in DOMAIN << >> |-> rs[i]]
    OBVIOUS
  <2>2. BindAfter(read, c, b) = Concat(rs)
    BY DEF BindAfter
  <2> HIDE DEF rs
  <2> QED BY <2>1, <2>2, PieceOfNone
<1>2. ASSUME NEW read, NEW ins, NEW b PROVE BindAfter(read, <<ins>>, b) = BindOne(read, ins, b)
  <2> DEFINE c == <<ins>>
             rs == [i \in DOMAIN c |-> BindOne(ReadBefore(read, c, i), c[i], b)]
  <2>0. ReadBefore(read, c, 1) = read
    BY DEF ReadBefore
  <2>1. rs = [i \in DOMAIN <<ins>> |-> rs[i]] /\ rs[1] = BindOne(read, ins, b)
    BY <2>0
  <2>2. BindAfter(read, c, b) = Concat(rs)
    BY DEF BindAfter
  <2>3. IsSeq(BindOne(read, ins, b))
    BY BindOneSeq
  <2> HIDE DEF rs
  <2>4. Concat(rs) = rs[1]
    BY <2>1, <2>3, PieceOfOne
  <2> QED BY <2>1, <2>2, <2>4
<1> QED BY <1>1, <1>2

-----------------------------------------------------------------------------
(* Executing a code.  A code, bound and encoded, is executed piece by piece.*)

\* What bound code makes of a stack, behind an instruction that reads a script
\* or one that does not.
Exec(read, code, st, tx) == Run(EncodeAll(BindAfter(read, code, bound)), st, tx)

ExecSplits(read, c, d, st, tx) ==
    \A s \in Exec(read, c \o d, st, tx) :
        \E u \in Exec(read, c, st, tx) : s \in Exec(ReadAfter(read, c), d, u, tx)

LEMMA ExecApart ==
    ASSUME NEW read, NEW c, NEW d, IsSeq(c), IsSeq(d), NEW st, NEW tx
    PROVE  ExecSplits(read, c, d, st, tx)
<1> DEFINE bc == BindAfter(read, c, bound)
           bd == BindAfter(ReadAfter(read, c), d, bound)
           ec == EncodeAll(bc)
           ed == EncodeAll(bd)
           e  == EncodeAll(BindAfter(read, c \o d, bound))
<1>1. BindAfter(read, c \o d, bound) = bc \o bd
  BY BindApart DEF BoundApart
<1>2. IsSeq(bc) /\ IsSeq(bd)
  BY BindAfterSeq
<1> HIDE DEF bc, bd
<1>3. e = ec \o ed
  BY <1>1, <1>2, EncodeApart DEF EncodedApart
<1>4. IsSeq(ec) /\ IsSeq(ed)
  BY <1>2, EncodedCode
<1>5. Exec(read, c \o d, st, tx) = Run(e, st, tx)
  BY DEF Exec
<1>6. Exec(read, c, st, tx) = Run(ec, st, tx)
  BY DEF Exec, bc
<1>7. \A u : Exec(ReadAfter(read, c), d, u, tx) = Run(ed, u, tx)
  BY DEF Exec, bd
<1> HIDE DEF e, ec, ed
<1>8. Run(ec \o ed, st, tx) = Along(Run(ec, st, tx), ed, tx)
  BY <1>4, RunConcat DEF RunsOn
<1>9. \A s \in Run(e, st, tx) : \E u \in Run(ec, st, tx) : s \in Run(ed, u, tx)
  BY <1>3, <1>8 DEF Along
<1> QED BY <1>5, <1>6, <1>7, <1>9 DEF ExecSplits

LEMMA ExecNone == \A read, st, tx : Exec(read, << >>, st, tx) = {st}
<1> TAKE read, st, tx
<1>1. EncodeAll(BindAfter(read, << >>, bound)) = << >>
  BY BindFew, EncodeFew, Zenon
<1> QED BY <1>1, RunEmpty, Zenon DEF Exec

LEMMA ExecBound ==
    ASSUME NEW read, NEW ins, NEW st, NEW tx
    PROVE  Exec(read, <<ins>>, st, tx) = Run(EncodeAll(BindOne(read, ins, bound)), st, tx)
<1>1. BindAfter(read, <<ins>>, bound) = BindOne(read, ins, bound)
  BY BindFew
<1> QED BY <1>1, Zenon DEF Exec

LEMMA ExecPlain ==
    ASSUME NEW read, NEW ins, ins[1] # "symbol", NEW st, NEW tx
    PROVE  Exec(read, <<ins>>, st, tx) = Run(Encode(ins), st, tx)
<1>1. BindOne(read, ins, bound) = <<ins>>
  BY Zenon DEF BindOne
<1>2. EncodeAll(<<ins>>) = Encode(ins)
  BY EncodeFew
<1>3. EncodeAll(BindOne(read, ins, bound)) = Encode(ins)
  BY <1>1, <1>2, Zenon
<1>4. Exec(read, <<ins>>, st, tx) = Run(EncodeAll(BindOne(read, ins, bound)), st, tx)
  BY ExecBound
<1> QED BY <1>3, <1>4, Zenon

LEMMA ExecNothing ==
    ASSUME NEW read, NEW ins, ins[1] = "symbol", IsSpendParam(ins[2]), NEW st, NEW tx
    PROVE  Exec(read, <<ins>>, st, tx) = {st}
<1>1. BindOne(read, ins, bound) = << >>
  BY Zenon DEF BindOne
<1>2. EncodeAll(<< >>) = << >>
  BY EncodeFew
<1>3. Run(<< >>, st, tx) = {st}
  BY RunEmpty
<1>4. Exec(read, <<ins>>, st, tx) = Run(EncodeAll(BindOne(read, ins, bound)), st, tx)
  BY ExecBound
<1> QED BY <1>1, <1>2, <1>3, <1>4, Zenon

\* A key is bound as a script behind an instruction that reads one.
BoundAs(read, v) == IF v[1] = "key" /\ read THEN Script(v[2]) ELSE v

LEMMA ExecValue ==
    ASSUME NEW read, NEW ins, ins[1] = "symbol", ~IsSpendParam(ins[2]), NEW st, NEW tx
    PROVE  Exec(read, <<ins>>, st, tx) = Run(<<Push(BoundAs(read, bound[ins[2]]))>>, st, tx)
<1> DEFINE v == BoundAs(read, bound[ins[2]])
<1>1. BindOne(read, ins, bound) = <<Push(v)>>
  BY Zenon DEF BindOne, BoundAs
<1> HIDE DEF v
<1>2. EncodeAll(<<Push(v)>>) = Encode(Push(v))
  BY EncodeFew
<1>3. Encode(Push(v)) = <<Push(v)>>
  BY DEF Encode, Push
<1>4. Exec(read, <<ins>>, st, tx) = Run(EncodeAll(BindOne(read, ins, bound)), st, tx)
  BY ExecBound
<1>5. Exec(read, <<ins>>, st, tx) = Run(<<Push(v)>>, st, tx)
  BY <1>1, <1>2, <1>3, <1>4, Zenon
<1> QED BY <1>5 DEF v

LEMMA ReadAfterFew ==
    /\ \A read : ReadAfter(read, << >>) = read
    /\ \A read, ins : ReadAfter(read, <<ins>>) = Reading(ins)
    /\ \A c, read, ins : IsSeq(c) => ReadAfter(read, c \o <<ins>>) = Reading(ins)
<1>1. \A read : ReadAfter(read, << >>) = read
  BY DEF ReadAfter
<1>2. ASSUME NEW c, IsSeq(c), NEW read, NEW ins PROVE ReadAfter(read, c \o <<ins>>) = Reading(ins)
  <2> DEFINE e == c \o <<ins>>
             n == Len(c)
  <2>1. IsSeq(e) /\ Len(e) = n + 1 /\ n \in Nat /\ e = Append(c, ins) /\ Append(c, ins)[n + 1] = ins
    BY AppendSeq, SeqProps, <1>2
  <2> HIDE DEF e, n
  <2>2. e # << >>
    BY <2>1, EmptyLen
  <2>3. e[Len(e)] = ins
    BY <2>1
  <2>4. ReadAfter(read, e) = Reading(ins)
    BY <2>2, <2>3 DEF ReadAfter
  <2> QED BY <2>4 DEF e
<1>3. ASSUME NEW read, NEW ins PROVE ReadAfter(read, <<ins>>) = Reading(ins)
  BY DEF ReadAfter
<1> QED BY <1>1, <1>2, <1>3

-----------------------------------------------------------------------------
(* What single operations leave.                                           *)

\* A stack with one more value.
LeavesOne(s, st, v) == s = st \o <<v>>

LEMMA OnTop ==
    ASSUME NEW st, IsSeq(st), NEW v, NEW full, LeavesOne(full, st, v)
    PROVE  /\ IsSeq(full) /\ Len(full) = Len(st) + 1
           /\ (\A i \in 1 .. Len(st) : full[i] = st[i]) /\ full[Len(st) + 1] = v
<1> DEFINE app == Append(st, v)
<1>1. full = app /\ IsSeq(app) /\ Len(app) = Len(st) + 1 /\ (\A i \in 1 .. Len(st) : app[i] = st[i])
      /\ app[Len(st) + 1] = v
  BY AppendSeq DEF LeavesOne
<1> HIDE DEF app
<1> QED BY <1>1

Leaves(s, st, op, a, tx) == \E r \in Results(op, a, tx) : s = st \o r

LEMMA AfterTop ==
    ASSUME NEW st, IsSeq(st), NEW op, op[1] # "checkmultisig", NEW tx, NEW s \in After(st, op, tx)
    PROVE  /\ Arity(op) \in {0, 1, 2} /\ Arity(op) <= Len(st)
           /\ Leaves(s, SubSeq(st, 1, Len(st) - Arity(op)), op,
                     SubSeq(st, Len(st) - Arity(op) + 1, Len(st)), tx)
<1>1. Arity(op) \in {0, 1, 2} /\ Len(st) \in Nat
  BY SeqProps DEF Arity
<1>2. ~(Len(st) - Arity(op) < 0)
  BY Zenon DEF After
<1>3. After(st, op, tx) = {SubSeq(st, 1, Len(st) - Arity(op)) \o r :
                              r \in Results(op, SubSeq(st, Len(st) - Arity(op) + 1, Len(st)), tx)}
  BY <1>2, Zenon DEF After
<1>4. Leaves(s, SubSeq(st, 1, Len(st) - Arity(op)), op, SubSeq(st, Len(st) - Arity(op) + 1, Len(st)), tx)
  BY <1>3, Zenon DEF Leaves
<1>5. Arity(op) <= Len(st)
  BY <1>1, <1>2
<1> QED BY <1>1, <1>4, <1>5

LEMMA AfterNone ==
    ASSUME NEW st, IsSeq(st), NEW op, op[1] \in NoInput, NEW tx, NEW s \in After(st, op, tx)
    PROVE  Leaves(s, st, op, << >>, tx)
<1>1. Arity(op) = 0 /\ op[1] # "checkmultisig"
  BY DEF Arity, NoInput
<1>2. Len(st) \in Nat /\ Len(st) - 0 = Len(st) /\ Len(st) - 0 + 1 = Len(st) + 1
  BY SeqProps
<1>3. Leaves(s, SubSeq(st, 1, Len(st)), op, SubSeq(st, Len(st) + 1, Len(st)), tx)
  BY <1>1, <1>2, AfterTop
<1>4. SubSeq(st, 1, Len(st)) = st /\ SubSeq(st, Len(st) + 1, Len(st)) = << >>
  <2>1. IsSeq(<< >>) /\ Len(<< >>) = 0
    BY EmptyIsSeq
  <2> DEFINE e == << >>
  <2>2. SubSeq(st \o e, 1, Len(st)) = st /\ SubSeq(st \o e, Len(st) + 1, Len(st) + Len(e)) = e
    BY <2>1, FrontBack
  <2>3. st \o e = st /\ Len(st) + Len(e) = Len(st)
    BY <1>2, <2>1, ConcatEmpty
  <2> HIDE DEF e
  <2>4. SubSeq(st, 1, Len(st)) = st /\ SubSeq(st, Len(st) + 1, Len(st)) = e
    BY <2>2, <2>3, Zenon
  <2> QED BY <2>4 DEF e
<1> QED BY <1>3, <1>4, Zenon

LEMMA AfterOne ==
    ASSUME NEW st, IsSeq(st), NEW v, NEW op, op[1] \in OneInput, NEW tx, NEW s \in After(st \o <<v>>, op, tx)
    PROVE  Leaves(s, st, op, <<v>>, tx)
<1> DEFINE one == <<v>>
           full == st \o one
           n == Len(st)
<1>1. Arity(op) = 1 /\ op[1] # "checkmultisig"
  BY DEF Arity, NoInput, OneInput
<1>2. IsSeq(one) /\ Len(one) = 1 /\ n \in Nat
  BY OneIsSeq, SeqProps
<1> HIDE DEF one, n
<1>3. IsSeq(full) /\ Len(full) = n + 1 /\ SubSeq(full, 1, n) = st /\ SubSeq(full, n + 1, n + 1) = one
  BY <1>2, ConcatSeq, FrontBack DEF n
<1>4. s \in After(full, op, tx)
  BY DEF one
<1> HIDE DEF full
<1>5. Leaves(s, SubSeq(full, 1, Len(full) - 1), op, SubSeq(full, Len(full) - 1 + 1, Len(full)), tx)
  BY <1>1, <1>3, <1>4, AfterTop
<1>6. Len(full) - 1 = n /\ Len(full) - 1 + 1 = n + 1
  BY <1>2, <1>3
<1>7. Leaves(s, SubSeq(full, 1, n), op, SubSeq(full, n + 1, n + 1), tx)
  BY <1>3, <1>5, <1>6, Zenon
<1> QED BY <1>3, <1>7, Zenon DEF one

TwoInput == {"checksig", "equal", "numnotequal", "booland", "boolor", "add", "sub",
             "greaterthan", "greaterthanorequal", "lessthan", "lessthanorequal"}

\* The two on top of a stack, whatever they are.
LEMMA AfterTwo ==
    ASSUME NEW st, IsSeq(st), NEW op, op[1] \in TwoInput, NEW tx, NEW s \in After(st, op, tx)
    PROVE  /\ Len(st) \in Nat /\ Len(st) >= 2
           /\ Leaves(s, SubSeq(st, 1, Len(st) - 2), op, <<st[Len(st) - 1], st[Len(st)]>>, tx)
<1> DEFINE n == Len(st)
<1>1. Arity(op) = 2 /\ op[1] # "checkmultisig"
  BY DEF Arity, NoInput, OneInput, TwoInput
<1>2. n \in Nat
  BY SeqProps
<1>3. n >= 2 /\ Leaves(s, SubSeq(st, 1, n - 2), op, SubSeq(st, n - 2 + 1, n), tx)
  BY <1>1, <1>2, AfterTop
<1>4. n - 2 + 1 = n - 1
  BY <1>2
<1>5. SubSeq(st, n - 1, n) = <<st[n - 1], st[n]>>
  <2> DEFINE q == SubSeq(st, n - 1, n)
             t == <<st[n - 1], st[n]>>
  <2>1. n - 1 \in 1 .. n + 1 /\ n \in 0 .. n /\ n - 1 <= n + 1 /\ n - (n - 1) + 1 = 2
        /\ n - 1 + 1 - 1 = n - 1 /\ n - 1 + 2 - 1 = n
    BY <1>2, <1>3
  <2>2. IsSeq(q) /\ Len(q) = n - (n - 1) + 1 /\ \A i \in 1 .. n - (n - 1) + 1 : q[i] = st[n - 1 + i - 1]
    BY <2>1, StretchSeq
  <2>3. Len(q) = 2 /\ q[1] = st[n - 1] /\ q[2] = st[n]
    BY <2>1, <2>2
  <2>4. IsSeq(t) /\ Len(t) = 2 /\ t[1] = st[n - 1] /\ t[2] = st[n]
    BY TwoSeq
  <2> HIDE DEF q, t
  <2>5. q = t
    BY <2>2, <2>3, <2>4, SameSeq
  <2> QED BY <2>5 DEF q, t
<1> QED BY <1>2, <1>3, <1>4, <1>5

-----------------------------------------------------------------------------
(* What one instruction leaves.  One lemma per opcode.                     *)

LEMMA AfterPair ==
    ASSUME NEW st, IsSeq(st), NEW v, NEW w, NEW op, op[1] \in TwoInput, NEW tx,
           NEW s \in After((st \o <<v>>) \o <<w>>, op, tx)
    PROVE  Leaves(s, st, op, <<v, w>>, tx)
<1> DEFINE sv == st \o <<v>>
           full == sv \o <<w>>
           n == Len(st)
<1>1. n \in Nat
  BY SeqProps
<1>2. s \in After(full, op, tx) /\ LeavesOne(sv, st, v) /\ LeavesOne(full, sv, w)
  BY DEF LeavesOne
<1> HIDE DEF sv, full
<1>3. IsSeq(sv) /\ Len(sv) = n + 1 /\ (\A i \in 1 .. n : sv[i] = st[i]) /\ sv[n + 1] = v
  BY <1>2, OnTop
<1>4. IsSeq(full) /\ Len(full) = n + 2 /\ (\A i \in 1 .. n + 1 : full[i] = sv[i]) /\ full[n + 2] = w
  <2> DEFINE m == Len(sv)
  <2>1. IsSeq(full) /\ Len(full) = m + 1 /\ (\A i \in 1 .. m : full[i] = sv[i]) /\ full[m + 1] = w
    BY <1>2, <1>3, OnTop
  <2>2. m = n + 1 /\ m + 1 = n + 2
    BY <1>1, <1>3
  <2> HIDE DEF m, n
  <2> QED BY <2>1, <2>2
<1> HIDE DEF n
<1> HIDE DEF full
<1>5. Leaves(s, SubSeq(full, 1, Len(full) - 2), op, <<full[Len(full) - 1], full[Len(full)]>>, tx)
  BY <1>2, <1>4, AfterTwo
<1>6. Len(full) - 2 = n /\ Len(full) - 1 = n + 1
  BY <1>1, <1>4
<1>7. full[n + 1] = v
  BY <1>1, <1>3, <1>4
<1>8. SubSeq(full, 1, n) = st
  <2>1. n \in 0 .. Len(full)
    BY <1>1, <1>4
  <2> DEFINE q == SubSeq(full, 1, n)
  <2>2. IsSeq(q) /\ Len(q) = n /\ \A i \in 1 .. n : q[i] = full[i]
    BY <1>4, <2>1, PrefixSeq
  <2>3. \A i \in 1 .. n : i \in 1 .. n + 1
    BY <1>1
  <2>4. \A i \in 1 .. n : q[i] = st[i]
    BY <1>3, <1>4, <2>2, <2>3
  <2> HIDE DEF q
  <2>5. q = st
    BY <2>2, <2>4, SameSeq DEF n
  <2> QED BY <2>5 DEF q
<1>9. full[Len(full)] = w
  BY <1>4
<1> QED BY <1>5, <1>6, <1>7, <1>8, <1>9, Zenon

LEMMA RunPush ==
    ASSUME NEW st, IsSeq(st), NEW v, NEW tx, NEW s \in Run(<<Push(v)>>, st, tx)
    PROVE  LeavesOne(s, st, v)
<1> DEFINE op == Push(v)
<1>1. op[1] = "push" /\ op[2] = v
  BY DEF Push
<1>2. s \in After(st, op, tx)
  BY RunOne
<1> HIDE DEF op
<1>3. Leaves(s, st, op, << >>, tx)
  BY <1>1, <1>2, AfterNone DEF NoInput
<1>4. Results(op, << >>, tx) = {<<v>>}
  BY <1>1 DEF Results
<1> QED BY <1>3, <1>4 DEF Leaves, LeavesOne

LEMMA ExecPush ==
    ASSUME NEW read, NEW st, IsSeq(st), NEW v, NEW tx, NEW s \in Exec(read, <<Push(v)>>, st, tx)
    PROVE  LeavesOne(s, st, v)
<1> DEFINE ins == Push(v)
<1>1. ins[1] = "push" /\ Encode(ins) = <<ins>>
  BY DEF Push, Encode
<1>2. s \in Exec(read, <<ins>>, st, tx)
  OBVIOUS
<1> HIDE DEF ins
<1>3. Exec(read, <<ins>>, st, tx) = Run(<<ins>>, st, tx)
  <2>1. Exec(read, <<ins>>, st, tx) = Run(Encode(ins), st, tx)
    BY <1>1, ExecPlain
  <2> QED BY <1>1, <2>1
<1> QED BY <1>2, <1>3, RunPush DEF ins

LEMMA ExecArgument ==
    ASSUME NEW read, NEW st, NEW name, IsSpendParam(name), NEW tx, NEW s \in Exec(read, <<Symbol(name)>>, st, tx)
    PROVE  s = st
<1> DEFINE ins == Symbol(name)
<1>1. ins[1] = "symbol" /\ ins[2] = name
  BY DEF Symbol
<1>2. s \in Exec(read, <<ins>>, st, tx)
  OBVIOUS
<1> HIDE DEF ins
<1>3. Exec(read, <<ins>>, st, tx) = {st}
  <2>1. IsSpendParam(ins[2])
    BY <1>1, Zenon
  <2> QED BY <1>1, <2>1, ExecNothing
<1> QED BY <1>2, <1>3

LEMMA ExecParameter ==
    ASSUME NEW read, NEW st, IsSeq(st), NEW name, ~IsSpendParam(name), NEW tx,
           NEW s \in Exec(read, <<Symbol(name)>>, st, tx)
    PROVE  LeavesOne(s, st, BoundAs(read, bound[name]))
<1> DEFINE ins == Symbol(name)
           v == BoundAs(read, bound[name])
<1>1. ins[1] = "symbol" /\ ins[2] = name
  BY DEF Symbol
<1>2. s \in Exec(read, <<ins>>, st, tx)
  OBVIOUS
<1> HIDE DEF ins
<1>3. ~IsSpendParam(ins[2]) /\ v = BoundAs(read, bound[ins[2]])
  BY <1>1, Zenon
<1> HIDE DEF v
<1>4. Exec(read, <<ins>>, st, tx) = Run(<<Push(BoundAs(read, bound[ins[2]]))>>, st, tx)
  BY <1>1, <1>3, ExecValue
<1>5. Exec(read, <<ins>>, st, tx) = Run(<<Push(v)>>, st, tx)
  BY <1>3, <1>4, Zenon
<1> QED BY <1>2, <1>5, RunPush DEF v

\* Instructions that are operations as they stand.
AsTheyAre == TwoInput \cup {"input_count", "output_count", "not", "verify", "sha256", "blake2b"}

LEMMA ExecAsItIs ==
    ASSUME NEW read, NEW st, NEW op, op \in AsTheyAre, NEW tx, NEW s \in Exec(read, <<<<op>>>>, st, tx)
    PROVE  s \in After(st, <<op>>, tx)
<1> DEFINE ins == <<op>>
<1>1. ins[1] # "symbol" /\ Encode(ins) = <<ins>>
  BY DEF AsTheyAre, TwoInput, Encode
<1>2. s \in Exec(read, <<ins>>, st, tx)
  OBVIOUS
<1> HIDE DEF ins
<1>3. Exec(read, <<ins>>, st, tx) = Run(<<ins>>, st, tx)
  <2>1. Exec(read, <<ins>>, st, tx) = Run(Encode(ins), st, tx)
    BY <1>1, ExecPlain
  <2> QED BY <1>1, <2>1
<1>4. s \in After(st, ins, tx)
  BY <1>2, <1>3, RunOne
<1> QED BY <1>4 DEF ins

LEMMA ExecCount ==
    ASSUME NEW read, NEW st, IsSeq(st), NEW tx, NEW name \in Counts, NEW s \in Exec(read, <<<<name>>>>, st, tx)
    PROVE  LeavesOne(s, st, Num(Len(IF name = "input_count" THEN tx.inputs ELSE tx.outputs)))
<1> DEFINE op == <<name>>
<1>1. s \in After(st, op, tx)
  BY ExecAsItIs DEF AsTheyAre, Counts
<1>2. op[1] = name
  OBVIOUS
<1> HIDE DEF op
<1>3. Leaves(s, st, op, << >>, tx)
  BY <1>1, <1>2, AfterNone DEF NoInput, Counts
<1>4. Results(op, << >>, tx) = {<<Num(Len(IF name = "input_count" THEN tx.inputs ELSE tx.outputs))>>}
  BY <1>2 DEF Results, Counts
<1> QED BY <1>3, <1>4 DEF Leaves, LeavesOne

LEMMA ExecNot ==
    ASSUME NEW read, NEW st, IsSeq(st), NEW v, NEW tx, NEW s \in Exec(read, <<<<"not">>>>, st \o <<v>>, tx)
    PROVE  IsNum(v) /\ LeavesOne(s, st, Truth(v = Num(0)))
<1> DEFINE op == <<"not">>
           a  == <<v>>
<1>1. s \in After(st \o <<v>>, op, tx)
  BY ExecAsItIs DEF AsTheyAre
<1>2. op[1] = "not"
  OBVIOUS
<1> HIDE DEF op
<1>3. Leaves(s, st, op, a, tx)
  BY <1>1, <1>2, AfterOne DEF OneInput
<1>4. DOMAIN a = {1} /\ a[1] = v
  OBVIOUS
<1> HIDE DEF a
<1>5. Results(op, a, tx) = IF IsNum(v) THEN {<<Truth(v = Num(0))>>} ELSE {}
  BY <1>2, <1>4 DEF Results, NumberResults
<1> QED BY <1>3, <1>5 DEF Leaves, LeavesOne

LEMMA ExecVerify ==
    ASSUME NEW read, NEW st, IsSeq(st), NEW v, NEW tx, NEW s \in Exec(read, <<<<"verify">>>>, st \o <<v>>, tx)
    PROVE  Truthy(v) /\ s = st
<1> DEFINE op == <<"verify">>
           a  == <<v>>
<1>1. s \in After(st \o <<v>>, op, tx)
  BY ExecAsItIs DEF AsTheyAre
<1>2. op[1] = "verify"
  OBVIOUS
<1> HIDE DEF op
<1>3. Leaves(s, st, op, a, tx)
  BY <1>1, <1>2, AfterOne DEF OneInput
<1>4. a[1] = v
  OBVIOUS
<1> HIDE DEF a
<1>5. Results(op, a, tx) = IF Truthy(v) THEN {<< >>} ELSE {}
  BY <1>2, <1>4 DEF Results
<1>6. Truthy(v) /\ s = st \o << >>
  BY <1>3, <1>5 DEF Leaves
<1> QED BY <1>6, ConcatEmpty

LEMMA ExecHash ==
    ASSUME NEW read, NEW st, IsSeq(st), NEW v, NEW tx, NEW f \in {"sha256", "blake2b"},
           NEW s \in Exec(read, <<<<f>>>>, st \o <<v>>, tx)
    PROVE  LeavesOne(s, st, Digest(f, v))
<1> DEFINE op == <<f>>
           a  == <<v>>
<1>1. s \in After(st \o <<v>>, op, tx)
  BY ExecAsItIs DEF AsTheyAre
<1>2. op[1] = f
  OBVIOUS
<1> HIDE DEF op
<1>3. Leaves(s, st, op, a, tx)
  BY <1>1, <1>2, AfterOne DEF OneInput
<1>4. a[1] = v
  OBVIOUS
<1> HIDE DEF a
<1>5. Results(op, a, tx) = {<<Digest(f, v)>>}
  BY <1>2, <1>4 DEF Results
<1> QED BY <1>3, <1>5 DEF Leaves, LeavesOne

\* Operations with two operands, on any stack.
LEMMA ExecTwo ==
    ASSUME NEW read, NEW st, IsSeq(st), NEW op \in TwoInput, NEW tx, NEW s \in Exec(read, <<<<op>>>>, st, tx)
    PROVE  /\ Len(st) \in Nat /\ Len(st) >= 2
           /\ Leaves(s, SubSeq(st, 1, Len(st) - 2), <<op>>, <<st[Len(st) - 1], st[Len(st)]>>, tx)
<1>1. s \in After(st, <<op>>, tx)
  BY ExecAsItIs DEF AsTheyAre
<1> DEFINE o == <<op>>
<1>2. o[1] \in TwoInput /\ s \in After(st, o, tx)
  BY <1>1
<1> HIDE DEF o
<1>3. Len(st) \in Nat /\ Len(st) >= 2 /\ Leaves(s, SubSeq(st, 1, Len(st) - 2), o, <<st[Len(st) - 1], st[Len(st)]>>, tx)
  BY <1>2, AfterTwo
<1> QED BY <1>3 DEF o

LEMMA ExecPair ==
    ASSUME NEW read, NEW st, IsSeq(st), NEW v, NEW w, NEW op \in TwoInput, NEW tx,
           NEW s \in Exec(read, <<<<op>>>>, (st \o <<v>>) \o <<w>>, tx)
    PROVE  Leaves(s, st, <<op>>, <<v, w>>, tx)
<1> DEFINE o == <<op>>
<1>1. o[1] \in TwoInput /\ s \in After((st \o <<v>>) \o <<w>>, o, tx)
  BY ExecAsItIs DEF AsTheyAre
<1> HIDE DEF o
<1>2. Leaves(s, st, o, <<v, w>>, tx)
  BY <1>1, AfterPair
<1> QED BY <1>2 DEF o

-----------------------------------------------------------------------------
(* The cases of an expression.  What the compiler lowers it to and what it means.*)

-----------------------------------------------------------------------------
(* What expressions mean and what they are lowered to, kind by kind.       *)

LEMMA MeaningCases ==
    ASSUME NEW env, NEW e \in Exprs
    PROVE  /\ e.op = "ident" => Meaning(e, env) = IdentMeaning(e.name, env)
           /\ e.op \in {"int", "bool"} => Meaning(e, env) = Num(e.n)
           /\ e.op = "string" => Meaning(e, env) = Bytes(e.name)
           /\ e.op = "field" => Meaning(e, env) = FieldMeaning(e, env)
<1>1. PICK of : (\A d \in Exprs : of[d] = MeaningFrom(env, d, of)) /\ \A d : Meaning(d, env) = of[d]
  BY MeaningUnfolds
<1>2. Meaning(e, env) = MeaningFrom(env, e, of)
  BY <1>1
<1> QED BY <1>2 DEF MeaningFrom, IsBinary, Logical, Comparisons, Arithmetic

LEMMA MeaningOfNot ==
    ASSUME NEW env, NEW e \in Exprs, e.op = "not"
    PROVE  Meaning(e, env) = IF IsNum(Meaning(e.kids[1], env))
                             THEN Truth(Meaning(e.kids[1], env)[2] = 0) ELSE Undefined
<1>1. PICK of : (\A d \in Exprs : of[d] = MeaningFrom(env, d, of)) /\ \A d : Meaning(d, env) = of[d]
  BY MeaningUnfolds
<1>2. Meaning(e, env) = MeaningFrom(env, e, of)
  BY <1>1
<1>3. MeaningFrom(env, e, of) = IF IsNum(of[e.kids[1]]) THEN Truth(of[e.kids[1]][2] = 0) ELSE Undefined
  BY DEF MeaningFrom, IsBinary, Logical, Comparisons, Arithmetic
<1>4. of[e.kids[1]] = Meaning(e.kids[1], env)
  BY <1>1
<1> QED BY <1>2, <1>3, <1>4, Zenon

LEMMA MeaningOfBinary ==
    ASSUME NEW env, NEW e \in Exprs, IsBinary(e)
    PROVE  Meaning(e, env) = BinaryMeaning(e.op, Meaning(e.kids[1], env), Meaning(e.kids[2], env))
<1>1. PICK of : (\A d \in Exprs : of[d] = MeaningFrom(env, d, of)) /\ \A d : Meaning(d, env) = of[d]
  BY MeaningUnfolds
<1>2. Meaning(e, env) = MeaningFrom(env, e, of)
  BY <1>1
<1>3. MeaningFrom(env, e, of) = BinaryMeaning(e.op, of[e.kids[1]], of[e.kids[2]])
  BY DEF MeaningFrom, IsBinary, Logical, Comparisons, Arithmetic
<1>4. of[e.kids[1]] = Meaning(e.kids[1], env) /\ of[e.kids[2]] = Meaning(e.kids[2], env)
  BY <1>1
<1> QED BY <1>2, <1>3, <1>4, Zenon

LEMMA MeaningOfCall ==
    ASSUME NEW env, NEW e \in Exprs, e.op = "call"
    PROVE  \E of : Meaning(e, env) = CallMeaning(e, env, of) /\ \A d : of[d] = Meaning(d, env)
<1>1. PICK of : (\A d \in Exprs : of[d] = MeaningFrom(env, d, of)) /\ \A d : Meaning(d, env) = of[d]
  BY MeaningUnfolds
<1>2. Meaning(e, env) = MeaningFrom(env, e, of)
  BY <1>1
<1>3. MeaningFrom(env, e, of) = CallMeaning(e, env, of)
  BY DEF MeaningFrom, IsBinary, Logical, Comparisons, Arithmetic
<1> QED BY <1>1, <1>2, <1>3

\* The callee of a call by name is no field.
LEMMA NamedCall ==
    ASSUME NEW e, NEW f, IsCallOf(e, f)
    PROVE  e.op = "call" /\ ~IsVerify(e) /\ Callee(e).name = f /\ Callee(e).op = "ident"
           /\ \A g : IsCallOf(e, g) => g = f
BY DEF IsCallOf, IsName, IsVerify

LEMMA LowerCases ==
    ASSUME NEW e \in Exprs
    PROVE  /\ e.op = "ident" => Lower[e] = IF e.name \in Counts THEN <<<<e.name>>>> ELSE <<Symbol(e.name)>>
           /\ e.op \in {"int", "bool"} => Lower[e] = <<Push(Num(e.n))>>
           /\ e.op = "string" => Lower[e] = <<Push(Bytes(e.name))>>
           /\ e.op = "not" => Lower[e] = Lower[e.kids[1]] \o <<<<"not">>>>
           /\ IsBinary(e) => Lower[e] = LowerBinary(e, Lower)
           /\ e.op = "call" => Lower[e] = LowerCall(e, Lower)
           /\ e.op = "field" => Lower[e] = LowerField(e, Lower)
           /\ e.op = "array" => Lower[e] = LowerAll(e.kids, Lower)
<1>1. Lower[e] = LowerFrom(e, Lower)
  BY LowerUnfolds
<1>2. e.op \in {"ident", "int", "bool", "string", "not", "call", "field", "array"} => ~IsBinary(e)
  BY DEF IsBinary, Logical, Comparisons, Arithmetic
<1>3. IsBinary(e) => e.op \notin {"ident", "int", "bool", "string", "not", "call", "field", "array", "negate"}
  BY DEF IsBinary, Logical, Comparisons, Arithmetic
<1>4. e.op = "ident" => Lower[e] = IF e.name \in Counts THEN <<<<e.name>>>> ELSE <<Symbol(e.name)>>
  BY <1>1, <1>2 DEF LowerFrom, Counts
<1>5. e.op \in {"int", "bool"} => Lower[e] = <<Push(Num(e.n))>>
  BY <1>1, <1>2 DEF LowerFrom
<1>6. e.op = "string" => Lower[e] = <<Push(Bytes(e.name))>>
  BY <1>1, <1>2 DEF LowerFrom
<1>7. e.op = "not" => Lower[e] = Lower[e.kids[1]] \o <<<<"not">>>>
  BY <1>1, <1>2 DEF LowerFrom
<1>8. IsBinary(e) => Lower[e] = LowerBinary(e, Lower)
  BY <1>1, <1>3 DEF LowerFrom
<1>9. e.op = "call" => Lower[e] = LowerCall(e, Lower)
  BY <1>1, <1>2 DEF LowerFrom
<1>10. e.op = "field" => Lower[e] = LowerField(e, Lower)
  BY <1>1, <1>2 DEF LowerFrom
<1>11. e.op = "array" => Lower[e] = LowerAll(e.kids, Lower)
  BY <1>1, <1>2 DEF LowerFrom
<1> QED BY <1>4, <1>5, <1>6, <1>7, <1>8, <1>9, <1>10, <1>11, Zenon

\* A value is of one of these kinds.
LEMMA ValueCases ==
    ASSUME NEW e \in Exprs, NEW args, IsValue(e, args)
    PROVE  \/ e.op = "ident" /\ e.name \notin args
           \/ e.op \in {"int", "bool", "string"}
           \/ e.op = "field" /\ ReadsCoin(e)
           \/ e.op = "not" /\ IsValue(e.kids[1], args)
           \/ IsPlainLock(e) /\ IsBinary(e) /\ IsValue(e.kids[2], args)
           \/ IsBinary(e) /\ ~IsLock(e) /\ e.op \notin {"*", "/", "%"}
              /\ IsValue(e.kids[1], args) /\ IsValue(e.kids[2], args)
              /\ (ReadsScript(e.kids[1]) => e.kids[2].op \in {"ident", "int", "bool", "string", "field"})
           \/ IsCallOf(e, "continuation") /\ Len(Args(e)) = 2 /\ Args(e)[1].op = "string" /\ OutputIndex(Args(e)[2]) # {}
           \/ (IsCallOf(e, "sha256") \/ IsCallOf(e, "blake2b")) /\ Len(Args(e)) = 1 /\ IsValue(Args(e)[1], args)
<1>1. PICK value : (\A d \in Exprs : value[d] = ValueFrom(args, d, value)) /\ \A d : IsValue(d, args) = value[d]
  BY ValueUnfolds
<1>2. ValueFrom(args, e, value)
  BY <1>1
<1>3. value[e.kids[1]] = IsValue(e.kids[1], args) /\ value[e.kids[2]] = IsValue(e.kids[2], args)
      /\ value[Args(e)[1]] = IsValue(Args(e)[1], args)
  BY <1>1
<1> DEFINE G1 == e.op = "ident"
           G2 == e.op \in {"int", "bool", "string"}
           G3 == e.op = "field"
           G4 == e.op = "not"
           G5 == IsPlainLock(e)
           G6 == IsBinary(e) /\ ~IsLock(e)
           G7 == IsCallOf(e, "continuation")
           G8 == IsCallOf(e, "sha256") \/ IsCallOf(e, "blake2b")
           V1 == e.name \notin args
           V3 == ReadsCoin(e)
           V4 == value[e.kids[1]]
           V5 == value[e.kids[2]]
           V6 == /\ e.op \notin {"*", "/", "%"} /\ value[e.kids[1]] /\ value[e.kids[2]]
                 /\ ReadsScript(e.kids[1]) => e.kids[2].op \in {"ident", "int", "bool", "string", "field"}
           V7 == Len(Args(e)) = 2 /\ Args(e)[1].op = "string" /\ OutputIndex(Args(e)[2]) # {}
           V8 == Len(Args(e)) = 1 /\ value[Args(e)[1]]
<1>4. (CASE G1 -> V1 [] G2 -> TRUE [] G3 -> V3 [] G4 -> V4 [] G5 -> V5 [] G6 -> V6 [] G7 -> V7 [] G8 -> V8
            [] OTHER -> FALSE)
  BY <1>2, Zenon DEF ValueFrom
<1>5. /\ G1 \/ G2 \/ G3 \/ G4 \/ G5 \/ G6 \/ G7 \/ G8
      /\ G1 => ~(G2 \/ G3 \/ G4 \/ G5 \/ G6 \/ G7 \/ G8)
      /\ G2 => ~(G1 \/ G3 \/ G4 \/ G5 \/ G6 \/ G7 \/ G8)
      /\ G3 => ~(G1 \/ G2 \/ G4 \/ G5 \/ G6 \/ G7 \/ G8)
      /\ G4 => ~(G1 \/ G2 \/ G3 \/ G5 \/ G6 \/ G7 \/ G8)
      /\ G5 => ~(G1 \/ G2 \/ G3 \/ G4 \/ G6 \/ G7 \/ G8)
      /\ G6 => ~(G1 \/ G2 \/ G3 \/ G4 \/ G5 \/ G7 \/ G8)
      /\ G7 => ~(G1 \/ G2 \/ G3 \/ G4 \/ G5 \/ G6 \/ G8)
      /\ G8 => ~(G1 \/ G2 \/ G3 \/ G4 \/ G5 \/ G6 \/ G7)
  <2>1. G1 \/ G2 \/ G3 \/ G4 \/ G5 \/ G6 \/ G7 \/ G8
    <3>1. CASE G1 \/ G2 \/ G3 \/ G4 \/ G5 \/ G6 \/ G7 \/ G8
      BY <3>1
    <3>2. CASE ~(G1 \/ G2 \/ G3 \/ G4 \/ G5 \/ G6 \/ G7 \/ G8)
      <4> HIDE DEF G1, G2, G3, G4, G5, G6, G7, G8, V1, V3, V4, V5, V6, V7, V8
      <4> QED BY <1>4, <3>2, Zenon
    <3> QED BY <3>1, <3>2
  <2>2. /\ G5 \/ G6 => e.op \notin {"ident", "int", "bool", "string", "field", "not", "call"}
        /\ G7 \/ G8 => e.op = "call"
        /\ ~(G7 /\ G8) /\ ~(G5 /\ G6)
    BY NamedCall DEF IsBinary, Logical, Comparisons, Arithmetic, IsLock, IsPlainLock, IsCallOf
  <2> HIDE DEF G5, G6, G7, G8
  <2> QED BY <2>1, <2>2
<1>6. IsPlainLock(e) => IsBinary(e)
  BY DEF IsPlainLock, IsLock, IsBinary, Comparisons
<1> HIDE DEF G1, G2, G3, G4, G5, G6, G7, G8, V1, V3, V4, V5, V6, V7, V8
<1>7. (G1 /\ V1) \/ G2 \/ (G3 /\ V3) \/ (G4 /\ V4) \/ (G5 /\ V5) \/ (G6 /\ V6) \/ (G7 /\ V7) \/ (G8 /\ V8)
  <2>1. CASE G1
    BY <1>4, <1>5, <2>1, Zenon
  <2>2. CASE G2
    BY <2>2
  <2>3. CASE G3
    BY <1>4, <1>5, <2>3, Zenon
  <2>4. CASE G4
    BY <1>4, <1>5, <2>4, Zenon
  <2>5. CASE G5
    BY <1>4, <1>5, <2>5, Zenon
  <2>6. CASE G6
    BY <1>4, <1>5, <2>6, Zenon
  <2>7. CASE G7
    BY <1>4, <1>5, <2>7, Zenon
  <2>8. CASE G8
    BY <1>4, <1>5, <2>8, Zenon
  <2> QED BY <1>5, <2>1, <2>2, <2>3, <2>4, <2>5, <2>6, <2>7, <2>8
<1>8. /\ V4 = IsValue(e.kids[1], args) /\ V5 = IsValue(e.kids[2], args)
      /\ V6 => /\ e.op \notin {"*", "/", "%"} /\ IsValue(e.kids[1], args) /\ IsValue(e.kids[2], args)
               /\ ReadsScript(e.kids[1]) => e.kids[2].op \in {"ident", "int", "bool", "string", "field"}
      /\ V8 => Len(Args(e)) = 1 /\ IsValue(Args(e)[1], args)
  BY <1>3, Zenon DEF V4, V5, V6, V8
<1> QED BY <1>6, <1>7, <1>8, Zenon DEF G1, G2, G3, G4, G5, G6, G7, G8, V1, V3, V7

-----------------------------------------------------------------------------
(* The contract and its names.  What a spend in progress says of the path, of its parameters and arguments.*)

-----------------------------------------------------------------------------
(* What is known of a spend on chain.                                      *)

OnChain == IInv /\ stage = "spent"

\* Names of contract parameters; a path's own are its arguments.
Known(name) == name \in ToSet(NamesOf(contract.params))

LEMMA NamesAre ==
    ASSUME NEW params, params \in Declarations
    PROVE  /\ IsSeq(params) /\ DOMAIN params = 1 .. Len(params) /\ Len(params) \in Nat
           /\ IsSeq(NamesOf(params)) /\ DOMAIN NamesOf(params) = 1 .. Len(params) /\ Len(NamesOf(params)) = Len(params)
           /\ \A i \in 1 .. Len(params) : NamesOf(params)[i] = params[i].name
           /\ ToSet(NamesOf(params)) = {p.name : p \in ToSet(params)}
<1> DEFINE names == NamesOf(params)
<1>1. IsSeq(params)
  BY TypedIsSeq DEF Declarations
<1>2. DOMAIN params = 1 .. Len(params) /\ Len(params) \in Nat
  BY <1>1, SeqProps
<1>3. names = [i \in DOMAIN params |-> names[i]] /\ \A i \in DOMAIN params : names[i] = params[i].name
  BY DEF NamesOf
<1> HIDE DEF names
<1>4. IsSeq(names) /\ Len(names) = Len(params) /\ DOMAIN names = 1 .. Len(params)
  BY <1>1, <1>3, Mapped
<1>5. ToSet(names) = {names[i] : i \in 1 .. Len(params)} /\ ToSet(params) = {params[i] : i \in 1 .. Len(params)}
  BY <1>1, <1>4, ToSetProps
<1>6. ToSet(names) = {p.name : p \in ToSet(params)}
  BY <1>2, <1>3, <1>5
<1> QED BY <1>1, <1>2, <1>3, <1>4, <1>6 DEF names

\* What the inductive invariant says once a spend is accepted.
LEMMA SpendFacts ==
    ASSUME OnChain
    PROVE  /\ contract \in Contracts /\ Only(contract.spends) /\ Path \in Paths /\ Path \in ToSet(contract.spends)
           /\ contract.params \in Declarations /\ Path.params \in Declarations
           /\ SpendChecks(contract, Path)
           /\ bound \in Bindings /\ ValidBindings(bound) /\ ~Unbound(Code)
           /\ redeem.script = CompileSpendScript(BindCode(Code, bound)) /\ IsCode(Code)
           /\ IsTransaction(spend.tx) /\ SignedBy(spend.witness)
           /\ Accepts(redeem.script, spend.witness, spend.tx)
           /\ spend.now \in Moments /\ spend.now.score \in Nat /\ spend.now.time \in Nat
           /\ Final(spend.tx, spend.now)
<1>1. /\ contract \in Contracts /\ ContractChecks(contract) /\ bound \in Bindings /\ CanInstantiate(bound)
      /\ redeem = InstantiateScript(bound) /\ Lowers(contract) /\ Compiles(contract, target) /\ target \in Targets
  BY DEF OnChain, IInv, Analyzed, Lowered, CompiledOn, Bound
<1>2. /\ IsTransaction(spend.tx) /\ SignedBy(spend.witness) /\ Accepts(redeem.script, spend.witness, spend.tx)
      /\ spend.now \in Moments /\ Final(spend.tx, spend.now)
  BY DEF OnChain, IInv
<1>3. Only(contract.spends) /\ ValidBindings(bound) /\ ~Unbound(Code)
  BY <1>1 DEF CanInstantiate
<1>4. Path \in Paths /\ Path \in ToSet(contract.spends)
  BY <1>1, <1>3, ThePath
<1>5. contract.params \in Declarations
  BY <1>1, ContractsAssumption
<1>6. Path.params \in Declarations
  BY <1>4 DEF Paths
<1>7. SpendChecks(contract, Path)
  BY <1>1, <1>4 DEF ContractChecks
<1>8. redeem.script = CompileSpendScript(BindCode(Code, bound))
  BY <1>1 DEF InstantiateScript
<1>9. IsCode(Code)
  BY <1>1, <1>3, CodeIsGrounded
<1>10. spend.now.score \in Nat /\ spend.now.time \in Nat
  BY <1>2, ChainAssumption
<1> QED BY <1>1, <1>2, <1>3, <1>4, <1>5, <1>6, <1>7, <1>8, <1>9, <1>10

LEMMA NamesApart ==
    ASSUME OnChain
    PROVE  /\ \A x : Known(x) => ~IsSpendParam(x)
           /\ IsInjective(NamesOf(Path.params)) /\ IsInjective(NamesOf(contract.params))
<1> DEFINE p == contract.params
           q == Path.params
           pq == p \o q
<1>1. p \in Declarations /\ q \in Declarations /\ IsInjective(NamesOf(pq))
  BY SpendFacts DEF SpendChecks
<1> HIDE DEF p, q
<1>2. pq \in Declarations
  BY <1>1 DEF Declarations
<1>3. /\ IsSeq(p) /\ IsSeq(q) /\ Len(p) \in Nat /\ Len(q) \in Nat
      /\ \A i \in 1 .. Len(p) : NamesOf(p)[i] = p[i].name
      /\ \A i \in 1 .. Len(q) : NamesOf(q)[i] = q[i].name
      /\ DOMAIN NamesOf(p) = 1 .. Len(p) /\ DOMAIN NamesOf(q) = 1 .. Len(q)
      /\ ToSet(NamesOf(p)) = {d.name : d \in ToSet(p)} /\ ToSet(NamesOf(q)) = {d.name : d \in ToSet(q)}
      /\ ToSet(p) = {p[i] : i \in 1 .. Len(p)} /\ ToSet(q) = {q[i] : i \in 1 .. Len(q)}
  BY <1>1, NamesAre, ToSetProps
<1>4. /\ Len(pq) = Len(p) + Len(q)
      /\ \A i \in 1 .. Len(p) : pq[i] = p[i]
      /\ \A i \in 1 .. Len(q) : pq[Len(p) + i] = q[i]
  BY <1>3, ConcatSeq
<1>5. DOMAIN NamesOf(pq) = 1 .. Len(pq) /\ \A i \in 1 .. Len(pq) : NamesOf(pq)[i] = pq[i].name
  BY <1>2, NamesAre
<1> HIDE DEF pq
<1>6. \A i, j \in 1 .. Len(pq) : pq[i].name = pq[j].name => i = j
  BY <1>1, <1>5 DEF IsInjective
<1>7. ASSUME NEW i \in 1 .. Len(p), NEW j \in 1 .. Len(q) PROVE p[i].name # q[j].name
  <2> DEFINE k == Len(p) + j
  <2>1. i \in 1 .. Len(pq) /\ k \in 1 .. Len(pq) /\ i # k /\ pq[k] = q[j] /\ pq[i] = p[i]
    BY <1>3, <1>4
  <2> HIDE DEF k
  <2> QED BY <1>6, <2>1
<1>8. ASSUME NEW x, Known(x) PROVE ~IsSpendParam(x)
  <2>1. PICK i \in 1 .. Len(p) : x = p[i].name
    BY <1>3, <1>8 DEF Known, p
  <2>2. IsSpendParam(x) => \E j \in 1 .. Len(q) : x = q[j].name
    BY <1>3 DEF IsSpendParam, q
  <2> QED BY <1>7, <2>1, <2>2
<1>9. IsInjective(NamesOf(p))
  <2>1. \A i \in 1 .. Len(p) : i \in 1 .. Len(pq) /\ pq[i].name = NamesOf(p)[i]
    BY <1>3, <1>4
  <2> QED BY <1>3, <1>6, <2>1 DEF IsInjective
<1>10. IsInjective(NamesOf(q))
  <2>1. ASSUME NEW i \in 1 .. Len(q), NEW j \in 1 .. Len(q), NamesOf(q)[i] = NamesOf(q)[j] PROVE i = j
    <3> DEFINE k == Len(p) + i
               l == Len(p) + j
    <3>1. k \in 1 .. Len(pq) /\ l \in 1 .. Len(pq) /\ (k = l => i = j)
      BY <1>3, <1>4
    <3>2. pq[k].name = NamesOf(q)[i] /\ pq[l].name = NamesOf(q)[j]
      BY <1>3, <1>4
    <3> HIDE DEF k, l
    <3> QED BY <1>6, <2>1, <3>1, <3>2
  <2> QED BY <1>3, <2>1 DEF IsInjective
<1> QED BY <1>8, <1>9, <1>10 DEF p, q

\* What a parameter is bound to.
LEMMA BoundKinds ==
    ASSUME OnChain, NEW x, Known(x)
    PROVE  /\ bound[x] # Undefined /\ bound[x][1] \in {"key", "digest", "num", "bytes"}
           /\ IsNum(bound[x]) => bound[x] = Num(bound[x][2]) /\ bound[x][2] \in Int
           /\ bound[x][1] = "key" => x \in TypedNames({"PublicKey"})
           /\ x \in DOMAIN bound
           /\ \E p \in ToSet(contract.params) : p.name = x /\ ValueIsOfType(bound[x], p.ty)
<1>1. PICK p \in ToSet(contract.params) : p.name = x
  BY SpendFacts, NamesAre DEF Known
<1>2. x \in DOMAIN bound /\ ValueIsOfType(bound[x], p.ty)
  BY <1>1, SpendFacts DEF ValidBindings
<1> DEFINE v == bound[x]
<1>3. v = <<v[1], v[2]>> /\ (IsNum(v) => v[2] \in Nat)
  BY <1>2, SpendFacts, BindingsAssumption
<1>4. v[1] \in {"key", "digest", "num", "bytes"} /\ (v[1] = "key" => p.ty = "PublicKey")
  <2> HIDE DEF v
  <2>1. ValueIsOfType(v, p.ty)
    BY <1>2 DEF v
  <2> QED BY <2>1 DEF ValueIsOfType, IsNum, Truth, Num
<1>5. v[1] = "key" => x \in TypedNames({"PublicKey"})
  BY <1>1, <1>4 DEF TypedNames
<1>6. v # Undefined
  <2> HIDE DEF v
  <2>1. \A a, b : <<a, b>> # <<"undefined">>
    OBVIOUS
  <2> QED BY <1>3, <2>1 DEF Undefined
<1>7. IsNum(v) => v = Num(v[2]) /\ v[2] \in Int
  <2> HIDE DEF v
  <2> QED BY <1>3 DEF IsNum, Num
<1> QED BY <1>1, <1>2, <1>4, <1>5, <1>6, <1>7

-----------------------------------------------------------------------------
(* The requirements of a spend and their parts.                            *)

Parts == UNION {ToSet(Subterms[q]) : q \in ToSet(Requires(Path))}

IsPart(e) == e \in Exprs /\ ToSet(Subterms[e]) \subseteq Parts

LEMMA SubtermsAre ==
    ASSUME NEW e \in Exprs
    PROVE  /\ e \in ToSet(Subterms[e]) /\ IsSeq(Subterms[e])
           /\ \A i \in 1 .. Len(e.kids) : ToSet(Subterms[e.kids[i]]) \subseteq ToSet(Subterms[e])
<1> DEFINE P(d) == IsSeq(Subterms[d])
           T == {d \in Exprs : P(d)}
<1>1. ASSUME NEW d \in Exprs, \A y \in Below(d) : IsSeq(Subterms[y])
      PROVE  IsSeq(Subterms[d]) /\ d \in ToSet(Subterms[d])
             /\ \A i \in 1 .. Len(d.kids) : ToSet(Subterms[d.kids[i]]) \subseteq ToSet(Subterms[d])
  <2> DEFINE ps == [i \in DOMAIN d.kids |-> Subterms[d.kids[i]]]
             es == d.kids
             one == <<d>>
  <2>1. Subterms[d] = one \o Concat(ps)
    BY SubtermsUnfolds DEF SubtermsFrom
  <2>2. IsSeq(es) /\ DOMAIN es = 1 .. Len(es) /\ \A i \in 1 .. Len(es) : es[i] \in Below(d)
    BY Trees
  <2>3. ps = [i \in DOMAIN es |-> ps[i]] /\ \A i \in 1 .. Len(es) : ps[i] = Subterms[es[i]] /\ IsSeq(ps[i])
    BY <1>1, <2>2
  <2> HIDE DEF ps
  <2>4. IsSeq(Concat(ps)) /\ \A i \in 1 .. Len(es) : ToSet(ps[i]) \subseteq ToSet(Concat(ps))
    BY <2>2, <2>3, Pieces
  <2> DEFINE more == Concat(ps)
  <2>5. IsSeq(one) /\ ToSet(one) = {d} /\ IsSeq(more)
    BY <2>4, OneIsSeq, ToSetOne
  <2> HIDE DEF one, more
  <2>6. IsSeq(one \o more) /\ ToSet(one \o more) = ToSet(one) \cup ToSet(more)
    BY <2>5, ConcatSeq, ToSetConcat
  <2>7. Subterms[d] = one \o more
    BY <2>1 DEF more
  <2>8. IsSeq(Subterms[d]) /\ ToSet(Subterms[d]) = {d} \cup ToSet(more)
    BY <2>5, <2>6, <2>7
  <2> QED BY <2>3, <2>4, <2>8 DEF more
<1>2. T \subseteq Exprs /\ \A d \in Exprs : (\A y \in Below(d) : y \in T) => d \in T
  BY <1>1
<1> HIDE DEF T
<1>3. T = Exprs
  BY <1>2, TreeInduction
<1>4. \A y \in Below(e) : IsSeq(Subterms[y])
  BY <1>3 DEF T, Below
<1> QED BY <1>1, <1>4

LEMMA PartsOfParts ==
    ASSUME NEW e, IsPart(e)
    PROVE  e \in Parts /\ \A i \in 1 .. Len(e.kids) : IsPart(e.kids[i])
<1>1. e \in Exprs
  BY DEF IsPart
<1>2. \A i \in 1 .. Len(e.kids) : e.kids[i] \in Exprs
  BY <1>1, Trees
<1> QED BY <1>1, <1>2, SubtermsAre DEF IsPart

LEMMA RequiredAre ==
    ASSUME Path \in Paths
    PROVE  /\ ToSet(Requires(Path)) = {Path.body[i].expr : i \in {i \in DOMAIN Path.body : Path.body[i].kind = "require"}}
           /\ ToSet(Requires(Path)) \subseteq Exprs
           /\ IsSeq(Requires(Path))
           /\ ToSet(RequiredTerms(Path)) = Parts
           /\ \A e \in ToSet(Requires(Path)) : IsPart(e)
<1> DEFINE body == Path.body
           ps == [i \in DOMAIN body |-> IF body[i].kind = "require" THEN <<body[i].expr>> ELSE << >>]
           rs == Requires(Path)
<1>1. IsSeq(body) /\ DOMAIN body = 1 .. Len(body) /\ \A i \in 1 .. Len(body) : body[i].expr \in Exprs
  BY Bodies
<1>2. rs = Concat(ps)
  BY DEF Requires
<1> HIDE DEF body
<1>3. \A x : IsSeq(<<x>>) /\ ToSet(<<x>>) = {x}
  BY OneIsSeq, ToSetOne
<1> DEFINE S == {body[i].expr : i \in {i \in DOMAIN body : body[i].kind = "require"}}
<1>4. /\ ps = [i \in DOMAIN body |-> ps[i]]
      /\ \A i \in 1 .. Len(body) : IsSeq(ps[i]) /\ ToSet(ps[i]) \subseteq S
      /\ \A i \in 1 .. Len(body) : body[i].kind = "require" => body[i].expr \in ToSet(ps[i])
  <2>1. \A i \in 1 .. Len(body) : ps[i] = IF body[i].kind = "require" THEN <<body[i].expr>> ELSE << >>
    BY <1>1
  <2>2. ps = [i \in DOMAIN body |-> ps[i]]
    OBVIOUS
  <2> HIDE DEF ps
  <2>3. ASSUME NEW i \in 1 .. Len(body), body[i].kind = "require"
        PROVE  IsSeq(ps[i]) /\ ToSet(ps[i]) = {body[i].expr} /\ body[i].expr \in S
    BY <1>1, <1>3, <2>1, <2>3
  <2>4. ASSUME NEW i \in 1 .. Len(body), body[i].kind # "require"
        PROVE  IsSeq(ps[i]) /\ ToSet(ps[i]) = {}
    BY <2>1, <2>4, EmptyIsSeq, ToSetEmpty
  <2> HIDE DEF S
  <2> QED BY <2>2, <2>3, <2>4
<1> HIDE DEF ps, S
<1>5. /\ IsSeq(rs)
      /\ \A i \in 1 .. Len(body) : ToSet(ps[i]) \subseteq ToSet(rs)
      /\ ToSet(rs) \subseteq S
  BY <1>1, <1>2, <1>4, Pieces
<1>6. S \subseteq ToSet(rs)
  BY <1>1, <1>4, <1>5 DEF S
<1>7. ToSet(rs) = S /\ S \subseteq Exprs
  BY <1>1, <1>5, <1>6 DEF S
<1> HIDE DEF rs
<1> DEFINE qs == [i \in DOMAIN rs |-> Subterms[rs[i]]]
<1>8. RequiredTerms(Path) = Concat(qs)
  BY DEF RequiredTerms, rs
<1>9. DOMAIN rs = 1 .. Len(rs) /\ (\A i \in 1 .. Len(rs) : rs[i] \in ToSet(rs)) /\ \A x \in ToSet(rs) : \E i \in 1 .. Len(rs) : x = rs[i]
  BY <1>5, SeqProps, Members
<1>10. qs = [i \in DOMAIN rs |-> qs[i]] /\ \A i \in 1 .. Len(rs) : qs[i] = Subterms[rs[i]] /\ IsSeq(qs[i])
  BY <1>7, <1>9, SubtermsAre
<1> HIDE DEF qs
<1>11. Parts = UNION {ToSet(Subterms[q]) : q \in ToSet(rs)}
  BY DEF Parts, rs
<1>12. \A i \in 1 .. Len(rs) : ToSet(qs[i]) \subseteq Parts
  BY <1>9, <1>10, <1>11
<1>13. ToSet(Concat(qs)) \subseteq Parts /\ \A i \in 1 .. Len(rs) : ToSet(qs[i]) \subseteq ToSet(Concat(qs))
  BY <1>5, <1>10, <1>12, Pieces
<1>14. Parts \subseteq ToSet(Concat(qs))
  BY <1>9, <1>10, <1>11, <1>13
<1>15. \A e \in ToSet(rs) : IsPart(e)
  BY <1>7, <1>11 DEF IsPart
<1> QED BY <1>5, <1>7, <1>8, <1>13, <1>14, <1>15 DEF rs, S, body

-----------------------------------------------------------------------------
(* Coins and locks.  The instructions that read a coin and those that check a lock time.*)

\* Operations one after the other.
LEMMA RunTwo ==
    ASSUME NEW a, NEW b, NEW st, NEW tx, NEW s \in Run(<<a>> \o <<b>>, st, tx)
    PROVE  \E u \in After(st, a, tx) : s \in After(u, b, tx)
<1> DEFINE ca == <<a>>
           cb == <<b>>
<1>1. IsSeq(ca) /\ IsSeq(cb)
  BY OneIsSeq
<1>2. Run(ca, st, tx) = After(st, a, tx) /\ \A u : Run(cb, u, tx) = After(u, b, tx)
  BY RunOne
<1> HIDE DEF ca, cb
<1>3. RunsOn(ca, cb, st, tx)
  BY <1>1, RunConcat
<1>4. Run(ca \o cb, st, tx) = Along(Run(ca, st, tx), cb, tx)
  BY <1>3 DEF RunsOn
<1>5. s \in Run(ca \o cb, st, tx)
  BY DEF ca, cb
<1> QED BY <1>2, <1>4, <1>5 DEF Along

LEMMA AfterPush ==
    ASSUME NEW st, IsSeq(st), NEW v, NEW tx, NEW s \in After(st, Push(v), tx)
    PROVE  LeavesOne(s, st, v)
<1>1. s \in Run(<<Push(v)>>, st, tx)
  BY RunOne, Zenon
<1> QED BY <1>1, RunPush

\* A value on top, and an operation that takes one.
LEMMA AfterUnary ==
    ASSUME NEW st, IsSeq(st), NEW v, NEW full, LeavesOne(full, st, v), NEW o \in OneInput, NEW tx,
           NEW s \in After(full, <<o>>, tx)
    PROVE  Leaves(s, st, <<o>>, <<v>>, tx)
<1> DEFINE op == <<o>>
<1>1. op[1] \in OneInput /\ s \in After(st \o <<v>>, op, tx)
  BY DEF LeavesOne
<1> HIDE DEF op
<1>2. Leaves(s, st, op, <<v>>, tx)
  BY <1>1, AfterOne
<1> QED BY <1>2 DEF op

CoinReadings == {"input_value", "input_script", "output_value", "output_script"}
CoinsOf(o, tx) == IF o \in {"input_value", "input_script"} THEN tx.inputs ELSE tx.outputs
FieldOf(o)     == IF o \in {"input_value", "output_value"} THEN "value" ELSE "script"

LEMMA ExecCoin ==
    ASSUME NEW read, NEW st, IsSeq(st), NEW o \in CoinReadings, NEW n \in Nat, NEW tx,
           NEW s \in Exec(read, <<<<o, n>>>>, st, tx)
    PROVE  n \in 0 .. Len(CoinsOf(o, tx)) - 1 /\ LeavesOne(s, st, CoinsOf(o, tx)[n + 1][FieldOf(o)])
<1> DEFINE ins == <<o, n>>
           op  == <<o>>
<1>1. ins[1] = o /\ ins[2] = n /\ ins[1] # "symbol"
  BY DEF CoinReadings
<1>2. Encode(ins) = <<Push(Num(n))>> \o <<op>>
  BY <1>1 DEF Encode, EncodedNumber, CoinReadings
<1>3. s \in Exec(read, <<ins>>, st, tx)
  OBVIOUS
<1> HIDE DEF ins
<1>4. s \in Run(<<Push(Num(n))>> \o <<op>>, st, tx)
  <2>1. Exec(read, <<ins>>, st, tx) = Run(Encode(ins), st, tx)
    BY <1>1, ExecPlain
  <2> QED BY <1>2, <1>3, <2>1, Zenon
<1> DEFINE a == Push(Num(n))
<1>5. PICK u \in After(st, a, tx) : s \in After(u, op, tx)
  <2>1. s \in Run(<<a>> \o <<op>>, st, tx)
    BY <1>4
  <2> HIDE DEF a, op
  <2> QED BY <2>1, RunTwo
<1>6. LeavesOne(u, st, Num(n))
  BY <1>5, AfterPush
<1>7. Leaves(s, st, op, <<Num(n)>>, tx)
  BY <1>5, <1>6, AfterUnary DEF CoinReadings, OneInput
<1> DEFINE arg == <<Num(n)>>
           c == CoinsOf(o, tx)
           f == FieldOf(o)
<1>8. DOMAIN arg = {1} /\ IsNum(arg[1]) /\ arg[1][2] = n
  BY DEF IsNum, Num
<1>9. Results(op, arg, tx) = NumberResults(op, arg, tx)
  BY <1>8 DEF Results, CoinReadings
<1>10. NumberResults(op, arg, tx) = CoinField(c, n, f)
  BY <1>8 DEF NumberResults, CoinReadings, CoinsOf, FieldOf
<1> HIDE DEF arg, c, f, op
<1>11. \E r \in CoinField(c, n, f) : s = st \o r
  BY <1>7, <1>9, <1>10, Zenon DEF Leaves, arg
<1>12. n \in 0 .. Len(c) - 1 /\ s = st \o <<c[n + 1][f]>>
  BY <1>11 DEF CoinField
<1> QED BY <1>12 DEF LeavesOne, c, f

\* A lock on top of the stack, and the value it leaves.
LEMMA AfterLock ==
    ASSUME NEW st, IsSeq(st), NEW v, NEW full, LeavesOne(full, st, v), NEW tx,
           NEW s \in Run(<<<<"checklocktimeverify">>>> \o <<Push(Truth(TRUE))>>, full, tx)
    PROVE  IsNum(v) /\ LockTimeReached(v[2], tx) /\ LeavesOne(s, st, Truth(TRUE))
<1> DEFINE op == <<"checklocktimeverify">>
           p  == Push(Truth(TRUE))
<1>1. PICK u \in After(full, op, tx) : s \in After(u, p, tx)
  <2>1. s \in Run(<<op>> \o <<p>>, full, tx)
    OBVIOUS
  <2> HIDE DEF op, p
  <2> QED BY <2>1, RunTwo
<1>2. Leaves(u, st, op, <<v>>, tx)
  BY <1>1, AfterUnary DEF OneInput
<1> DEFINE arg == <<v>>
<1>3. DOMAIN arg = {1} /\ arg[1] = v
  OBVIOUS
<1>4. op[1] = "checklocktimeverify"
  OBVIOUS
<1> HIDE DEF arg, op
<1>5. Results(op, arg, tx) = IF IsNum(v) THEN (IF LockTimeReached(v[2], tx) THEN {<< >>} ELSE {}) ELSE {}
  BY <1>3, <1>4 DEF Results, NumberResults
<1>6. IsNum(v) /\ LockTimeReached(v[2], tx) /\ u = st \o << >>
  <2>1. Leaves(u, st, op, arg, tx)
    BY <1>2 DEF arg
  <2> QED BY <2>1, <1>5 DEF Leaves
<1>7. u = st
  BY <1>6, ConcatEmpty
<1>8. LeavesOne(s, st, Truth(TRUE))
  BY <1>1, <1>7, AfterPush
<1> QED BY <1>6, <1>8

LEMMA ExecLock ==
    ASSUME NEW read, NEW st, IsSeq(st), NEW n, NEW tx, NEW s \in Exec(read, <<<<"check_lock", n>>>>, st, tx)
    PROVE  LockTimeReached(n, tx) /\ LeavesOne(s, st, Truth(TRUE))
<1> DEFINE ins == <<"check_lock", n>>
           num == <<Push(Num(n))>>
           rest == <<<<"checklocktimeverify">>>> \o <<Push(Truth(TRUE))>>
<1>1. ins[1] = "check_lock" /\ ins[2] = n
  OBVIOUS
<1>2. Encode(ins) = num \o rest
  <2>1. Encode(ins) = num \o <<<<"checklocktimeverify">>, Push(Truth(TRUE))>>
    BY <1>1 DEF Encode, EncodedNumber
  <2>2. <<<<"checklocktimeverify">>, Push(Truth(TRUE))>> = rest
    BY TwoSeq
  <2> QED BY <2>1, <2>2, Zenon
<1>3. s \in Exec(read, <<ins>>, st, tx)
  OBVIOUS
<1>4. IsSeq(num) /\ IsSeq(rest)
  <2>1. IsSeq(num)
    BY OneIsSeq
  <2>2. <<<<"checklocktimeverify">>, Push(Truth(TRUE))>> = rest /\ IsSeq(<<<<"checklocktimeverify">>, Push(Truth(TRUE))>>)
    BY TwoSeq
  <2> QED BY <2>1, <2>2, Zenon
<1> HIDE DEF ins, rest
<1>5. s \in Run(num \o rest, st, tx)
  <2>1. Exec(read, <<ins>>, st, tx) = Run(Encode(ins), st, tx)
    BY <1>1, ExecPlain
  <2> QED BY <1>2, <1>3, <2>1
<1>6. RunsOn(num, rest, st, tx)
  <2> HIDE DEF num
  <2> QED BY <1>4, RunConcat
<1>7. PICK u \in Run(num, st, tx) : s \in Run(rest, u, tx)
  <2> HIDE DEF num
  <2> QED BY <1>5, <1>6 DEF RunsOn, Along
<1>8. LeavesOne(u, st, Num(n))
  BY <1>7, RunPush
<1>9. IsNum(Num(n)) /\ LockTimeReached(Num(n)[2], tx) /\ LeavesOne(s, st, Truth(TRUE))
  <2>1. s \in Run(<<<<"checklocktimeverify">>>> \o <<Push(Truth(TRUE))>>, u, tx)
    BY <1>7 DEF rest
  <2> QED BY <1>8, <2>1, AfterLock
<1>10. Num(n)[2] = n
  BY DEF Num
<1> QED BY <1>9, <1>10, Zenon

LEMMA ExecLockFromStack ==
    ASSUME NEW read, NEW st, IsSeq(st), NEW v, NEW full, LeavesOne(full, st, v), NEW tx,
           NEW s \in Exec(read, <<<<"check_lock_from_stack">>>>, full, tx)
    PROVE  IsNum(v) /\ LockTimeReached(v[2], tx) /\ LeavesOne(s, st, Truth(TRUE))
<1> DEFINE ins == <<"check_lock_from_stack">>
           rest == <<<<"checklocktimeverify">>>> \o <<Push(Truth(TRUE))>>
<1>1. ins[1] = "check_lock_from_stack"
  OBVIOUS
<1>2. Encode(ins) = rest
  <2>1. Encode(ins) = <<<<"checklocktimeverify">>, Push(Truth(TRUE))>>
    BY <1>1 DEF Encode, EncodedNumber
  <2>2. <<<<"checklocktimeverify">>, Push(Truth(TRUE))>> = rest
    BY TwoSeq
  <2> QED BY <2>1, <2>2, Zenon
<1>3. s \in Exec(read, <<ins>>, full, tx)
  OBVIOUS
<1> HIDE DEF ins
<1>4. s \in Run(rest, full, tx)
  <2>1. Exec(read, <<ins>>, full, tx) = Run(Encode(ins), full, tx)
    BY <1>1, ExecPlain
  <2> QED BY <1>2, <1>3, <2>1
<1> QED BY <1>4, AfterLock

-----------------------------------------------------------------------------
(* Values.  The code of a value leaves what the source says it means: the leaves of the
   tree first.                                                             *)

-----------------------------------------------------------------------------
(* Values: what their code leaves is what they mean.                       *)

Sane == KeysFollowScripts /\ LocksOfTheirKind(spend.tx, spend.witness, spend.now)

\* An environment of this spend, whatever it gives to the arguments.
Agrees(env) ==
    /\ env.tx = spend.tx /\ env.now = spend.now
    /\ \A x : Known(x) => x \in DOMAIN env.values /\ env.values[x] = bound[x]

Bindable(code) == \A ins \in ToSet(code) : ins[1] = "symbol" => IsSpendParam(ins[2]) \/ Known(ins[2])

GoodValue(e, m) ==
    /\ m # Undefined /\ (IsNum(m) => m = Num(m[2]) /\ m[2] \in Int)
    /\ (m[1] = "script") = ReadsScript(e)
    /\ m[1] = "key" => IsNameIn(e, TypedNames({"PublicKey"}))
    /\ \A env : Agrees(env) => Meaning(e, env) = m

Leaf(e) == e.op \in {"ident", "int", "bool", "string", "field"}

Worth(e, read, v) == \E m : GoodValue(e, m) /\ v = BoundAs(read, m)

ValueRuns(e) ==
    \A read, st, s : (read => Leaf(e)) /\ IsSeq(st) /\ s \in Exec(read, Lower[e], st, spend.tx) =>
        \E v : LeavesOne(s, st, v) /\ (Sane => Worth(e, read, v))

ValueReads(e) == \A read : ReadAfter(read, Lower[e]) = ReadsScript(e)

LEMMA BindableApart ==
    ASSUME NEW c, NEW d, IsSeq(c), IsSeq(d), Bindable(c \o d)
    PROVE  Bindable(c) /\ Bindable(d)
<1>1. ToSet(c \o d) = ToSet(c) \cup ToSet(d)
  BY ToSetConcat
<1> QED BY <1>1 DEF Bindable

LEMMA LowerSeq == \A e \in Exprs : IsSeq(Lower[e])
BY LoweredIsCode DEF IsCode

LEMMA NoReading ==
    ASSUME NEW e, e.op # "field"
    PROVE  ~ReadsScript(e)
BY DEF ReadsScript, ReadsCoin

LEMMA NumIs == \A n : IsNum(Num(n)) /\ Num(n)[1] = "num" /\ Num(n)[2] = n /\ Num(n) # Undefined
<1> TAKE n
<1>1. <<"num", n>> # <<"undefined">>
  OBVIOUS
<1> QED BY <1>1 DEF IsNum, Num, Undefined

LEMMA GoodNumber ==
    ASSUME NEW e, NEW n \in Int, ~ReadsScript(e), \A env : Agrees(env) => Meaning(e, env) = Num(n)
    PROVE  GoodValue(e, Num(n))
<1> DEFINE m == Num(n)
<1>1. m[1] = "num" /\ m[2] = n /\ m # Undefined
  BY NumIs
<1>2. (m[1] = "script") = ReadsScript(e)
  <2>1. ReadsScript(e) \in BOOLEAN
    BY DEF ReadsScript
  <2> HIDE DEF m
  <2> QED BY <1>1, <2>1
<1>3. m = Num(m[2])
  BY <1>1
<1> HIDE DEF m
<1>4. \A env : Agrees(env) => Meaning(e, env) = m
  BY DEF m
<1>5. GoodValue(e, m)
  BY <1>1, <1>2, <1>3, <1>4 DEF GoodValue
<1> QED BY <1>5 DEF m

LEMMA AsItIs ==
    ASSUME NEW e, NEW read, NEW m, GoodValue(e, m), m[1] = "key" => ~read
    PROVE  Worth(e, read, m)
BY DEF Worth, BoundAs

LEMMA TransactionIs ==
    ASSUME OnChain
    PROVE  /\ Len(spend.tx.inputs) \in Nat /\ Len(spend.tx.outputs) \in Nat
           /\ \A o \in CoinReadings :
                LET c == CoinsOf(o, spend.tx)
                IN  \A i \in 0 .. Len(c) - 1 : IsCoin(c[i + 1])
           /\ spend.tx.lockTime \in Nat
<1> DEFINE tx == spend.tx
<1>1. IsTransaction(tx)
  BY SpendFacts
<1> HIDE DEF tx
<1>2. IsSeq(tx.inputs) /\ IsSeq(tx.outputs)
  BY <1>1, TypedIsSeq DEF IsTransaction
<1>3. Len(tx.inputs) \in Nat /\ Len(tx.outputs) \in Nat
  BY <1>2, SeqProps
<1>4. ASSUME NEW c, c \in {tx.inputs, tx.outputs}, NEW i \in 0 .. Len(c) - 1
      PROVE  IsCoin(c[i + 1])
  <2>1. IsSeq(c) /\ Len(c) \in Nat
    BY <1>2, <1>3, <1>4
  <2> DEFINE k == i + 1
  <2>2. k \in 1 .. Len(c)
    BY <2>1
  <2> HIDE DEF k
  <2>3. c[k] \in ToSet(c)
    BY <2>1, <2>2, Members
  <2>4. IsCoin(c[k])
    BY <1>1, <1>4, <2>3 DEF IsTransaction
  <2> QED BY <2>4 DEF k
<1>5. \A o : CoinsOf(o, tx) \in {tx.inputs, tx.outputs}
  BY DEF CoinsOf
<1>6. tx.lockTime \in Nat
  BY <1>1 DEF IsTransaction
<1> QED BY <1>3, <1>4, <1>5, <1>6 DEF tx

LEMMA CountValue ==
    ASSUME OnChain, NEW e \in Exprs, e.op = "ident", e.name \in Counts
    PROVE  ValueRuns(e) /\ ValueReads(e)
<1> DEFINE name == e.name
           n == Len(IF name = "input_count" THEN spend.tx.inputs ELSE spend.tx.outputs)
<1>1. Lower[e] = <<<<name>>>>
  BY LowerCases
<1>2. ~ReadsScript(e)
  BY NoReading
<1>3. n \in Int
  BY TransactionIs
<1>4. \A env : Agrees(env) => Meaning(e, env) = Num(n)
  <2>1. \A env : Meaning(e, env) = IdentMeaning(name, env)
    BY MeaningCases
  <2>2. ASSUME NEW env, Agrees(env) PROVE IdentMeaning(name, env) = Num(n)
    BY <2>2 DEF IdentMeaning, Agrees, Counts
  <2> QED BY <2>1, <2>2
<1> HIDE DEF n
<1>5. GoodValue(e, Num(n))
  BY <1>2, <1>3, <1>4, GoodNumber
<1>6. ASSUME NEW read, NEW st, NEW s, IsSeq(st), s \in Exec(read, Lower[e], st, spend.tx)
      PROVE  LeavesOne(s, st, Num(n)) /\ Worth(e, read, Num(n))
  <2>1. s \in Exec(read, <<<<name>>>>, st, spend.tx)
    BY <1>1, <1>6
  <2>2. name \in Counts
    OBVIOUS
  <2> HIDE DEF name
  <2>3. LeavesOne(s, st, Num(n))
    BY <1>6, <2>1, <2>2, ExecCount DEF n
  <2>4. Worth(e, read, Num(n))
    BY <1>5, AsItIs, NumIs
  <2> QED BY <2>3, <2>4
<1>7. ValueReads(e)
  <2> DEFINE ins == <<name>>
  <2>1. ~Reading(ins)
    BY DEF Reading, Counts
  <2>2. \A read : ReadAfter(read, Lower[e]) = Reading(ins)
    BY <1>1, ReadAfterFew
  <2> HIDE DEF ins
  <2>3. Reading(ins) \in BOOLEAN /\ ReadsScript(e) \in BOOLEAN
    BY DEF Reading, ReadsScript
  <2> QED BY <1>2, <2>1, <2>2, <2>3 DEF ValueReads
<1> QED BY <1>6, <1>7 DEF ValueRuns

LEMMA ParameterValue ==
    ASSUME OnChain, NEW e \in Exprs, e.op = "ident", e.name \notin ArgNames, e.name \notin Counts, Bindable(Lower[e])
    PROVE  ValueRuns(e) /\ ValueReads(e)
<1> DEFINE name == e.name
           ins == Symbol(name)
           m == bound[name]
<1>1. Lower[e] = <<ins>>
  BY LowerCases
<1>2. ins[1] = "symbol" /\ ins[2] = name
  BY DEF Symbol
<1>3. ~IsSpendParam(name)
  BY DEF ArgNames, IsSpendParam
<1>4. Known(name)
  <2>1. ins \in ToSet(Lower[e])
    <3> HIDE DEF ins
    <3> QED BY <1>1, ToSetOne
  <2> QED BY <1>2, <1>3, <2>1, Zenon DEF Bindable
<1> HIDE DEF ins
<1>5. ~ReadsScript(e)
  BY NoReading
<1>6. \A env : Agrees(env) => Meaning(e, env) = m
  <2>1. \A env : Meaning(e, env) = IdentMeaning(name, env)
    BY MeaningCases
  <2>2. ASSUME NEW env, Agrees(env) PROVE IdentMeaning(name, env) = m
    BY <1>4, <2>2 DEF IdentMeaning, Agrees, Counts
  <2> QED BY <2>1, <2>2
<1>7. GoodValue(e, m)
  <2>1. /\ m # Undefined /\ m[1] \in {"key", "digest", "num", "bytes"}
        /\ (IsNum(m) => m = Num(m[2]) /\ m[2] \in Int)
        /\ (m[1] = "key" => name \in TypedNames({"PublicKey"}))
    BY <1>4, BoundKinds
  <2> HIDE DEF m
  <2>2. (m[1] = "script") = ReadsScript(e)
    <3>1. ReadsScript(e) \in BOOLEAN
      BY DEF ReadsScript
    <3> QED BY <1>5, <2>1, <3>1
  <2> QED BY <1>6, <2>1, <2>2 DEF GoodValue, IsNameIn
<1>8. ASSUME NEW read, NEW st, NEW s, IsSeq(st), s \in Exec(read, Lower[e], st, spend.tx)
      PROVE  LeavesOne(s, st, BoundAs(read, m)) /\ Worth(e, read, BoundAs(read, m))
  <2>1. s \in Exec(read, <<Symbol(name)>>, st, spend.tx)
    BY <1>1, <1>8 DEF ins
  <2> HIDE DEF name
  <2>2. LeavesOne(s, st, BoundAs(read, m))
    BY <1>3, <1>8, <2>1, ExecParameter
  <2> HIDE DEF m
  <2> QED BY <1>7, <2>2 DEF Worth
<1>9. ValueReads(e)
  <2>1. ~Reading(ins)
    BY <1>2 DEF Reading
  <2>2. \A read : ReadAfter(read, Lower[e]) = Reading(ins)
    BY <1>1, ReadAfterFew
  <2>3. Reading(ins) \in BOOLEAN /\ ReadsScript(e) \in BOOLEAN
    BY DEF Reading, ReadsScript
  <2> QED BY <1>5, <2>1, <2>2, <2>3 DEF ValueReads
<1> QED BY <1>8, <1>9 DEF ValueRuns

\* A literal is pushed as it is.
LEMMA PushedValue ==
    ASSUME NEW e, NEW v, Lower[e] = <<Push(v)>>, GoodValue(e, v), v[1] # "key", ~ReadsScript(e)
    PROVE  ValueRuns(e) /\ ValueReads(e)
<1>1. ASSUME NEW read, NEW st, NEW s, IsSeq(st), s \in Exec(read, Lower[e], st, spend.tx)
      PROVE  LeavesOne(s, st, v) /\ Worth(e, read, v)
  <2>1. LeavesOne(s, st, v)
    BY <1>1, ExecPush
  <2>2. Worth(e, read, v)
    BY AsItIs
  <2> QED BY <2>1, <2>2
<1>2. ValueReads(e)
  <2> DEFINE ins == Push(v)
  <2>1. ~Reading(ins)
    BY DEF Reading, Push
  <2>2. \A read : ReadAfter(read, Lower[e]) = Reading(ins)
    BY ReadAfterFew
  <2> HIDE DEF ins
  <2>3. Reading(ins) \in BOOLEAN /\ ReadsScript(e) \in BOOLEAN
    BY DEF Reading, ReadsScript
  <2> QED BY <2>1, <2>2, <2>3 DEF ValueReads
<1> QED BY <1>1, <1>2 DEF ValueRuns

LEMMA LiteralValue ==
    ASSUME NEW e \in Exprs, e.op \in {"int", "bool", "string"}
    PROVE  ValueRuns(e) /\ ValueReads(e)
<1>1. ~ReadsScript(e)
  BY NoReading
<1>2. CASE e.op \in {"int", "bool"}
  <2>1. Lower[e] = <<Push(Num(e.n))>> /\ \A env : Meaning(e, env) = Num(e.n)
    BY <1>2, LowerCases, MeaningCases
  <2>2. e.n \in Int
    BY Trees
  <2>3. GoodValue(e, Num(e.n))
    BY <1>1, <2>1, <2>2, GoodNumber
  <2>4. Num(e.n)[1] # "key"
    BY NumIs
  <2> QED BY <1>1, <2>1, <2>3, <2>4, PushedValue
<1>3. CASE e.op = "string"
  <2> DEFINE v == Bytes(e.name)
  <2>1. Lower[e] = <<Push(v)>> /\ \A env : Meaning(e, env) = v
    BY <1>3, LowerCases, MeaningCases
  <2>2. v[1] = "bytes" /\ v # Undefined
    <3>1. \A x : <<"bytes", x>> # <<"undefined">>
      OBVIOUS
    <3> QED BY <3>1 DEF Bytes, Undefined
  <2> HIDE DEF v
  <2>3. GoodValue(e, v)
    <3>1. ReadsScript(e) \in BOOLEAN
      BY DEF ReadsScript
    <3>2. (v[1] = "script") = ReadsScript(e)
      BY <1>1, <2>2, <3>1
    <3> QED BY <2>1, <2>2, <3>2 DEF GoodValue, IsNum
  <2> QED BY <1>1, <2>1, <2>2, <2>3, PushedValue
<1> QED BY <1>2, <1>3

-----------------------------------------------------------------------------
(* Fields and negations.                                                   *)

LEMMA FieldIs ==
    ASSUME NEW e \in Exprs, e.op = "field", ReadsCoin(e)
    PROVE  \E o \in CoinReadings, n \in Nat :
              /\ Lower[e] = <<<<o, n>>>> /\ FieldOf(o) = e.name
              /\ \A env : Meaning(e, env) = CoinMeaning(CoinsOf(o, env.tx), n, e.name)
<1> DEFINE object == e.kids[1]
           args == Args(object)
           n == args[1].n
<1>1. PICK root \in {"input", "output"} : IsCallOf(object, root)
  BY DEF ReadsCoin
<1>2. e.name \in {"value", "script"} /\ IsLiteralIndex(args) /\ Len(args) = 1
  BY DEF ReadsCoin
<1>3. object \in Exprs
  BY Trees, Kinds
<1>4. args # << >> /\ n \in Nat
  <2>1. args[1] \in Exprs
    BY <1>1, <1>2, <1>3, Calls, NamedCall
  <2>2. n \in Nat
    BY <2>1, Trees
  <2> QED BY <1>2, <2>2 DEF IsLiteralIndex
<1>5. IsCallOf(object, "input") = (root = "input") /\ IsCallOf(object, "output") = (root = "output")
      /\ ~IsName(object, "block") /\ ~IsPath(object, "covenant_id") /\ ~IsPath(object, "sequencing")
  <2>1. object.op = "call" /\ \A g : IsCallOf(object, g) => g = root
    BY <1>1, NamedCall
  <2>2. \A g : IsCallOf(object, g) \in BOOLEAN
    BY DEF IsCallOf
  <2> QED BY <1>1, <2>1, <2>2 DEF IsName, IsPath
<1> DEFINE o == CoinReading(root, e.name)
<1>6. o \in CoinReadings /\ FieldOf(o) = e.name
      /\ \A env : CoinsOf(o, env.tx) = IF root = "input" THEN env.tx.inputs ELSE env.tx.outputs
  BY <1>1, <1>2 DEF CoinReading, CoinReadings, FieldOf, CoinsOf
<1>7. LowerTransactionField(root, args, e.name) = <<o, n>>
  BY <1>2 DEF LowerTransactionField
<1>8. Lower[e] = <<LowerTransactionField(root, args, e.name)>>
  <2>1. Lower[e] = LowerField(e, Lower)
    BY LowerCases
  <2>2. LowerField(e, Lower) = <<LowerTransactionField(root, args, e.name)>>
    <3>1. CASE root = "input"
      <4>1. IsCallOf(object, "input") /\ ~IsCallOf(object, "output")
        BY <1>5, <3>1
      <4>2. LowerField(e, Lower) = <<LowerTransactionField("input", args, e.name)>>
        BY <4>1, <1>5, Zenon DEF LowerField
      <4> QED BY <3>1, <4>2
    <3>2. CASE root = "output"
      <4>1. IsCallOf(object, "output") /\ ~IsCallOf(object, "input")
        BY <1>5, <3>2
      <4>2. LowerField(e, Lower) = <<LowerTransactionField("output", args, e.name)>>
        BY <4>1, <1>5, Zenon DEF LowerField
      <4> QED BY <3>2, <4>2
    <3> QED BY <1>1, <3>1, <3>2
  <2> QED BY <2>1, <2>2
<1>9. ASSUME NEW env PROVE Meaning(e, env) = CoinMeaning(CoinsOf(o, env.tx), n, e.name)
  <2>1. Meaning(e, env) = FieldMeaning(e, env)
    BY MeaningCases
  <2>2. FieldMeaning(e, env) = CoinMeaning(IF root = "input" THEN env.tx.inputs ELSE env.tx.outputs, n, e.name)
    <3>1. CASE root = "input"
      BY <3>1, <1>4, <1>5 DEF FieldMeaning
    <3>2. CASE root = "output"
      BY <3>2, <1>4, <1>5 DEF FieldMeaning
    <3> QED BY <1>1, <3>1, <3>2
  <2> QED BY <1>6, <2>1, <2>2
<1>10. Lower[e] = <<<<o, n>>>>
  BY <1>7, <1>8
<1> HIDE DEF o, n
<1> QED BY <1>4, <1>6, <1>9, <1>10

LEMMA FieldValue ==
    ASSUME OnChain, NEW e \in Exprs, e.op = "field", ReadsCoin(e)
    PROVE  ValueRuns(e) /\ ValueReads(e)
<1>1. PICK o \in CoinReadings, n \in Nat :
              /\ Lower[e] = <<<<o, n>>>> /\ FieldOf(o) = e.name
              /\ \A env : Meaning(e, env) = CoinMeaning(CoinsOf(o, env.tx), n, e.name)
  BY FieldIs
<1>2. e.name \in {"value", "script"} /\ ReadsScript(e) = (e.name = "script")
  BY DEF ReadsCoin, ReadsScript
<1> DEFINE coins == CoinsOf(o, spend.tx)
           k == n + 1
           m == coins[k][e.name]
<1>3. ASSUME n \in 0 .. Len(coins) - 1
      PROVE  GoodValue(e, m) /\ m[1] # "key"
  <2>1. IsCoin(coins[k]) /\ Len(coins) \in Nat
    <3>1. IsCoin(coins[n + 1])
      BY <1>3, TransactionIs
    <3>2. Len(coins) \in Nat
      BY TransactionIs DEF CoinsOf
    <3> QED BY <3>1, <3>2
  <2>2. \A env : Agrees(env) => Meaning(e, env) = m
    <3>1. \A env : Agrees(env) => CoinsOf(o, env.tx) = coins
      BY DEF Agrees
    <3>2. CoinMeaning(coins, n, e.name) = m
      BY <1>2, <1>3, <2>1 DEF CoinMeaning
    <3> QED BY <1>1, <3>1, <3>2
  <2> DEFINE c == coins[k]
  <2>3. c = [value |-> Num(c.value[2]), script |-> Script(c.script[2])] /\ c.value[2] \in 0 .. I64Max
    BY <2>1 DEF IsCoin
  <2>4. c.value = Num(c.value[2]) /\ c.script = Script(c.script[2]) /\ c.value[2] \in Int
    BY <2>3
  <2>5. m = c[e.name]
    OBVIOUS
  <2> HIDE DEF m, c
  <2>6. CASE e.name = "value"
    <3>1. m = Num(c.value[2])
      BY <2>4, <2>5, <2>6
    <3>2. GoodValue(e, Num(c.value[2]))
      BY <1>2, <2>2, <2>4, <2>6, <3>1, GoodNumber
    <3> QED BY <3>1, <3>2, NumIs
  <2>7. CASE e.name = "script"
    <3>1. m = Script(c.script[2])
      BY <2>4, <2>5, <2>7
    <3>2. m[1] = "script" /\ m # Undefined
      <4>1. \A x : <<"script", x>> # <<"undefined">> /\ <<"script", x>>[1] = "script"
        OBVIOUS
      <4> QED BY <3>1, <4>1 DEF Script, Undefined
    <3> QED BY <1>2, <2>2, <2>7, <3>2 DEF GoodValue, IsNum
  <2> QED BY <1>2, <2>6, <2>7
<1>4. ASSUME NEW read, NEW st, NEW s, IsSeq(st), s \in Exec(read, Lower[e], st, spend.tx)
      PROVE  LeavesOne(s, st, m) /\ Worth(e, read, m)
  <2>1. s \in Exec(read, <<<<o, n>>>>, st, spend.tx)
    BY <1>1, <1>4
  <2>2. n \in 0 .. Len(CoinsOf(o, spend.tx)) - 1 /\ LeavesOne(s, st, CoinsOf(o, spend.tx)[n + 1][FieldOf(o)])
    BY <1>4, <2>1, ExecCoin
  <2>3. n \in 0 .. Len(coins) - 1 /\ LeavesOne(s, st, m)
    BY <1>1, <2>2
  <2> HIDE DEF m
  <2> QED BY <1>3, <2>3, AsItIs
<1>5. ValueReads(e)
  <2> DEFINE ins == <<o, n>>
  <2>1. Reading(ins) = (e.name = "script")
    BY <1>1, <1>2 DEF Reading, CoinReadings, FieldOf
  <2>2. \A read : ReadAfter(read, Lower[e]) = Reading(ins)
    BY <1>1, ReadAfterFew
  <2> HIDE DEF ins
  <2> QED BY <1>2, <2>1, <2>2 DEF ValueReads
<1> HIDE DEF m
<1> QED BY <1>4, <1>5 DEF ValueRuns

-----------------------------------------------------------------------------
(* Values made of values.                                                  *)

\* Code whose last instruction reads no script.
LEMMA EndsQuietly ==
    ASSUME NEW e, ~ReadsScript(e), NEW c, IsSeq(c), NEW ins, ~Reading(ins), Lower[e] = c \o <<ins>>
    PROVE  ValueReads(e)
<1>1. \A read : ReadAfter(read, Lower[e]) = Reading(ins)
  BY ReadAfterFew
<1>2. Reading(ins) \in BOOLEAN /\ ReadsScript(e) \in BOOLEAN
  BY DEF Reading, ReadsScript
<1> QED BY <1>1, <1>2 DEF ValueReads

LEMMA NotValue ==
    ASSUME OnChain, NEW e \in Exprs, e.op = "not", ValueRuns(e.kids[1])
    PROVE  ValueRuns(e) /\ ValueReads(e)
<1> DEFINE d == e.kids[1]
           op == <<"not">>
           c == Lower[d]
<1>1. d \in Exprs /\ Lower[e] = c \o <<op>> /\ IsSeq(c)
  <2>1. d \in Exprs
    BY Trees, Kinds
  <2>2. Lower[e] = c \o <<op>>
    BY LowerCases, Zenon
  <2>3. IsSeq(c)
    BY <2>1, LowerSeq
  <2> QED BY <2>1, <2>2, <2>3
<1>2. ~ReadsScript(e)
  BY NoReading
<1>3. ASSUME NEW read, NEW st, NEW s, IsSeq(st), ~read, s \in Exec(read, Lower[e], st, spend.tx)
      PROVE  \E v : LeavesOne(s, st, v) /\ (Sane => Worth(e, read, v))
  <2>1. PICK u \in Exec(read, c, st, spend.tx) : s \in Exec(ReadAfter(read, c), <<op>>, u, spend.tx)
    <3> DEFINE ins == <<op>>
    <3>1. IsSeq(ins)
      BY OneIsSeq
    <3> HIDE DEF ins
    <3>2. ExecSplits(read, c, ins, st, spend.tx)
      BY <1>1, <3>1, ExecApart
    <3>3. s \in Exec(read, c \o ins, st, spend.tx)
      BY <1>1, <1>3 DEF ins
    <3> QED BY <3>2, <3>3 DEF ExecSplits, ins
  <2>2. PICK v : LeavesOne(u, st, v) /\ (Sane => Worth(d, read, v))
    BY <1>3, <2>1 DEF ValueRuns
  <2>3. IsNum(v) /\ LeavesOne(s, st, Truth(v = Num(0)))
    <3>1. s \in Exec(ReadAfter(read, c), <<<<"not">>>>, st \o <<v>>, spend.tx)
      BY <2>1, <2>2 DEF LeavesOne
    <3> QED BY <1>3, <3>1, ExecNot
  <2>4. ASSUME Sane PROVE Worth(e, read, Truth(v = Num(0)))
    <3>1. PICK m : GoodValue(d, m) /\ v = BoundAs(read, m)
      BY <2>2, <2>4 DEF Worth
    <3>2. v = m
      BY <1>3, <3>1 DEF BoundAs
    <3>3. m = Num(m[2]) /\ m[2] \in Int
      BY <2>3, <3>1, <3>2 DEF GoodValue
    <3> DEFINE n == IF v = Num(0) THEN 1 ELSE 0
    <3>4. (v = Num(0)) = (m[2] = 0)
      <4>1. \A x : Num(x)[2] = x
        BY NumIs
      <4> QED BY <3>2, <3>3, <4>1
    <3>5. \A env : Agrees(env) => Meaning(e, env) = Num(n)
      <4>1. ASSUME NEW env, Agrees(env) PROVE Meaning(e, env) = Num(n)
        <5>1. Meaning(d, env) = m
          BY <3>1, <4>1 DEF GoodValue
        <5>2. Meaning(e, env) = IF IsNum(m) THEN Truth(m[2] = 0) ELSE Undefined
          BY <5>1, MeaningOfNot
        <5>3. Meaning(e, env) = Truth(v = Num(0))
          BY <2>3, <3>2, <3>4, <5>2
        <5> QED BY <5>3 DEF Truth
      <4> QED BY <4>1
    <3>6. n \in Int /\ Truth(v = Num(0)) = Num(n)
      BY DEF Truth
    <3> HIDE DEF n
    <3>7. GoodValue(e, Num(n))
      BY <1>2, <3>5, <3>6, GoodNumber
    <3> QED BY <3>6, <3>7, AsItIs, NumIs
  <2> QED BY <2>3, <2>4
<1>4. ValueReads(e)
  <2>1. ~Reading(op)
    BY DEF Reading
  <2> HIDE DEF op
  <2> QED BY <1>1, <1>2, <2>1, EndsQuietly
<1>5. ~Leaf(e)
  BY DEF Leaf
<1> QED BY <1>3, <1>4, <1>5 DEF ValueRuns

-----------------------------------------------------------------------------
(* Digests and continuations.                                              *)

\* A value's code, and one instruction after it.
LEMMA ThenOne ==
    ASSUME NEW e, NEW d \in Exprs, ValueRuns(d), NEW ins, Lower[e] = Lower[d] \o <<ins>>,
           NEW read, NEW st, NEW s, IsSeq(st), ~read, s \in Exec(read, Lower[e], st, spend.tx)
    PROVE  \E u, v : /\ LeavesOne(u, st, v) /\ (Sane => GoodValue(d, v))
                     /\ s \in Exec(ReadAfter(read, Lower[d]), <<ins>>, u, spend.tx)
<1> DEFINE c == Lower[d]
           one == <<ins>>
<1>1. IsSeq(c) /\ IsSeq(one)
  BY LowerSeq, OneIsSeq
<1>2. s \in Exec(read, c \o one, st, spend.tx)
  OBVIOUS
<1> HIDE DEF one
<1>3. ExecSplits(read, c, one, st, spend.tx)
  BY <1>1, ExecApart
<1>4. PICK u \in Exec(read, c, st, spend.tx) : s \in Exec(ReadAfter(read, c), one, u, spend.tx)
  BY <1>2, <1>3 DEF ExecSplits
<1>5. PICK v : LeavesOne(u, st, v) /\ (Sane => Worth(d, read, v))
  BY <1>4 DEF ValueRuns
<1>6. Sane => GoodValue(d, v)
  BY <1>5 DEF Worth, BoundAs
<1> QED BY <1>4, <1>5, <1>6 DEF one

LEMMA HashValue ==
    ASSUME OnChain, NEW e \in Exprs, NEW f \in {"sha256", "blake2b"}, IsCallOf(e, f), Len(Args(e)) = 1,
           ValueRuns(Args(e)[1])
    PROVE  /\ ValueRuns(e) /\ ValueReads(e)
           /\ IsSeq(Lower[Args(e)[1]]) /\ Lower[e] = Lower[Args(e)[1]] \o <<<<f>>>>
<1> DEFINE args == Args(e)
           d == args[1]
           op == <<f>>
<1>1. e.op = "call" /\ ~IsVerify(e) /\ Callee(e).name = f /\ \A g : IsCallOf(e, g) => g = f
  BY NamedCall
<1>2. 1 \in DOMAIN args /\ d \in Exprs
  BY <1>1, Calls
<1>3. Lower[e] = Lower[d] \o <<op>>
  <2>1. Lower[e] = LowerCall(e, Lower)
    BY <1>1, LowerCases
  <2>2. /\ ~\E g \in {"input", "output"} : IsCallOf(e, g)
        /\ ~\E g \in {"continuation"} : IsCallOf(e, g)
        /\ ~\E g \in {"multisig"} : IsCallOf(e, g)
        /\ ~\E g \in {"zk_verify"} : IsCallOf(e, g)
        /\ \E g \in HashFunctions : IsCallOf(e, g)
    BY <1>1 DEF HashFunctions
  <2>3. LowerCall(e, Lower) = LowerNth(args, 1, Lower) \o <<<<Callee(e).name>>>>
    BY <1>1, <2>2, Zenon DEF LowerCall
  <2>4. LowerNth(args, 1, Lower) = Lower[d]
    BY <1>2 DEF LowerNth
  <2>5. <<Callee(e).name>> = op
    BY <1>1
  <2> QED BY <2>1, <2>3, <2>4, <2>5, Zenon
<1>4. ASSUME NEW env, Meaning(d, env) # Undefined
      PROVE  Meaning(e, env) = Digest(f, Meaning(d, env))
  <2>1. PICK of : Meaning(e, env) = CallMeaning(e, env, of) /\ \A x : of[x] = Meaning(x, env)
    BY <1>1, MeaningOfCall
  <2>2. /\ ~IsCallOf(e, "multisig") /\ ~IsCallOf(e, "continuation")
        /\ \E g \in HashFunctions : IsCallOf(e, g)
    BY <1>1 DEF HashFunctions
  <2>3. CallMeaning(e, env, of) = IF of[d] = Undefined THEN Undefined ELSE Digest(Callee(e).name, of[d])
    BY <1>1, <2>2, Zenon DEF CallMeaning
  <2> QED BY <1>1, <1>4, <2>1, <2>3
<1>5. ~ReadsScript(e)
  BY <1>1, NoReading
<1>6. ASSUME NEW read, NEW st, NEW s, IsSeq(st), ~read, s \in Exec(read, Lower[e], st, spend.tx)
      PROVE  \E v : LeavesOne(s, st, v) /\ (Sane => Worth(e, read, v))
  <2>1. PICK u, v : /\ LeavesOne(u, st, v) /\ (Sane => GoodValue(d, v))
                    /\ s \in Exec(ReadAfter(read, Lower[d]), <<op>>, u, spend.tx)
    <3> DEFINE ins == op
    <3>1. Lower[e] = Lower[d] \o <<ins>>
      BY <1>3
    <3> HIDE DEF ins
    <3>2. \E u, v : /\ LeavesOne(u, st, v) /\ (Sane => GoodValue(d, v))
                    /\ s \in Exec(ReadAfter(read, Lower[d]), <<ins>>, u, spend.tx)
      BY <1>2, <1>6, <3>1, ThenOne
    <3> QED BY <3>2 DEF ins
  <2> DEFINE w == Digest(f, v)
  <2>2. LeavesOne(s, st, w)
    <3>1. s \in Exec(ReadAfter(read, Lower[d]), <<<<f>>>>, st \o <<v>>, spend.tx)
      BY <2>1 DEF LeavesOne
    <3> QED BY <1>6, <3>1, ExecHash
  <2>3. w[1] = "digest" /\ w # Undefined
    <3>1. \A x : <<"digest", x>> # <<"undefined">> /\ <<"digest", x>>[1] = "digest"
      OBVIOUS
    <3> QED BY <3>1 DEF Digest, Undefined
  <2>4. ASSUME Sane PROVE Worth(e, read, w)
    <3>1. \A env : Agrees(env) => Meaning(d, env) = v /\ v # Undefined
      BY <2>1, <2>4 DEF GoodValue
    <3>2. \A env : Agrees(env) => Meaning(e, env) = w
      BY <1>4, <3>1
    <3> HIDE DEF w
    <3>3. (w[1] = "script") = ReadsScript(e)
      <4>1. ReadsScript(e) \in BOOLEAN
        BY DEF ReadsScript
      <4> QED BY <1>5, <2>3, <4>1
    <3>4. GoodValue(e, w)
      BY <2>3, <3>2, <3>3 DEF GoodValue, IsNum
    <3> QED BY <2>3, <3>4, AsItIs
  <2> HIDE DEF w
  <2> QED BY <2>2, <2>4
<1>7. ValueReads(e)
  <2>1. ~Reading(op)
    BY DEF Reading
  <2>2. IsSeq(Lower[d])
    BY <1>2, LowerSeq
  <2> HIDE DEF op
  <2> QED BY <1>3, <1>5, <2>1, <2>2, EndsQuietly
<1>8. ~Leaf(e)
  BY <1>1 DEF Leaf
<1>9. IsSeq(Lower[d])
  BY <1>2, LowerSeq
<1> QED BY <1>3, <1>6, <1>7, <1>8, <1>9 DEF ValueRuns

LEMMA ContinuationIs ==
    ASSUME NEW e \in Exprs, IsCallOf(e, "continuation"), Len(Args(e)) = 2, OutputIndex(Args(e)[2]) # {}
    PROVE  \E n \in Nat :
              /\ OutputIndex(Args(e)[2]) = {n}
              /\ Lower[e] = <<<<"output_count">>, Push(Num(n)), <<"greaterthan">>>>
              /\ \A env : Meaning(e, env) = Truth(n < Len(env.tx.outputs))
<1> DEFINE args == Args(e)
           out == args[2]
           n == Args(out)[1].n
<1>1. e.op = "call" /\ ~IsVerify(e) /\ \A g : IsCallOf(e, g) => g = "continuation"
  BY NamedCall
<1>2. out \in Exprs
  BY <1>1, Calls
<1>3. OutputIndex(out) = {n} /\ n \in Nat
  <2>1. IsCallOf(out, "output") /\ Len(Args(out)) = 1 /\ OutputIndex(out) = {n}
    BY DEF OutputIndex
  <2>2. Args(out)[1] \in Exprs
    BY <1>2, <2>1, Calls, NamedCall
  <2> QED BY <2>1, <2>2, Trees
<1> HIDE DEF n
<1>4. (CHOOSE i \in OutputIndex(out) : TRUE) = n
  BY <1>3
<1>5. Lower[e] = <<<<"output_count">>, Push(Num(n)), <<"greaterthan">>>>
  <2>1. Lower[e] = LowerCall(e, Lower)
    BY <1>1, LowerCases
  <2>2. /\ ~\E g \in {"input", "output"} : IsCallOf(e, g)
        /\ \E g \in {"continuation"} : IsCallOf(e, g)
        /\ ~\E g \in {"multisig"} : IsCallOf(e, g)
        /\ ~\E g \in {"zk_verify"} : IsCallOf(e, g)
        /\ ~\E g \in HashFunctions : IsCallOf(e, g)
    BY <1>1 DEF HashFunctions
  <2>3. LowerCall(e, Lower) = LowerContinuation(args)
    BY <1>1, <2>2, Zenon DEF LowerCall
  <2>4. LowerContinuation(args) = <<<<"output_count">>, Push(Num(n)), <<"greaterthan">>>>
    <3>1. ~(Len(args) < 2 \/ OutputIndex(args[2]) = {})
      OBVIOUS
    <3> QED BY <1>4, <3>1, Zenon DEF LowerContinuation
  <2> QED BY <2>1, <2>3, <2>4
<1>6. ASSUME NEW env PROVE Meaning(e, env) = Truth(n < Len(env.tx.outputs))
  <2>1. PICK of : Meaning(e, env) = CallMeaning(e, env, of)
    BY <1>1, MeaningOfCall
  <2>2. /\ ~IsCallOf(e, "multisig") /\ ~\E g \in HashFunctions : IsCallOf(e, g)
    BY <1>1 DEF HashFunctions
  <2>3. CallMeaning(e, env, of) = Truth(\A i \in OutputIndex(out) : i < Len(env.tx.outputs))
    BY <1>1, <2>2, Zenon DEF CallMeaning
  <2> QED BY <1>3, <2>1, <2>3 DEF Truth
<1> QED BY <1>3, <1>5, <1>6

-----------------------------------------------------------------------------
(* Truth values and pairs.                                                 *)

LEMMA TruthIs == \A b \in BOOLEAN : Truth(b)[2] \in {0, 1} /\ Truth(b) = Num(Truth(b)[2]) /\ IsNum(Truth(b)) /\ Truth(b) # Undefined
<1> SUFFICES ASSUME NEW b \in BOOLEAN
             PROVE  Truth(b)[2] \in {0, 1} /\ Truth(b) = Num(Truth(b)[2]) /\ IsNum(Truth(b)) /\ Truth(b) # Undefined
  OBVIOUS
<1>1. Truth(b) = Num(1) \/ Truth(b) = Num(0)
  BY DEF Truth
<1> QED BY <1>1, NumIs

\* A value whose code leaves a truth value or aborts.
LEMMA TruthValue ==
    ASSUME NEW e, NEW read, NEW b \in BOOLEAN, ~ReadsScript(e),
           \A env : Agrees(env) => Meaning(e, env) = Truth(b)
    PROVE  Worth(e, read, Truth(b))
<1>1. PICK n \in {0, 1} : Truth(b) = Num(n)
  BY TruthIs
<1>2. n \in Int
  OBVIOUS
<1>3. GoodValue(e, Num(n))
  BY <1>1, <1>2, GoodNumber
<1>4. Num(n)[1] # "key"
  BY NumIs
<1> QED BY <1>1, <1>3, <1>4, AsItIs

\* What an operation on two values leaves of them.
PairOps == Logical \cup Comparisons \cup {"+", "-"}

Combines(op, v, w, x) ==
    /\ op = "==" => x = Truth(v = w)
    /\ op # "==" => IsNum(v) /\ IsNum(w)
    /\ op = "!=" => x = Truth(v # w)
    /\ op \notin {"==", "!="} => x = NumericResult(op, v[2], w[2]) /\ x # Undefined

LEMMA PairLeaves ==
    ASSUME NEW s, NEW st, NEW op \in PairOps, NEW v, NEW w, NEW tx,
           Leaves(s, st, <<Opcode(op)>>, <<v, w>>, tx)
    PROVE  Opcode(op) \in TwoInput /\ \E x : LeavesOne(s, st, x) /\ Combines(op, v, w, x)
<1> DEFINE o == Opcode(op)
           a == <<v, w>>
<1>1. op \in {"and", "or", "==", "!=", ">", ">=", "<", "<=", "+", "-"}
  BY DEF PairOps, Logical, Comparisons
<1>2. /\ o \in {"booland", "boolor", "equal", "numnotequal", "greaterthan", "greaterthanorequal", "lessthan",
                "lessthanorequal", "add", "sub"}
      /\ o = "equal" <=> op = "=="
      /\ o = "numnotequal" <=> op = "!="
      /\ op \notin {"==", "!="} => SourceOp(o) = op
  BY <1>1 DEF Opcode, SourceOp
<1>3. o \in TwoInput
  BY <1>2 DEF TwoInput
<1>4. PICK r \in Results(<<o>>, a, tx) : s = st \o r
  BY DEF Leaves
<1>5. a[1] = v /\ a[2] = w /\ DOMAIN a = {1, 2}
  OBVIOUS
<1> HIDE DEF o, a
<1>6. CASE op = "=="
  <2>1. Results(<<o>>, a, tx) = {<<Truth(a[1] = a[2])>>}
    BY <1>2, <1>6 DEF Results
  <2>2. r = <<Truth(v = w)>>
    BY <1>4, <1>5, <2>1
  <2>3. LeavesOne(s, st, Truth(v = w)) /\ Combines(op, v, w, Truth(v = w))
    BY <1>4, <1>6, <2>2 DEF LeavesOne, Combines
  <2> QED BY <1>3, <2>3 DEF o
<1>7. CASE op # "=="
  <2>1. Results(<<o>>, a, tx) = IF \A i \in DOMAIN a : IsNum(a[i]) THEN NumberResults(<<o>>, a, tx) ELSE {}
    BY <1>2, <1>7 DEF Results
  <2>2. IsNum(v) /\ IsNum(w) /\ r \in NumberResults(<<o>>, a, tx)
    BY <1>4, <1>5, <2>1
  <2>3. CASE op = "!="
    <3>1. NumberResults(<<o>>, a, tx) = {<<Truth(a[1] # a[2])>>}
      BY <1>2, <2>3 DEF NumberResults
    <3>2. r = <<Truth(v # w)>>
      BY <1>5, <2>2, <3>1
    <3>3. LeavesOne(s, st, Truth(v # w)) /\ Combines(op, v, w, Truth(v # w))
      BY <1>4, <2>2, <2>3, <3>2 DEF LeavesOne, Combines
    <3> QED BY <1>3, <3>3 DEF o
  <2>4. CASE op # "!="
    <3>1. NumberResults(<<o>>, a, tx) = Arithmetic2(SourceOp(o), a[1][2], a[2][2])
      BY <1>2, <1>7, <2>4 DEF NumberResults
    <3>2. SourceOp(o) = op
      BY <1>2, <1>7, <2>4
    <3> DEFINE x == NumericResult(op, v[2], w[2])
    <3>3. Arithmetic2(op, v[2], w[2]) = IF x = Undefined THEN {} ELSE {<<x>>}
      BY DEF Arithmetic2
    <3>4. r \in IF x = Undefined THEN {} ELSE {<<x>>}
      BY <1>5, <2>2, <3>1, <3>2, <3>3, Zenon
    <3> HIDE DEF x
    <3>5. r = <<x>> /\ x # Undefined
      BY <3>4
    <3>6. LeavesOne(s, st, x)
      BY <1>4, <3>5 DEF LeavesOne
    <3>7. Combines(op, v, w, x)
      BY <1>7, <2>2, <2>4, <3>5 DEF Combines, x
    <3> QED BY <1>3, <3>6, <3>7 DEF o
  <2> QED BY <2>3, <2>4
<1> QED BY <1>6, <1>7

\* What is left of two numbers is a number.
LEMMA ResultIsNumber ==
    ASSUME NEW op \in PairOps \ {"==", "!="}, NEW m \in Int, NEW n \in Int, NumericResult(op, m, n) # Undefined
    PROVE  \E k \in Int : NumericResult(op, m, n) = Num(k)
<1> DEFINE r == NumericResult(op, m, n)
<1>1. op \in {"and", "or", ">", ">=", "<", "<=", "+", "-"}
  BY DEF PairOps, Logical, Comparisons
<1>2. CASE op \in {"and", "or", ">", ">=", "<", "<="}
  <2>1. \E b \in BOOLEAN : r = Truth(b)
    <3>1. /\ op = "and" => r = Truth(m # 0 /\ n # 0)
          /\ op = "or" => r = Truth(m # 0 \/ n # 0)
          /\ op = ">" => r = Truth(m > n)
          /\ op = ">=" => r = Truth(m >= n)
          /\ op = "<" => r = Truth(m < n)
          /\ op = "<=" => r = Truth(m <= n)
      BY Zenon DEF NumericResult
    <3>2. /\ (m # 0 /\ n # 0) \in BOOLEAN /\ (m # 0 \/ n # 0) \in BOOLEAN
          /\ (m > n) \in BOOLEAN /\ (m >= n) \in BOOLEAN /\ (m < n) \in BOOLEAN /\ (m <= n) \in BOOLEAN
      OBVIOUS
    <3> HIDE DEF r
    <3> QED BY <1>2, <3>1, <3>2, Zenon
  <2> HIDE DEF r
  <2>2. PICK b \in BOOLEAN : r = Truth(b)
    BY <2>1
  <2>3. Truth(b)[2] \in Int /\ Truth(b) = Num(Truth(b)[2])
    BY TruthIs
  <2> QED BY <2>2, <2>3 DEF r
<1>3. CASE op \in {"+", "-"}
  <2>1. r = Fitting(m + n) \/ r = Fitting(m - n)
    BY <1>3 DEF NumericResult
  <2>2. \A k : Fitting(k) # Undefined => Fitting(k) = Num(k)
    BY DEF Fitting
  <2>3. m + n \in Int /\ m - n \in Int
    OBVIOUS
  <2> HIDE DEF r
  <2> QED BY <2>1, <2>2, <2>3 DEF r
<1> QED BY <1>1, <1>2, <1>3

Triple(x, y, z) == <<x, y, z>>

JoinOf(s, t, all) == all = s \o t
ListOfOne(x, one) == one = <<x>>

LEMMA Joins ==
    ASSUME NEW s, NEW t, IsSeq(s), IsSeq(t), NEW all, JoinOf(s, t, all)
    PROVE  /\ IsSeq(all) /\ Len(all) = Len(s) + Len(t)
           /\ \A i \in 1 .. Len(s) : all[i] = s[i]
           /\ \A i \in 1 .. Len(t) : all[Len(s) + i] = t[i]
BY ConcatSeq DEF JoinOf

LEMMA TripleIs ==
    ASSUME NEW x, NEW y, NEW z, NEW one, NEW two, NEW three,
           ListOfOne(x, one), ListOfOne(y, two), ListOfOne(z, three),
           NEW more, JoinOf(two, three, more), NEW all, JoinOf(one, more, all)
    PROVE  Triple(x, y, z) = all
<1>1. /\ IsSeq(one) /\ IsSeq(two) /\ IsSeq(three) /\ Len(one) = 1 /\ Len(two) = 1 /\ Len(three) = 1
      /\ one[1] = x /\ two[1] = y /\ three[1] = z
  <2>1. \A u, v : ListOfOne(u, v) => IsSeq(v) /\ Len(v) = 1 /\ v[1] = u
    BY OneIsSeq DEF ListOfOne
  <2> QED BY <2>1
<1> DEFINE r == Triple(x, y, z)
<1>2. IsSeq(r) /\ Len(r) = 3 /\ r[1] = x /\ r[2] = y /\ r[3] = z
  <2>1. r \in Seq({x, y, z}) /\ Len(r) = 3 /\ r[1] = x /\ r[2] = y /\ r[3] = z
    BY DEF Triple
  <2> QED BY <2>1, TypedIsSeq
<1> HIDE DEF r
<1>3. IsSeq(more) /\ Len(more) = 2 /\ more[1] = y /\ more[2] = z
  <2>1. /\ IsSeq(more) /\ Len(more) = Len(two) + Len(three)
        /\ \A i \in 1 .. Len(two) : more[i] = two[i]
        /\ \A i \in 1 .. Len(three) : more[Len(two) + i] = three[i]
    <3>1. IsSeq(two) /\ IsSeq(three)
      BY <1>1
    <3> QED BY <3>1, Joins
  <2> QED BY <1>1, <2>1
<1>4. IsSeq(all) /\ Len(all) = 3 /\ all[1] = x /\ all[2] = y /\ all[3] = z
  <2>1. /\ IsSeq(all) /\ Len(all) = Len(one) + Len(more)
        /\ \A i \in 1 .. Len(one) : all[i] = one[i]
        /\ \A i \in 1 .. Len(more) : all[Len(one) + i] = more[i]
    <3>1. IsSeq(one) /\ IsSeq(more)
      BY <1>1, <1>3
    <3> QED BY <3>1, Joins
  <2> QED BY <1>1, <1>3, <2>1
<1>5. \A i \in 1 .. 3 : i = 1 \/ i = 2 \/ i = 3
  OBVIOUS
<1>6. r = all
  <2>1. \A i \in 1 .. Len(r) : r[i] = all[i]
    BY <1>2, <1>4, <1>5
  <2> QED BY <1>2, <1>4, <2>1, SameSeq
<1> QED BY <1>6 DEF r

LEMMA TripleParts == \A x, y, z : Triple(x, y, z) = <<x>> \o (<<y>> \o <<z>>)
<1> SUFFICES ASSUME NEW x, NEW y, NEW z PROVE Triple(x, y, z) = <<x>> \o (<<y>> \o <<z>>)
  OBVIOUS
<1> DEFINE one == <<x>>
           two == <<y>>
           three == <<z>>
           more == two \o three
           all == one \o more
<1>1. ListOfOne(x, one) /\ ListOfOne(y, two) /\ ListOfOne(z, three) /\ JoinOf(two, three, more) /\ JoinOf(one, more, all)
  BY DEF ListOfOne, JoinOf
<1> HIDE DEF one, two, three, more, all
<1>2. Triple(x, y, z) = all
  BY <1>1, TripleIs
<1> QED BY <1>2 DEF all, more, one, two, three

LEMMA ContinuationValue ==
    ASSUME OnChain, NEW e \in Exprs, IsCallOf(e, "continuation"), Len(Args(e)) = 2, OutputIndex(Args(e)[2]) # {}
    PROVE  ValueRuns(e) /\ ValueReads(e)
<1>1. PICK n \in Nat : /\ Lower[e] = <<<<"output_count">>, Push(Num(n)), <<"greaterthan">>>>
                       /\ \A env : Meaning(e, env) = Truth(n < Len(env.tx.outputs))
  BY ContinuationIs
<1> DEFINE a == <<"output_count">>
           b == Push(Num(n))
           c == <<"greaterthan">>
           count == Len(spend.tx.outputs)
<1>2. count \in Nat
  BY TransactionIs
<1>3. e.op = "call"
  BY NamedCall
<1>4. ~ReadsScript(e)
  BY <1>3, NoReading
<1>5. Lower[e] = <<a>> \o (<<b>> \o <<c>>) /\ IsSeq(<<a>>) /\ IsSeq(<<b>> \o <<c>>) /\ IsSeq(<<b>>) /\ IsSeq(<<c>>)
  <2> HIDE DEF a, b, c
  <2>1. Lower[e] = Triple(a, b, c)
    BY <1>1 DEF a, b, c, Triple
  <2>2. IsSeq(<<a>>) /\ IsSeq(<<b>>) /\ IsSeq(<<c>>)
    BY OneIsSeq, Zenon
  <2> QED BY <2>1, <2>2, TripleParts, ConcatSeq, Zenon
<1>6. ASSUME NEW read, NEW st, NEW s, IsSeq(st), s \in Exec(read, Lower[e], st, spend.tx)
      PROVE  \E v : LeavesOne(s, st, v) /\ (Sane => Worth(e, read, v))
  <2> HIDE DEF a, b, c
  <2> DEFINE bc == <<b>> \o <<c>>
  <2> HIDE DEF bc
  <2>1. ExecSplits(read, <<a>>, bc, st, spend.tx) /\ Lower[e] = <<a>> \o bc
    BY <1>5, ExecApart DEF bc
  <2>2. PICK u \in Exec(read, <<a>>, st, spend.tx) : s \in Exec(ReadAfter(read, <<a>>), bc, u, spend.tx)
    BY <1>6, <2>1 DEF ExecSplits
  <2> DEFINE after == ReadAfter(read, <<a>>)
  <2> HIDE DEF after
  <2>3. ExecSplits(after, <<b>>, <<c>>, u, spend.tx)
    BY <1>5, ExecApart
  <2>4. PICK w \in Exec(after, <<b>>, u, spend.tx) : s \in Exec(ReadAfter(after, <<b>>), <<c>>, w, spend.tx)
    BY <2>2, <2>3 DEF ExecSplits, after, bc
  <2>5. LeavesOne(u, st, Num(count))
    <3>1. "output_count" \in Counts /\ u \in Exec(read, <<<<"output_count">>>>, st, spend.tx)
      BY <2>2 DEF Counts, a
    <3>2. LeavesOne(u, st, Num(Len(IF "output_count" = "input_count" THEN spend.tx.inputs ELSE spend.tx.outputs)))
      BY <1>6, <3>1, ExecCount
    <3> QED BY <3>2
  <2>6. IsSeq(u) /\ LeavesOne(w, u, Num(n))
    <3>1. IsSeq(u)
      BY <1>6, <2>5, OnTop
    <3>2. w \in Exec(after, <<Push(Num(n))>>, u, spend.tx)
      BY <2>4 DEF b
    <3> QED BY <3>1, <3>2, ExecPush
  <2>7. Leaves(s, st, <<"greaterthan">>, <<Num(count), Num(n)>>, spend.tx)
    <3> HIDE DEF count
    <3>1. s \in Exec(ReadAfter(after, <<b>>), <<<<"greaterthan">>>>, (st \o <<Num(count)>>) \o <<Num(n)>>, spend.tx)
      BY <2>4, <2>5, <2>6 DEF LeavesOne, c
    <3>2. "greaterthan" \in TwoInput
      BY DEF TwoInput
    <3> QED BY <1>6, <3>1, <3>2, ExecPair
  <2>8. \E x : LeavesOne(s, st, x) /\ x = Truth(count > n)
    <3>1. ">" \in PairOps /\ Opcode(">") = "greaterthan"
      BY DEF PairOps, Comparisons, Opcode
    <3>2. PICK x : LeavesOne(s, st, x) /\ Combines(">", Num(count), Num(n), x)
      BY <2>7, <3>1, PairLeaves
    <3>3. x = NumericResult(">", Num(count)[2], Num(n)[2])
      BY <3>2 DEF Combines
    <3>4. NumericResult(">", Num(count)[2], Num(n)[2]) = Truth(Num(count)[2] > Num(n)[2])
      BY Zenon DEF NumericResult
    <3>5. Num(count)[2] = count /\ Num(n)[2] = n
      BY NumIs
    <3> QED BY <3>2, <3>3, <3>4, <3>5, Zenon
  <2>9. LeavesOne(s, st, Truth(n < count))
    <3>1. (count > n) = (n < count)
      BY <1>2
    <3> QED BY <2>8, <3>1, Zenon
  <2>10. Worth(e, read, Truth(n < count))
    <3>1. \A env : Agrees(env) => Meaning(e, env) = Truth(n < count)
      BY <1>1 DEF Agrees
    <3>2. (n < count) \in BOOLEAN
      BY <1>2
    <3> QED BY <1>4, <3>1, <3>2, TruthValue
  <2> QED BY <2>9, <2>10
<1>7. ValueReads(e)
  <2>1. ~Reading(<<"greaterthan">>)
    BY DEF Reading
  <2>2. Lower[e] = (<<a>> \o <<b>>) \o <<c>> /\ IsSeq(<<a>> \o <<b>>)
    <3> HIDE DEF a, b, c
    <3>1. (<<a>> \o <<b>>) \o <<c>> = <<a>> \o (<<b>> \o <<c>>)
      BY <1>5, ConcatAssoc
    <3> QED BY <1>5, <3>1, ConcatSeq
  <2> HIDE DEF a, b
  <2> QED BY <1>4, <2>1, <2>2, EndsQuietly
<1>8. ValueRuns(e)
  BY <1>6 DEF ValueRuns
<1> QED BY <1>7, <1>8

-----------------------------------------------------------------------------
(* Locks.  A lock the engine lets through is one whose time has come.      *)

\* The environment of the spend has the values the script was bound with.
LEMMA EnvironmentAgrees ==
    ASSUME OnChain, NEW w
    PROVE  Agrees(Environment(spend.tx, w, spend.now))
<1> DEFINE names == NamesOf(Path.params)
           place(name) == CHOOSE i \in DOMAIN names : names[i] = name
           env == Environment(spend.tx, w, spend.now)
           values == [name \in ToSet(names) \cup DOMAIN bound |->
                        IF name \in ToSet(names) THEN w[place(name)] ELSE bound[name]]
<1>1. env = [tx |-> spend.tx, now |-> spend.now, values |-> values]
  BY DEF Environment
<1>2. ASSUME NEW x, Known(x) PROVE x \in DOMAIN env.values /\ env.values[x] = bound[x]
  <2>1. x \in DOMAIN bound
    BY <1>2, BoundKinds
  <2>2. x \notin ToSet(names)
    BY <1>2, NamesApart DEF IsSpendParam
  <2>3. env.values = values
    BY <1>1
  <2> HIDE DEF names, place, env
  <2>4. x \in DOMAIN values /\ values[x] = bound[x]
    BY <2>1, <2>2
  <2> QED BY <2>3, <2>4
<1>3. env.tx = spend.tx /\ env.now = spend.now
  BY <1>1
<1> HIDE DEF env
<1> QED BY <1>2, <1>3 DEF Agrees, env

\* The name of an argument stands for its signature.
LEMMA EnvironmentGives ==
    ASSUME OnChain, NEW w, NEW i \in 1 .. Len(Path.params)
    PROVE  LET env == Environment(spend.tx, w, spend.now)
           IN  /\ Path.params[i].name \in DOMAIN env.values
               /\ env.values[Path.params[i].name] = w[i]
<1> DEFINE names == NamesOf(Path.params)
           place(name) == CHOOSE j \in DOMAIN names : names[j] = name
           env == Environment(spend.tx, w, spend.now)
           values == [name \in ToSet(names) \cup DOMAIN bound |->
                        IF name \in ToSet(names) THEN w[place(name)] ELSE bound[name]]
           x == Path.params[i].name
<1>1. env.values = values
  BY DEF Environment
<1>2. /\ names[i] = x /\ i \in DOMAIN names /\ x \in ToSet(names)
      /\ \A j, k \in DOMAIN names : names[j] = names[k] => j = k
  <2>1. Path.params \in Declarations
    BY SpendFacts
  <2>2. /\ IsSeq(names) /\ DOMAIN names = 1 .. Len(Path.params) /\ names[i] = x /\ Len(names) = Len(Path.params)
    BY <2>1, NamesAre
  <2>3. IsInjective(names)
    BY NamesApart
  <2> HIDE DEF names
  <2>4. x \in ToSet(names)
    BY <2>2, Members
  <2> QED BY <2>2, <2>3, <2>4, Zenon DEF IsInjective
<1> HIDE DEF names
<1>3. place(x) = i
  BY <1>2
<1> HIDE DEF place, x
<1>5. x \in DOMAIN values /\ values[x] = w[i]
  BY <1>2, <1>3
<1> HIDE DEF env, values
<1> QED BY <1>1, <1>5 DEF env, x

LEMMA LockParts ==
    ASSUME NEW e \in Exprs, IsPlainLock(e), IsBinary(e)
    PROVE  /\ IsLock(e) /\ e.op = ">=" /\ e.kids[1] \in Exprs /\ e.kids[2] \in Exprs /\ e.kids[1].name \in {"height", "time"}
           /\ ~ReadsScript(e) /\ ~Leaf(e)
           /\ \A env : Meaning(e.kids[1], env) =
                    Num(IF e.kids[1].name = "height" THEN env.now.score ELSE env.now.time)
<1> DEFINE l == e.kids[1]
<1>1. e.op = ">=" /\ IsBlockField(l) /\ IsLock(e) /\ IsName(l.kids[1], "block")
  BY DEF IsPlainLock, IsLock
<1>2. Len(e.kids) = 2 /\ l \in Exprs /\ e.kids[2] \in Exprs
  BY Trees, Kinds
<1>3. l.op = "field" /\ l.name \in {"height", "time"} /\ IsName(l.kids[1], "block")
  BY <1>1 DEF IsBlockField
<1>4. ~ReadsScript(e) /\ ~Leaf(e)
  BY <1>1, NoReading DEF Leaf
<1> HIDE DEF l
<1>5. ASSUME NEW env PROVE Meaning(l, env) = Num(IF l.name = "height" THEN env.now.score ELSE env.now.time)
  <2>1. Meaning(l, env) = FieldMeaning(l, env)
    BY <1>2, <1>3, MeaningCases
  <2> DEFINE object == l.kids[1]
  <2>2. ~IsCallOf(object, "input") /\ ~IsCallOf(object, "output")
    BY <1>3 DEF IsName, IsCallOf
  <2>3. /\ l.name = "height" => FieldMeaning(l, env) = Num(env.now.score)
        /\ l.name = "time" => FieldMeaning(l, env) = Num(env.now.time)
    BY <1>3, <2>2, Zenon DEF FieldMeaning
  <2> QED BY <1>3, <2>1, <2>3
<1> QED BY <1>1, <1>2, <1>3, <1>4, <1>5 DEF l

\* A lock that did not abort the script is true of the spend.
LEMMA LockHolds ==
    ASSUME OnChain, Sane, NEW e \in Exprs, IsPart(e), IsPlainLock(e), IsBinary(e), NEW m, GoodValue(e.kids[2], m), IsNum(m),
           LockTimeReached(m[2], spend.tx)
    PROVE  \A env : Agrees(env) => Meaning(e, env) = Truth(TRUE)
<1> DEFINE l == e.kids[1]
           n == m[2]
           t == spend.tx.lockTime
           at == IF l.name = "height" THEN spend.now.score ELSE spend.now.time
           env0 == Environment(spend.tx, spend.witness, spend.now)
<1>1. n \in Int /\ m = Num(n) /\ m # Undefined
  BY DEF GoodValue
<1>2. /\ IsLock(e) /\ e.op = ">=" /\ l.name \in {"height", "time"}
      /\ \A env : Agrees(env) => Meaning(l, env) = Num(at)
  BY LockParts DEF Agrees
<1>3. t \in Nat /\ spend.now.score \in Nat /\ spend.now.time \in Nat /\ Final(spend.tx, spend.now) /\ LockTimeThreshold \in Nat
  BY SpendFacts, TransactionIs, ChainAssumption
<1>4. (n < LockTimeThreshold) = (l.name = "height")
  <2>1. Meaning(e.kids[2], env0) = m
    BY EnvironmentAgrees DEF GoodValue
  <2>2. e \in SpendLocks
    <3>1. e \in Parts
      BY PartsOfParts
    <3>2. PICK q \in ToSet(Requires(Path)) : e \in ToSet(Subterms[q])
      BY <3>1 DEF Parts
    <3>3. e \in Locks(q)
      BY <1>2, <3>2 DEF Locks
    <3> QED BY <3>2, <3>3 DEF SpendLocks
  <2>3. LockValue(e, spend.tx, spend.witness, spend.now) = m
    BY <2>1 DEF LockValue
  <2>4. LocksOfTheirKind(spend.tx, spend.witness, spend.now)
    BY DEF Sane
  <2> QED BY <2>2, <2>3, <2>4, Zenon DEF LocksOfTheirKind
<1>5. n >= 0 /\ (n < LockTimeThreshold) = (t < LockTimeThreshold) /\ n <= t /\ spend.tx.sequence # MaxSequence
  BY DEF LockTimeReached, SameLockKind
<1>6. t = 0 \/ t < IF t < LockTimeThreshold THEN spend.now.score ELSE spend.now.time
  BY <1>3, <1>5 DEF Final
<1> HIDE DEF l, n, t
<1>7. at \in Nat /\ at >= n
  BY <1>1, <1>3, <1>4, <1>5, <1>6
<1> HIDE DEF at
<1>8. ASSUME NEW env, Agrees(env) PROVE Meaning(e, env) = Truth(TRUE)
  <2>1. Meaning(e, env) = BinaryMeaning(">=", Meaning(l, env), Meaning(e.kids[2], env))
    BY <1>2, MeaningOfBinary DEF l
  <2>2. Meaning(l, env) = Num(at) /\ Meaning(e.kids[2], env) = Num(n)
    BY <1>1, <1>2, <1>8 DEF GoodValue
  <2>3. BinaryMeaning(">=", Num(at), Num(n)) = NumericResult(">=", Num(at)[2], Num(n)[2])
    BY NumIs, Zenon DEF BinaryMeaning
  <2>4. NumericResult(">=", Num(at)[2], Num(n)[2]) = Truth(Num(at)[2] >= Num(n)[2])
    BY Zenon DEF NumericResult
  <2>5. (Num(at)[2] >= Num(n)[2]) = TRUE
    BY <1>1, <1>7, NumIs
  <2> QED BY <2>1, <2>2, <2>3, <2>4, <2>5, Zenon
<1> QED BY <1>8

-----------------------------------------------------------------------------
(* Binary operators.  Comparisons and arithmetic, whichever way round the compiler takes them.*)

LEMMA LockRuns ==
    ASSUME OnChain, NEW e \in Exprs, IsPart(e), IsPlainLock(e), IsBinary(e), ValueRuns(e.kids[2])
    PROVE  ValueRuns(e) /\ ValueReads(e)
<1> DEFINE r == e.kids[2]
<1>1. r \in Exprs /\ ~ReadsScript(e) /\ ~Leaf(e) /\ IsLock(e)
  BY LockParts
<1>2. Lower[e] = LowerBinary(e, Lower)
  BY LowerCases
<1>3. CASE r.op = "int"
  <2> DEFINE n == r.n
             ins == <<"check_lock", n>>
  <2>1. Lower[e] = <<ins>>
    BY <1>1, <1>2, <1>3, Zenon DEF LowerBinary
  <2>2. n \in Nat
    BY <1>1, Trees
  <2>3. ASSUME NEW read, NEW st, NEW s, IsSeq(st), s \in Exec(read, Lower[e], st, spend.tx)
        PROVE  \E v : LeavesOne(s, st, v) /\ (Sane => Worth(e, read, v))
    <3>1. LockTimeReached(n, spend.tx) /\ LeavesOne(s, st, Truth(TRUE))
      <4>1. s \in Exec(read, <<<<"check_lock", n>>>>, st, spend.tx)
        BY <2>1, <2>3
      <4> HIDE DEF n, ins
      <4> QED BY <2>3, <4>1, ExecLock
    <3>2. ASSUME Sane PROVE Worth(e, read, Truth(TRUE))
      <4>1. GoodValue(r, Num(n))
        <5>1. \A env : Meaning(r, env) = Num(n)
          BY <1>1, <1>3, MeaningCases
        <5>2. ~ReadsScript(r)
          BY <1>3, NoReading
        <5>3. n \in Int
          BY <2>2
        <5> HIDE DEF n, r
        <5> QED BY <5>1, <5>2, <5>3, GoodNumber
      <4> DEFINE m == Num(n)
      <4>2. IsNum(m) /\ m[2] = n
        BY NumIs
      <4>3. GoodValue(r, m) /\ LockTimeReached(m[2], spend.tx)
        BY <3>1, <4>1, <4>2
      <4> HIDE DEF m
      <4>4. \A env : Agrees(env) => Meaning(e, env) = Truth(TRUE)
        BY <3>2, <4>2, <4>3, LockHolds
      <4> QED BY <1>1, <4>4, TruthValue
    <3> QED BY <3>1, <3>2
  <2>4. ValueReads(e)
    <3>1. ~Reading(ins)
      BY DEF Reading
    <3> HIDE DEF ins
    <3>2. ASSUME NEW read PROVE ReadAfter(read, Lower[e]) = ReadsScript(e)
      <4>1. ReadAfter(read, <<ins>>) = Reading(ins)
        BY ReadAfterFew
      <4>2. Reading(ins) \in BOOLEAN /\ ReadsScript(e) \in BOOLEAN
        BY DEF Reading, ReadsScript
      <4> QED BY <1>1, <2>1, <3>1, <4>1, <4>2
    <3> QED BY <3>2 DEF ValueReads
  <2>5. ValueRuns(e)
    BY <2>3 DEF ValueRuns
  <2> QED BY <2>4, <2>5
<1>4. CASE r.op # "int"
  <2> DEFINE ins == <<"check_lock_from_stack">>
  <2>1. Lower[e] = Lower[r] \o <<ins>>
    BY <1>1, <1>2, <1>4, Zenon DEF LowerBinary
  <2>2. ASSUME NEW read, NEW st, NEW s, IsSeq(st), ~read, s \in Exec(read, Lower[e], st, spend.tx)
        PROVE  \E v : LeavesOne(s, st, v) /\ (Sane => Worth(e, read, v))
    <3>1. PICK u, v : /\ LeavesOne(u, st, v) /\ (Sane => GoodValue(r, v))
                      /\ s \in Exec(ReadAfter(read, Lower[r]), <<ins>>, u, spend.tx)
      <4> HIDE DEF ins, r
      <4>1. ValueRuns(r)
        BY DEF r
      <4> QED BY <1>1, <2>1, <2>2, <4>1, ThenOne
    <3>2. IsNum(v) /\ LockTimeReached(v[2], spend.tx) /\ LeavesOne(s, st, Truth(TRUE))
      BY <2>2, <3>1, ExecLockFromStack
    <3>3. ASSUME Sane PROVE Worth(e, read, Truth(TRUE))
      <4>1. \A env : Agrees(env) => Meaning(e, env) = Truth(TRUE)
        BY <3>1, <3>2, <3>3, LockHolds
      <4> QED BY <1>1, <4>1, TruthValue
    <3> QED BY <3>2, <3>3
  <2>3. ValueReads(e)
    <3>1. ~Reading(ins) /\ IsSeq(Lower[r])
      BY <1>1, LowerSeq DEF Reading
    <3> HIDE DEF ins
    <3> QED BY <1>1, <2>1, <3>1, EndsQuietly
  <2>4. ValueRuns(e)
    BY <1>1, <2>2 DEF ValueRuns
  <2> QED BY <2>3, <2>4
<1> QED BY <1>3, <1>4

LEMMA TruthNumber == ASSUME NEW b \in BOOLEAN PROVE \E k \in Int : Truth(b) = Num(k)
<1>1. Truth(b)[2] \in {0, 1} /\ Truth(b) = Num(Truth(b)[2])
  BY TruthIs
<1>2. Truth(b)[2] \in Int
  BY <1>1
<1> QED BY <1>1, <1>2

\* What is left of two values of a comparison is what it means of them.
LEMMA CombinedMeaning ==
    ASSUME NEW op \in PairOps, NEW l, NEW r, NEW m, NEW n, GoodValue(l, m), GoodValue(r, n),
           op = "==" /\ ReadsScript(r) => ~IsNameIn(l, TypedNames({"PublicKey"})),
           NEW w, w = BoundAs(ReadsScript(l), n), NEW x, Combines(op, m, w, x)
    PROVE  x = BinaryMeaning(op, m, n) /\ \E k \in Int : x = Num(k)
<1>1. /\ m # Undefined /\ n # Undefined
      /\ (m[1] = "script") = ReadsScript(l) /\ (n[1] = "script") = ReadsScript(r)
      /\ m[1] = "key" => IsNameIn(l, TypedNames({"PublicKey"}))
      /\ IsNum(m) => m = Num(m[2]) /\ m[2] \in Int
      /\ IsNum(n) => n = Num(n[2]) /\ n[2] \in Int
  BY DEF GoodValue
<1>2. w = IF n[1] = "key" /\ m[1] = "script" THEN Script(n[2]) ELSE n
  BY <1>1 DEF BoundAs
<1>3. ASSUME IsNum(m), IsNum(w) PROVE w = n /\ IsNum(n) /\ m[1] = "num" /\ n[1] = "num"
  BY <1>2, <1>3 DEF IsNum
<1>4. CASE op = "=="
  <2>1. x = Truth(m = w)
    BY <1>4 DEF Combines
  <2>2. BinaryMeaning(op, m, n) = Truth(SameValue(m, n))
    BY <1>1, <1>4, Zenon DEF BinaryMeaning
  <2>3. SameValue(m, n) = (m = w)
    <3>1. ~(m[1] = "key" /\ n[1] = "script")
      BY <1>1, <1>4
    <3>2. CASE m[1] = "script" /\ n[1] = "key"
      <4>1. m[1] # "key"
        BY <3>2
      <4>2. SameValue(m, n) = (m = Script(n[2]))
        BY <3>1, <3>2, Zenon DEF SameValue
      <4> QED BY <1>2, <3>2, <4>2
    <3>3. CASE ~(m[1] = "script" /\ n[1] = "key")
      <4>1. SameValue(m, n) = (m = n)
        BY <3>1, <3>3, Zenon DEF SameValue
      <4> QED BY <1>2, <3>3, <4>1
    <3> QED BY <3>2, <3>3
  <2>4. (m = w) \in BOOLEAN
    OBVIOUS
  <2>5. \E k \in Int : Truth(m = w) = Num(k)
    <3> DEFINE b == m = w
    <3>1. b \in BOOLEAN
      OBVIOUS
    <3> HIDE DEF b
    <3>2. \E k \in Int : Truth(b) = Num(k)
      BY <3>1, TruthNumber
    <3> QED BY <3>2 DEF b
  <2> QED BY <2>1, <2>2, <2>3, <2>5, Zenon
<1>5. CASE op = "!="
  <2>1. x = Truth(m # w) /\ IsNum(m) /\ IsNum(w)
    BY <1>5 DEF Combines
  <2>2. BinaryMeaning(op, m, n) = Truth(~SameValue(m, n))
    BY <1>1, <1>5, Zenon DEF BinaryMeaning
  <2>3. SameValue(m, n) = (m = w)
    <3>1. m[1] # "key" /\ n[1] # "key" /\ w = n
      BY <1>3, <2>1
    <3>2. SameValue(m, n) = (m = n)
      BY <3>1, Zenon DEF SameValue
    <3> QED BY <3>1, <3>2
  <2>4. (m # w) \in BOOLEAN
    OBVIOUS
  <2>5. \E k \in Int : Truth(m # w) = Num(k)
    <3> DEFINE b == m # w
    <3>1. b \in BOOLEAN
      OBVIOUS
    <3> HIDE DEF b
    <3>2. \E k \in Int : Truth(b) = Num(k)
      BY <3>1, TruthNumber
    <3> QED BY <3>2 DEF b
  <2> QED BY <2>1, <2>2, <2>3, <2>5, Zenon
<1>6. CASE op \notin {"==", "!="}
  <2>1. IsNum(m) /\ IsNum(w) /\ x = NumericResult(op, m[2], w[2]) /\ x # Undefined
    BY <1>6 DEF Combines
  <2>2. w = n /\ IsNum(n)
    BY <1>3, <2>1
  <2>3. BinaryMeaning(op, m, n) = NumericResult(op, m[2], n[2])
    BY <1>1, <1>6, <2>1, <2>2, Zenon DEF BinaryMeaning
  <2>4. \E k \in Int : NumericResult(op, m[2], n[2]) = Num(k)
    BY <1>1, <1>6, <2>1, <2>2, ResultIsNumber
  <2> QED BY <2>1, <2>2, <2>3, <2>4, Zenon
<1> QED BY <1>4, <1>5, <1>6

LEMMA BinaryParts ==
    ASSUME NEW e \in Exprs, IsBinary(e), ~IsLock(e), e.op \notin {"*", "/", "%"}
    PROVE  /\ e.kids[1] \in Exprs /\ e.kids[2] \in Exprs /\ Len(e.kids) = 2
           /\ e.op \in PairOps /\ ~ReadsScript(e) /\ ~Leaf(e) /\ ~Reading(<<Opcode(e.op)>>)
           /\ Lower[e] = (Lower[e.kids[1]] \o Lower[e.kids[2]]) \o <<<<Opcode(e.op)>>>>
<1>1. Len(e.kids) = 2 /\ e.kids[1] \in Exprs /\ e.kids[2] \in Exprs
  BY Trees, Kinds
<1>2. e.op \in PairOps /\ e.op \notin {"ident", "int", "bool", "string", "field"}
  BY DEF IsBinary, PairOps, Arithmetic, Logical, Comparisons
<1>3. ~ReadsScript(e) /\ ~Leaf(e)
  BY <1>2, NoReading DEF Leaf
<1>4. Lower[e] = LowerBinary(e, Lower)
  BY LowerCases
<1>5. LowerBinary(e, Lower) = Lower[e.kids[1]] \o Lower[e.kids[2]] \o <<<<Opcode(e.op)>>>>
  BY Zenon DEF LowerBinary
<1>6. Opcode(e.op) \notin {"input_script", "output_script"}
  <2>1. e.op \in {"and", "or", "==", "!=", ">", ">=", "<", "<=", "+", "-"}
    BY <1>2 DEF PairOps, Logical, Comparisons
  <2> QED BY <2>1 DEF Opcode
<1>7. ~Reading(<<Opcode(e.op)>>)
  <2> DEFINE o == Opcode(e.op)
  <2> HIDE DEF o
  <2>1. <<o>>[1] = o
    OBVIOUS
  <2>2. o \notin {"input_script", "output_script"}
    BY <1>6 DEF o
  <2>3. ~Reading(<<o>>)
    BY <2>1, <2>2 DEF Reading
  <2> QED BY <2>3 DEF o
<1> QED BY <1>1, <1>2, <1>3, <1>4, <1>5, <1>7

LEMMA BinaryValue ==
    ASSUME OnChain, NEW e \in Exprs, IsPart(e), IsBinary(e), ~IsLock(e), e.op \notin {"*", "/", "%"},
           ValueRuns(e.kids[1]), ValueReads(e.kids[1]), ValueRuns(e.kids[2]),
           ReadsScript(e.kids[1]) => Leaf(e.kids[2])
    PROVE  ValueRuns(e) /\ ValueReads(e)
<1> DEFINE l == e.kids[1]
           r == e.kids[2]
           c == Lower[l]
           d == Lower[r]
           o == Opcode(e.op)
           ins == <<o>>
<1>1. /\ l \in Exprs /\ r \in Exprs /\ e.op \in PairOps /\ ~ReadsScript(e) /\ ~Leaf(e) /\ ~Reading(ins)
      /\ Lower[e] = (c \o d) \o <<ins>>
  BY BinaryParts
<1>2. IsSeq(c) /\ IsSeq(d) /\ IsSeq(c \o d)
  BY <1>1, LowerSeq, ConcatSeq
<1>3. ValueReads(e)
  <2> HIDE DEF c, d, ins
  <2> QED BY <1>1, <1>2, EndsQuietly
<1>4. ASSUME NEW read, NEW st, NEW s, IsSeq(st), ~read, s \in Exec(read, Lower[e], st, spend.tx)
      PROVE  \E v : LeavesOne(s, st, v) /\ (Sane => Worth(e, read, v))
  <2> DEFINE cd == c \o d
             one == <<ins>>
             next == ReadAfter(read, c)
  <2>1. s \in Exec(read, cd \o one, st, spend.tx) /\ IsSeq(cd) /\ IsSeq(one)
    BY <1>1, <1>2, <1>4, OneIsSeq
  <2> HIDE DEF one, ins, o
  <2>2. ExecSplits(read, cd, one, st, spend.tx)
    <3> HIDE DEF cd
    <3> QED BY <2>1, ExecApart
  <2>3. PICK u \in Exec(read, cd, st, spend.tx) : s \in Exec(ReadAfter(read, cd), one, u, spend.tx)
    <3> HIDE DEF cd
    <3> QED BY <2>1, <2>2 DEF ExecSplits
  <2> HIDE DEF c, d
  <2>4. ExecSplits(read, c, d, st, spend.tx)
    BY <1>2, ExecApart
  <2>5. PICK t \in Exec(read, c, st, spend.tx) : u \in Exec(next, d, t, spend.tx)
    BY <2>3, <2>4 DEF ExecSplits
  <2>6. next = ReadsScript(l)
    BY DEF ValueReads, c
  <2> HIDE DEF next, cd, l, r
  <2>7. PICK v : LeavesOne(t, st, v) /\ (Sane => Worth(l, read, v))
    BY <1>4, <2>5 DEF ValueRuns, c, l
  <2>8. IsSeq(t)
    BY <1>4, <2>7, OnTop
  <2>9. PICK w : LeavesOne(u, t, w) /\ (Sane => Worth(r, next, w))
    <3>1. next => Leaf(r)
      BY <2>6 DEF l, r
    <3> QED BY <2>5, <2>8, <3>1 DEF ValueRuns, d, r
  <2>10. u = (st \o <<v>>) \o <<w>>
    BY <2>7, <2>9 DEF LeavesOne
  <2>11. \E x : LeavesOne(s, st, x) /\ Combines(e.op, v, w, x)
    <3>1. s \in Exec(ReadAfter(read, cd), <<<<o>>>>, (st \o <<v>>) \o <<w>>, spend.tx)
      BY <2>3, <2>10 DEF one, ins
    <3>2. o \in TwoInput
      <4>1. e.op \in {"and", "or", "==", "!=", ">", ">=", "<", "<=", "+", "-"}
        BY <1>1 DEF PairOps, Logical, Comparisons
      <4> QED BY <4>1 DEF Opcode, TwoInput, o
    <3>3. Leaves(s, st, <<o>>, <<v, w>>, spend.tx)
      BY <1>4, <3>1, <3>2, ExecPair
    <3> QED BY <1>1, <3>3, PairLeaves DEF o
  <2>12. PICK x : LeavesOne(s, st, x) /\ Combines(e.op, v, w, x)
    BY <2>11
  <2>13. ASSUME Sane PROVE Worth(e, read, x)
    <3>1. GoodValue(l, v)
      BY <1>4, <2>7, <2>13 DEF Worth, BoundAs
    <3>2. PICK n : GoodValue(r, n) /\ w = BoundAs(ReadsScript(l), n)
      BY <2>6, <2>9, <2>13 DEF Worth
    <3>3. e.op = "==" /\ ReadsScript(r) => ~IsNameIn(l, TypedNames({"PublicKey"}))
      <4>1. e \in ToSet(RequiredTerms(Path))
        <5>1. Path \in Paths
          BY SpendFacts
        <5> QED BY <5>1, PartsOfParts, RequiredAre
      <4> QED BY <2>13, <4>1 DEF Sane, KeysFollowScripts, l, r
    <3>4. x = BinaryMeaning(e.op, v, n) /\ \E k \in Int : x = Num(k)
      BY <1>1, <2>12, <3>1, <3>2, <3>3, CombinedMeaning
    <3>5. PICK k \in Int : x = Num(k)
      BY <3>4
    <3>6. ASSUME NEW env, Agrees(env) PROVE Meaning(e, env) = Num(k)
      <4>1. Meaning(e, env) = BinaryMeaning(e.op, Meaning(l, env), Meaning(r, env))
        BY MeaningOfBinary DEF l, r
      <4>2. Meaning(l, env) = v /\ Meaning(r, env) = n
        BY <3>1, <3>2, <3>6 DEF GoodValue
      <4> QED BY <3>4, <3>5, <4>1, <4>2, Zenon
    <3>7. GoodValue(e, Num(k))
      BY <1>1, <3>6, GoodNumber
    <3>8. Num(k)[1] # "key"
      BY NumIs
    <3> QED BY <3>5, <3>7, <3>8, AsItIs
  <2> QED BY <2>12, <2>13
<1>5. ValueRuns(e)
  <2>1. ~Leaf(e)
    BY <1>1
  <2> HIDE DEF c, d, ins
  <2> QED BY <1>4, <2>1 DEF ValueRuns
<1> QED BY <1>3, <1>5

=============================================================================
