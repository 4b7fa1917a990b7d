------------------------------ MODULE Recursion ------------------------------
(***************************************************************************)
(* Recursive functions exist.  A function of which each value is made from *)
(* values of it at smaller arguments is what its definition says: the      *)
(* function the definition chooses satisfies it.  From(p, x, f) is the     *)
(* value at x of the function with parameter p, made from values of f; the *)
(* modules that prove something of a recursive function instantiate this.  *)
(* They have induction from Foundations (NatInductionOnSet); extending it  *)
(* here would copy all its lemmas into every instance.                     *)
(***************************************************************************)
EXTENDS Integers, TLAPS

CONSTANTS Domain(_),        \* what the function with a parameter is defined on
          Size(_, _),       \* how large an argument is
          From(_, _, _)

Measured(p, bound) == \A x \in Domain(p) : Size(p, x) \in 0 .. bound

\* Only values at smaller arguments are used.
UsesSmaller(p) ==
    \A x \in Domain(p) : \A f, g :
        (\A y \in Domain(p) : Size(p, y) < Size(p, x) => f[y] = g[y]) => From(p, x, f) = From(p, x, g)

Defines(p, f) == f = [x \in Domain(p) |-> From(p, x, f)]

\* Induction on the natural numbers.
Induction == \A T \in SUBSET Nat : 0 \in T /\ (\A n \in T : n + 1 \in T) => T = Nat

\* A function each value of which is made from its values at smaller arguments
\* exists: Lower, Meaning, TypeOf and the other walks over a syntax tree, Run over
\* a script.
THEOREM Exists ==
    ASSUME Induction, NEW p, NEW bound \in Nat, Measured(p, bound), UsesSmaller(p)
    PROVE  \E f : Defines(p, f)
<1> DEFINE Upto(n)  == {x \in Domain(p) : Size(p, x) < n}
           Is(n, f) == f = [x \in Upto(n) |-> From(p, x, f)]
           T        == {n \in Nat : \E f : Is(n, f)}
<1>1. 0 \in T
  <2>1. Upto(0) = {}
    <3>1. \A x \in Domain(p) : Size(p, x) \in 0 .. bound
      BY DEF Measured
    <3> QED BY <3>1
  <2> DEFINE f == [x \in {} |-> 0]
  <2> HIDE DEF Upto
  <2>2. f = [x \in Upto(0) |-> From(p, x, f)]
    BY <2>1
  <2> QED BY <2>2
<1>2. ASSUME NEW n \in T PROVE n + 1 \in T
  <2>1. PICK f : Is(n, f)
    OBVIOUS
  <2> DEFINE g == [x \in Upto(n + 1) |-> From(p, x, f)]
             h == [x \in Upto(n + 1) |-> From(p, x, g)]
  <2>2. n \in Nat
    OBVIOUS
  <2>3. ASSUME NEW y \in Domain(p), Size(p, y) < n PROVE f[y] = g[y]
    <3>1. Size(p, y) \in 0 .. bound
      BY DEF Measured
    <3>2. y \in Upto(n) /\ y \in Upto(n + 1)
      BY <2>2, <2>3, <3>1
    <3> HIDE DEF Upto
    <3>3. f[y] = From(p, y, f)
      BY <2>1, <3>2, Zenon
    <3>4. g[y] = From(p, y, f)
      BY <3>2, Zenon
    <3> QED BY <3>3, <3>4
  <2>4. ASSUME NEW x \in Upto(n + 1) PROVE From(p, x, f) = From(p, x, g)
    <3>1. x \in Domain(p) /\ Size(p, x) < n + 1
      OBVIOUS
    <3>2. ASSUME NEW y \in Domain(p), Size(p, y) < Size(p, x) PROVE f[y] = g[y]
      <4>1. Size(p, y) \in 0 .. bound /\ Size(p, x) \in 0 .. bound
        BY <3>1 DEF Measured
      <4>2. Size(p, y) < n
        BY <2>2, <3>1, <3>2, <4>1
      <4> QED BY <2>3, <4>2
    <3> HIDE DEF g
    <3> QED BY <3>1, <3>2, Zenon DEF UsesSmaller
  <2>5. g = [x \in Upto(n + 1) |-> g[x]] /\ \A x \in Upto(n + 1) : g[x] = From(p, x, f)
    BY Zenon
  <2>6. h = [x \in Upto(n + 1) |-> h[x]] /\ \A x \in Upto(n + 1) : h[x] = From(p, x, g)
    <3> HIDE DEF g
    <3> QED BY Zenon
  <2>7. g = h
    <3> HIDE DEF g, h
    <3>1. \A x \in Upto(n + 1) : g[x] = h[x]
      BY <2>4, <2>5, <2>6, Zenon
    <3> QED BY <2>5, <2>6, <3>1, Zenon
  <2>8. \E k : Is(n + 1, k)
    BY <2>7
  <2>9. n + 1 \in Nat
    BY <2>2
  <2> HIDE DEF Is
  <2> QED BY <2>8, <2>9
<1>3. T \in SUBSET Nat
  OBVIOUS
<1>4. Upto(bound + 1) = Domain(p)
  BY DEF Measured
<1> HIDE DEF T
<1>5. T = Nat
  BY <1>1, <1>2, <1>3 DEF Induction
<1>6. PICK f : Is(bound + 1, f)
  <2>1. bound + 1 \in T
    BY <1>5
  <2> QED BY <2>1 DEF T
<1> HIDE DEF Upto
<1>7. f = [x \in Domain(p) |-> From(p, x, f)]
  BY <1>4, <1>6
<1> QED BY <1>7, Zenon DEF Defines

=============================================================================
