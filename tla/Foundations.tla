------------------------------ MODULE Foundations ------------------------------
(***************************************************************************)
(* What the proofs of several components need of the library's operators.  *)
(*                                                                         *)
(* Sums over finite sets, as SumFunctionOnSet of Functions defines them:   *)
(* the recursive function that it folds with exists and is unique, so that *)
(* a sum can be taken apart, and what follows for sums of amounts.         *)
(* Induction is over sets: a set of naturals, or of subsets of a finite    *)
(* set, that is closed under one element more has all of them.             *)
(*                                                                         *)
(* Sequences whose elements are of no particular set, as stacks and codes  *)
(* are: what the sequence theorems say of typed sequences, said of these,  *)
(* and what FlattenSeq makes of them.                                      *)
(***************************************************************************)
EXTENDS Integers, FiniteSets, SequencesExt, FiniteSetTheorems, SequenceTheorems, WellFoundedInduction, TLAPS

-----------------------------------------------------------------------------
(* Induction.                                                              *)

\* Every set of naturals with a member has a least one.
LEMMA LeastOf ==
    ASSUME NEW T \in SUBSET Nat, T # {}
    PROVE  \E x \in T : \A y \in T : x <= y
<1>1. PICK x \in T : \A y \in T : ~(<<y, x>> \in OpToRel(<, Nat))
  BY WFMin, NatLessThanWellFounded, Zenon
<1>2. ASSUME NEW y \in T PROVE ~(y < x)
  <2>1. <<y, x>> \in Nat \X Nat
    OBVIOUS
  <2> QED BY <1>1, <2>1, Zenon DEF OpToRel
<1> QED BY <1>2

\* A set of naturals that has 0 and the successor of each of its members is Nat.
LEMMA NatInductionOnSet ==
    ASSUME NEW T \in SUBSET Nat, 0 \in T, \A n \in T : n + 1 \in T
    PROVE  T = Nat
<1> SUFFICES ASSUME Nat \ T # {} PROVE FALSE
  OBVIOUS
<1>1. PICK x \in Nat \ T : \A y \in Nat \ T : x <= y
  BY LeastOf, Nat \ T \in SUBSET Nat, Zenon
<1>2. x # 0 /\ x - 1 \in Nat
  BY <1>1
<1>3. x - 1 \in T
  BY <1>1, <1>2
<1> QED BY <1>1, <1>2, <1>3

\* Among finite subsets there is a smallest one.
LEMMA SmallestOf ==
    ASSUME NEW S, NEW B, B \subseteq FiniteSubsetsOf(S), B # {}
    PROVE  \E x \in B : \A y \in B : ~(<<y, x>> \in StrictSubsetOrdering(S))
<1>1. IsWellFoundedOn(StrictSubsetOrdering(S), FiniteSubsetsOf(S))
  BY FS_StrictSubsetOrderingWellFounded
<1> QED BY <1>1, WFMin

\* Induction over the subsets of a finite set.
LEMMA SubsetInduction ==
    ASSUME NEW S, IsFiniteSet(S), NEW P \in SUBSET (SUBSET S),
           {} \in P,
           \A T \in SUBSET S : T # {} /\ (\A x \in T : T \ {x} \in P) => T \in P
    PROVE  P = SUBSET S
<1> DEFINE Bad == (SUBSET S) \ P
<1> SUFFICES ASSUME Bad # {} PROVE FALSE
  OBVIOUS
<1>1. Bad \subseteq FiniteSubsetsOf(S)
  BY FS_FiniteSubsetsOfFinite
<1> HIDE DEF Bad
<1>2. PICK T \in Bad : \A y \in Bad : ~(<<y, T>> \in StrictSubsetOrdering(S))
  BY <1>1, SmallestOf
<1> USE DEF Bad
<1>3. T # {} /\ T \in SUBSET S
  BY <1>2
<1>4. ASSUME NEW x \in T PROVE T \ {x} \in P
  <2> SUFFICES ASSUME T \ {x} \notin P PROVE FALSE
    OBVIOUS
  <2>1. T \ {x} \in Bad
    BY <1>3
  <2>2. <<T \ {x}, T>> \in (SUBSET S) \X (SUBSET S)
    BY <1>3
  <2>3. T \ {x} \subseteq T /\ T \ {x} # T
    OBVIOUS
  <2>4. <<T \ {x}, T>> \in StrictSubsetOrdering(S)
    BY <2>2, <2>3, Zenon DEF StrictSubsetOrdering
  <2> QED BY <1>2, <2>1, <2>4
<1> QED BY <1>2, <1>3, <1>4

-----------------------------------------------------------------------------
(* The function that the fold defines.                                     *)

\* The element with which the fold goes on.
Pick(s) == CHOOSE x \in s : TRUE

\* What the fold takes its function to be on the subsets of S.
IsSum(f, S, g) ==
    g = [s \in SUBSET S |-> IF s = {} THEN 0 ELSE f[Pick(s)] + g[s \ {Pick(s)}]]

\* It is one of them.
LEMMA Picked == ASSUME NEW s, s # {} PROVE Pick(s) \in s
BY DEF Pick

\* Two such functions agree where both are defined.
LEMMA SumsAgree ==
    ASSUME NEW f, NEW S, NEW T, IsFiniteSet(T), T \subseteq S,
           NEW g, NEW h, IsSum(f, S, g), IsSum(f, T, h)
    PROVE  \A s \in SUBSET T : g[s] = h[s]
<1> DEFINE P == {s \in SUBSET T : g[s] = h[s]}
<1>1. \A s \in SUBSET T : g[s] = IF s = {} THEN 0 ELSE f[Pick(s)] + g[s \ {Pick(s)}]
  BY Zenon DEF IsSum
<1>2. \A s \in SUBSET T : h[s] = IF s = {} THEN 0 ELSE f[Pick(s)] + h[s \ {Pick(s)}]
  BY Zenon DEF IsSum
<1>3. {} \in P
  BY <1>1, <1>2, Zenon
<1>4. ASSUME NEW s \in SUBSET T, s # {}, \A x \in s : s \ {x} \in P PROVE s \in P
  <2>1. s \ {Pick(s)} \in P
    BY <1>4, Picked, Zenon
  <2> QED BY <1>1, <1>2, <1>4, <2>1, Zenon
<1>5. P \in SUBSET (SUBSET T)
  OBVIOUS
<1> HIDE DEF P
<1>6. P = SUBSET T
  BY <1>3, <1>4, <1>5, SubsetInduction, Zenon
<1> QED BY <1>6, Zenon DEF P

\* The value of that function for all of S.
SumOn(f, S) == (CHOOSE g : IsSum(f, S, g))[S]

\* There is such a function.
LEMMA SumExists ==
    ASSUME NEW f, NEW S, IsFiniteSet(S)
    PROVE  \E g : IsSum(f, S, g)
<1> DEFINE P == {T \in SUBSET S : \A s \in SUBSET T : \E g : IsSum(f, s, g)}
           G(T) == [s \in SUBSET T |-> IF s = {} THEN 0 ELSE f[Pick(s)] + SumOn(f, s \ {Pick(s)})]
<1>1. \A T \in SUBSET S : IsFiniteSet(T)
  BY FS_Subset
<1>2. ASSUME NEW T \in SUBSET S,
             \A s \in SUBSET T : s # T => \E g : IsSum(f, s, g)
      PROVE  IsSum(f, T, G(T))
  <2>1. ASSUME NEW u \in SUBSET T, u # T PROVE SumOn(f, u) = G(T)[u]
    <3> DEFINE g == CHOOSE k : IsSum(f, u, k)
    <3>1. IsSum(f, u, g)
      BY <1>2, <2>1, Zenon
    <3> HIDE DEF g
    <3>2. g[u] = IF u = {} THEN 0 ELSE f[Pick(u)] + g[u \ {Pick(u)}]
      BY <3>1, Zenon DEF IsSum
    <3>3. ASSUME u # {} PROVE g[u \ {Pick(u)}] = SumOn(f, u \ {Pick(u)})
      <4> DEFINE w == u \ {Pick(u)}
                 h == CHOOSE k : IsSum(f, w, k)
      <4>1. w \in SUBSET T /\ w # T /\ w \subseteq u
        BY <3>3, Picked
      <4>2. IsSum(f, w, h)
        BY <1>2, <4>1, Zenon
      <4>3. IsFiniteSet(w)
        BY <1>1, <4>1
      <4> HIDE DEF h, w
      <4>4. g[w] = h[w]
        BY <3>1, <4>1, <4>2, <4>3, SumsAgree
      <4> QED BY <4>4, Zenon DEF SumOn, h, w
    <3>4. SumOn(f, u) = g[u]
      BY Zenon DEF SumOn, g
    <3> QED BY <3>2, <3>3, <3>4, Zenon
  <2>2. ASSUME NEW s \in SUBSET T, s # {}
        PROVE  SumOn(f, s \ {Pick(s)}) = G(T)[s \ {Pick(s)}]
    <3>1. s \ {Pick(s)} \in SUBSET T /\ s \ {Pick(s)} # T
      BY <2>2, Picked
    <3> HIDE DEF G
    <3> QED BY <2>1, <3>1, Zenon
  <2> DEFINE H == G(T)
  <2>3. H = [s \in SUBSET T |-> IF s = {} THEN 0 ELSE f[Pick(s)] + H[s \ {Pick(s)}]]
    BY <2>2, Zenon
  <2> QED BY <2>3, Zenon DEF IsSum
<1>3. {} \in P
  <2>1. IsSum(f, {}, G({}))
    BY <1>2, Zenon
  <2> QED BY <2>1, Zenon
<1>4. ASSUME NEW T \in SUBSET S, T # {}, \A x \in T : T \ {x} \in P PROVE T \in P
  <2>1. ASSUME NEW s \in SUBSET T, s # T PROVE \E g : IsSum(f, s, g)
    <3>1. PICK x \in T : x \notin s
      BY <2>1
    <3>2. s \in SUBSET (T \ {x})
      BY <3>1
    <3> QED BY <1>4, <3>2, Zenon
  <2>2. IsSum(f, T, G(T))
    BY <1>2, <2>1
  <2> HIDE DEF G
  <2> QED BY <2>1, <2>2, Zenon
<1>5. P \in SUBSET (SUBSET S)
  OBVIOUS
<1> HIDE DEF P
<1>6. P = SUBSET S
  BY <1>3, <1>4, <1>5, SubsetInduction, Zenon
<1> QED BY <1>6, Zenon DEF P

\* SumFunctionOnSet with its definitions opened.
LEMMA Unfold ==
    ASSUME NEW f, NEW S
    PROVE  SumFunctionOnSet(f, S) =
        (CHOOSE it : it = [s \in SUBSET S |-> IF s = {} THEN 0 ELSE f[Pick(s)] + it[s \ {Pick(s)}]])[S]
BY DEF SumFunctionOnSet, FoldFunctionOnSet, MapThenFoldSet, Pick


\* It is that function which the sum applies.
LEMMA SumIsSumOn ==
    ASSUME NEW f, NEW S
    PROVE  SumFunctionOnSet(f, S) = SumOn(f, S)
BY Unfold, Zenon DEF SumOn, IsSum

-----------------------------------------------------------------------------
(* Sums.                                                                   *)

\* Nothing sums up to 0.
LEMMA SumEmpty == ASSUME NEW f PROVE SumFunctionOnSet(f, {}) = 0
<1>1. IsFiniteSet({})
  BY FS_EmptySet
<1>2. IsSum(f, {}, CHOOSE g : IsSum(f, {}, g))
  BY <1>1, SumExists, Zenon
<1>3. SumOn(f, {}) = 0
  BY <1>2, Zenon DEF SumOn, IsSum
<1> QED BY <1>3, SumIsSumOn

\* The equation of the fold.
LEMMA SumPicked ==
    ASSUME NEW f, NEW S, IsFiniteSet(S), S # {}
    PROVE  SumFunctionOnSet(f, S) = f[Pick(S)] + SumFunctionOnSet(f, S \ {Pick(S)})
<1> DEFINE g == CHOOSE k : IsSum(f, S, k)
           T == S \ {Pick(S)}
           h == CHOOSE k : IsSum(f, T, k)
<1>0. IsFiniteSet(T)
  BY FS_Subset, T \subseteq S
<1>1. IsSum(f, S, g)
  BY SumExists, Zenon
<1>2. IsSum(f, T, h)
  BY <1>0, SumExists, Zenon
<1>3. SumOn(f, S) = g[S] /\ SumOn(f, T) = h[T]
  BY Zenon DEF SumOn
<1> HIDE DEF g, h
<1>4. g[S] = f[Pick(S)] + g[T]
  BY <1>1, Zenon DEF IsSum
<1>5. g[T] = h[T]
  BY <1>0, <1>1, <1>2, SumsAgree
<1> QED BY <1>3, <1>4, <1>5, SumIsSumOn, Zenon

\* Sums of integers are integers.
LEMMA SumTyped ==
    ASSUME NEW f, NEW S, IsFiniteSet(S), \A x \in S : f[x] \in Int
    PROVE  \A T \in SUBSET S : SumFunctionOnSet(f, T) \in Int
<1> DEFINE P == {T \in SUBSET S : SumFunctionOnSet(f, T) \in Int}
<1>1. {} \in P
  BY SumEmpty
<1>2. ASSUME NEW T \in SUBSET S, T # {}, \A x \in T : T \ {x} \in P PROVE T \in P
  <2>1. Pick(T) \in T /\ IsFiniteSet(T)
    BY <1>2, Picked, FS_Subset
  <2>2. SumFunctionOnSet(f, T \ {Pick(T)}) \in Int
    BY <1>2, <2>1
  <2>3. SumFunctionOnSet(f, T) = f[Pick(T)] + SumFunctionOnSet(f, T \ {Pick(T)})
    BY <1>2, <2>1, SumPicked
  <2>4. f[Pick(T)] \in Int
    BY <2>1
  <2> QED BY <2>2, <2>3, <2>4
<1>3. P \in SUBSET (SUBSET S)
  OBVIOUS
<1> HIDE DEF P
<1>4. P = SUBSET S
  BY <1>1, <1>2, <1>3, SubsetInduction, Zenon
<1> QED BY <1>4 DEF P

\* Sums of naturals are naturals.
LEMMA SumNatural ==
    ASSUME NEW f, NEW S, IsFiniteSet(S), \A x \in S : f[x] \in Nat
    PROVE  SumFunctionOnSet(f, S) \in Nat
<1> DEFINE P == {T \in SUBSET S : SumFunctionOnSet(f, T) \in Nat}
<1>1. {} \in P
  BY SumEmpty
<1>2. ASSUME NEW T \in SUBSET S, T # {}, \A x \in T : T \ {x} \in P PROVE T \in P
  <2>1. Pick(T) \in T /\ IsFiniteSet(T)
    BY <1>2, Picked, FS_Subset
  <2>2. SumFunctionOnSet(f, T \ {Pick(T)}) \in Nat
    BY <1>2, <2>1
  <2>3. SumFunctionOnSet(f, T) = f[Pick(T)] + SumFunctionOnSet(f, T \ {Pick(T)})
    BY <1>2, <2>1, SumPicked
  <2>4. f[Pick(T)] \in Nat
    BY <2>1
  <2> QED BY <2>2, <2>3, <2>4
<1>3. P \in SUBSET (SUBSET S)
  OBVIOUS
<1> HIDE DEF P
<1>4. P = SUBSET S
  BY <1>1, <1>2, <1>3, SubsetInduction, Zenon
<1> QED BY <1>4, S \in SUBSET S DEF P

\* Any element may be taken out, not only the one the fold takes.
LEMMA SumWithout ==
    ASSUME NEW f, NEW S, IsFiniteSet(S), \A x \in S : f[x] \in Int
    PROVE  \A x \in S : SumFunctionOnSet(f, S) = f[x] + SumFunctionOnSet(f, S \ {x})
<1> DEFINE P == {T \in SUBSET S : \A x \in T : SumFunctionOnSet(f, T) = f[x] + SumFunctionOnSet(f, T \ {x})}
<1>1. {} \in P
  OBVIOUS
<1>2. ASSUME NEW T \in SUBSET S, T # {}, \A x \in T : T \ {x} \in P PROVE T \in P
  <2> SUFFICES ASSUME NEW x \in T
               PROVE  SumFunctionOnSet(f, T) = f[x] + SumFunctionOnSet(f, T \ {x})
    OBVIOUS
  <2> DEFINE p == Pick(T)
  <2>1. p \in T /\ IsFiniteSet(T) /\ IsFiniteSet(T \ {x})
    BY <1>2, Picked, FS_Subset
  <2>3. SumFunctionOnSet(f, T) = f[p] + SumFunctionOnSet(f, T \ {p})
    BY <1>2, <2>1, SumPicked
  <2>4. f[p] \in Int /\ f[x] \in Int
    BY <2>1
  <2> HIDE DEF p
  <2>5. CASE p = x
    BY <2>3, <2>5
  <2>6. CASE p # x
    <3>1. SumFunctionOnSet(f, T \ {p}) = f[x] + SumFunctionOnSet(f, (T \ {p}) \ {x})
      BY <1>2, <2>1, <2>6
    <3>2. SumFunctionOnSet(f, T \ {x}) = f[p] + SumFunctionOnSet(f, (T \ {x}) \ {p})
      BY <1>2, <2>1, <2>6
    <3>3. (T \ {x}) \ {p} = (T \ {p}) \ {x}
      OBVIOUS
    <3>4. SumFunctionOnSet(f, (T \ {x}) \ {p}) \in Int
      BY SumTyped, (T \ {x}) \ {p} \in SUBSET S
    <3>5. SumFunctionOnSet(f, T \ {x}) = f[p] + SumFunctionOnSet(f, (T \ {p}) \ {x})
      BY <3>2, <3>3, Zenon
    <3>6. SumFunctionOnSet(f, (T \ {p}) \ {x}) \in Int
      BY <3>3, <3>4, Zenon
    <3> QED BY <2>3, <2>4, <3>1, <3>5, <3>6
  <2> QED BY <2>5, <2>6
<1>3. P \in SUBSET (SUBSET S)
  OBVIOUS
<1> HIDE DEF P
<1>4. P = SUBSET S
  BY <1>1, <1>2, <1>3, SubsetInduction, Zenon
<1> QED BY <1>4, S \in SUBSET S DEF P

\* One element more.
LEMMA SumWith ==
    ASSUME NEW f, NEW S, NEW x, IsFiniteSet(S), x \notin S, f[x] \in Int, \A y \in S : f[y] \in Int
    PROVE  SumFunctionOnSet(f, S \cup {x}) = f[x] + SumFunctionOnSet(f, S)
<1>1. IsFiniteSet(S \cup {x})
  BY FS_AddElement
<1>2. (S \cup {x}) \ {x} = S /\ \A y \in S \cup {x} : f[y] \in Int
  OBVIOUS
<1>3. SumFunctionOnSet(f, S \cup {x}) = f[x] + SumFunctionOnSet(f, (S \cup {x}) \ {x})
  BY <1>1, <1>2, SumWithout, x \in S \cup {x}
<1> QED BY <1>2, <1>3

\* One element.
LEMMA SumOfOne ==
    ASSUME NEW f, NEW x, f[x] \in Int
    PROVE  SumFunctionOnSet(f, {x}) = f[x]
<1>1. SumFunctionOnSet(f, {} \cup {x}) = f[x] + SumFunctionOnSet(f, {})
  BY SumWith, FS_EmptySet
<1>2. {} \cup {x} = {x}
  OBVIOUS
<1> QED BY <1>1, <1>2, SumEmpty

\* Only the values on the set count.
LEMMA SumSameValues ==
    ASSUME NEW f, NEW g, NEW S, IsFiniteSet(S), \A x \in S : f[x] = g[x]
    PROVE  SumFunctionOnSet(f, S) = SumFunctionOnSet(g, S)
<1> DEFINE P == {T \in SUBSET S : SumFunctionOnSet(f, T) = SumFunctionOnSet(g, T)}
<1>1. {} \in P
  BY SumEmpty
<1>2. ASSUME NEW T \in SUBSET S, T # {}, \A x \in T : T \ {x} \in P PROVE T \in P
  <2>1. Pick(T) \in T /\ IsFiniteSet(T)
    BY <1>2, Picked, FS_Subset
  <2>2. SumFunctionOnSet(f, T \ {Pick(T)}) = SumFunctionOnSet(g, T \ {Pick(T)})
    BY <1>2, <2>1
  <2>3. /\ SumFunctionOnSet(f, T) = f[Pick(T)] + SumFunctionOnSet(f, T \ {Pick(T)})
        /\ SumFunctionOnSet(g, T) = g[Pick(T)] + SumFunctionOnSet(g, T \ {Pick(T)})
    BY <1>2, <2>1, SumPicked
  <2>4. f[Pick(T)] = g[Pick(T)]
    BY <2>1
  <2> QED BY <2>2, <2>3, <2>4
<1>3. P \in SUBSET (SUBSET S)
  OBVIOUS
<1> HIDE DEF P
<1>4. P = SUBSET S
  BY <1>1, <1>2, <1>3, SubsetInduction, Zenon
<1> QED BY <1>4, S \in SUBSET S DEF P

\* The sum over two sets without a common element.
LEMMA SumOfUnion ==
    ASSUME NEW f, NEW S, NEW U, IsFiniteSet(S), IsFiniteSet(U), S \cap U = {},
           \A x \in S \cup U : f[x] \in Int
    PROVE  SumFunctionOnSet(f, S \cup U) = SumFunctionOnSet(f, S) + SumFunctionOnSet(f, U)
<1> DEFINE P == {T \in SUBSET U :
                    SumFunctionOnSet(f, S \cup T) = SumFunctionOnSet(f, S) + SumFunctionOnSet(f, T)}
<1>0. /\ \A T \in SUBSET S : SumFunctionOnSet(f, T) \in Int
      /\ \A T \in SUBSET U : SumFunctionOnSet(f, T) \in Int
  BY SumTyped
<1>1. {} \in P
  <2>1. S \cup {} = S
    OBVIOUS
  <2> QED BY <1>0, <2>1, SumEmpty, S \in SUBSET S
<1>2. ASSUME NEW T \in SUBSET U, T # {}, \A x \in T : T \ {x} \in P PROVE T \in P
  <2>0. PICK x \in T : TRUE
    BY <1>2
  <2> DEFINE W == T \ {x}
  <2>1. IsFiniteSet(T) /\ IsFiniteSet(W) /\ IsFiniteSet(S \cup W)
    BY FS_Subset, FS_Union, W \subseteq U
  <2>2. SumFunctionOnSet(f, S \cup W) = SumFunctionOnSet(f, S) + SumFunctionOnSet(f, W)
    BY <1>2, <2>0
  <2>3. S \cup T = (S \cup W) \cup {x} /\ x \notin S \cup W /\ T = W \cup {x} /\ x \notin W
    BY <2>0
  <2>4. f[x] \in Int /\ \A y \in S \cup W : f[y] \in Int
    BY <2>0
  <2>5. W \in SUBSET U
    OBVIOUS
  <2> HIDE DEF W
  <2>6. SumFunctionOnSet(f, (S \cup W) \cup {x}) = f[x] + SumFunctionOnSet(f, S \cup W)
    BY <2>1, <2>3, <2>4, SumWith
  <2>7. SumFunctionOnSet(f, W \cup {x}) = f[x] + SumFunctionOnSet(f, W)
    BY <2>1, <2>3, <2>4, SumWith
  <2>8. SumFunctionOnSet(f, S) \in Int /\ SumFunctionOnSet(f, W) \in Int
    BY <1>0, <2>5, S \in SUBSET S
  <2>9. SumFunctionOnSet(f, S \cup T) = f[x] + SumFunctionOnSet(f, S \cup W)
    BY <2>3, <2>6, Zenon
  <2>10. SumFunctionOnSet(f, T) = f[x] + SumFunctionOnSet(f, W)
    BY <2>3, <2>7, Zenon
  <2>11. SumFunctionOnSet(f, S \cup T) = SumFunctionOnSet(f, S) + SumFunctionOnSet(f, T)
    BY <2>2, <2>4, <2>8, <2>9, <2>10
  <2> QED BY <2>11, Zenon
<1>3. P \in SUBSET (SUBSET U)
  OBVIOUS
<1> HIDE DEF P
<1>4. P = SUBSET U
  BY <1>1, <1>2, <1>3, SubsetInduction, Zenon
<1> QED BY <1>4, U \in SUBSET U DEF P

-----------------------------------------------------------------------------
(* Sequences.                                                              *)

IsSeq(s) == \E S : s \in Seq(S)

LEMMA TypedIsSeq == ASSUME NEW V, NEW s \in Seq(V) PROVE IsSeq(s)
BY Zenon DEF IsSeq

LEMMA SeqProps ==
    ASSUME NEW s, IsSeq(s)
    PROVE  /\ Len(s) \in Nat /\ DOMAIN s = 1 .. Len(s)
           /\ s = [i \in 1 .. Len(s) |-> s[i]]
<1>1. PICK S : s \in Seq(S)
  BY DEF IsSeq
<1>2. s \in [1 .. Len(s) -> S] /\ Len(s) \in Nat /\ DOMAIN s = 1 .. Len(s)
  BY <1>1, LenProperties
<1> QED BY <1>2

\* A function on 1 .. n is a sequence.
LEMMA TableIsSeq ==
    ASSUME NEW n \in Nat, NEW s, s = [i \in 1 .. n |-> s[i]]
    PROVE  IsSeq(s) /\ Len(s) = n /\ s \in Seq({s[i] : i \in 1 .. n})
<1> DEFINE S == {s[i] : i \in 1 .. n}
<1>1. s \in [1 .. n -> S]
  BY Zenon
<1>2. s \in Seq(S)
  BY <1>1, SeqDef, Zenon
<1> HIDE DEF S
<1>3. Len(s) = n
  <2>1. Len(s) \in Nat /\ DOMAIN s = 1 .. Len(s)
    BY <1>2, LenProperties
  <2>2. 1 .. Len(s) = 1 .. n
    BY <1>1, <2>1
  <2>3. Len(s) \in 1 .. n \/ Len(s) = 0
    BY <2>1, <2>2
  <2>4. n \in 1 .. Len(s) \/ n = 0
    BY <2>1, <2>2
  <2>5. Len(s) <= n
    BY <2>1, <2>3
  <2> QED BY <2>1, <2>4, <2>5
<1> QED BY <1>2, <1>3 DEF IsSeq, S

LEMMA SeqPair ==
    ASSUME NEW s, NEW t, IsSeq(s), IsSeq(t)
    PROVE  \E S : s \in Seq(S) /\ t \in Seq(S)
<1>1. PICK S : s \in Seq(S)
  BY DEF IsSeq
<1>2. PICK T : t \in Seq(T)
  BY DEF IsSeq
<1>3. s \in Seq(S \cup T)
  <2>1. S \subseteq S \cup T
    OBVIOUS
  <2> QED BY <1>1, <2>1, SeqMonotonic
<1>4. t \in Seq(S \cup T)
  <2>1. T \subseteq S \cup T
    OBVIOUS
  <2> QED BY <1>2, <2>1, SeqMonotonic
<1> QED BY <1>3, <1>4

LEMMA SeqTriple ==
    ASSUME NEW s, NEW t, NEW u, IsSeq(s), IsSeq(t), IsSeq(u)
    PROVE  \E S : s \in Seq(S) /\ t \in Seq(S) /\ u \in Seq(S)
<1>1. PICK S : s \in Seq(S) /\ t \in Seq(S)
  BY SeqPair
<1>2. PICK T : u \in Seq(T)
  BY DEF IsSeq
<1>3. s \in Seq(S \cup T) /\ t \in Seq(S \cup T)
  <2>1. S \subseteq S \cup T
    OBVIOUS
  <2> QED BY <1>1, <2>1, SeqMonotonic
<1>4. u \in Seq(S \cup T)
  <2>1. T \subseteq S \cup T
    OBVIOUS
  <2> QED BY <1>2, <2>1, SeqMonotonic
<1> QED BY <1>3, <1>4

LEMMA SameSeq ==
    ASSUME NEW s, NEW t, IsSeq(s), IsSeq(t), Len(s) = Len(t),
           \A i \in 1 .. Len(s) : s[i] = t[i]
    PROVE  s = t
<1>1. PICK S : s \in Seq(S) /\ t \in Seq(S)
  BY SeqPair
<1> QED BY <1>1, SeqEqual

LEMMA EmptyIsSeq == IsSeq(<< >>) /\ Len(<< >>) = 0 /\ DOMAIN << >> = {}
<1>1. << >> \in Seq({})
  OBVIOUS
<1> QED BY <1>1 DEF IsSeq

LEMMA EmptyLen == ASSUME NEW s, IsSeq(s) PROVE s = << >> <=> Len(s) = 0
<1>1. Len(s) = 0 => s = << >>
  <2> SUFFICES ASSUME Len(s) = 0 PROVE s = << >>
    OBVIOUS
  <2>1. \A i \in 1 .. Len(s) : s[i] = << >>[i]
    OBVIOUS
  <2> QED BY <2>1, SameSeq, EmptyIsSeq
<1> QED BY <1>1

LEMMA OneIsSeq == ASSUME NEW x PROVE IsSeq(<<x>>) /\ Len(<<x>>) = 1 /\ <<x>>[1] = x
<1>1. <<x>> \in Seq({x})
  OBVIOUS
<1> QED BY <1>1 DEF IsSeq

LEMMA ConcatSeq ==
    ASSUME NEW s, NEW t, IsSeq(s), IsSeq(t)
    PROVE  /\ IsSeq(s \o t) /\ Len(s \o t) = Len(s) + Len(t)
           /\ \A i \in 1 .. Len(s) : (s \o t)[i] = s[i]
           /\ \A i \in 1 .. Len(t) : (s \o t)[Len(s) + i] = t[i]
<1>1. PICK S : s \in Seq(S) /\ t \in Seq(S)
  BY SeqPair
<1>2. /\ s \o t \in Seq(S) /\ Len(s \o t) = Len(s) + Len(t)
      /\ \A i \in 1 .. Len(s) + Len(t) : (s \o t)[i] = IF i <= Len(s) THEN s[i] ELSE t[i - Len(s)]
  BY <1>1, ConcatProperties
<1>3. Len(s) \in Nat /\ Len(t) \in Nat
  BY SeqProps
<1>4. \A i \in 1 .. Len(s) : (s \o t)[i] = s[i]
  BY <1>2, <1>3
<1>5. ASSUME NEW i \in 1 .. Len(t) PROVE (s \o t)[Len(s) + i] = t[i]
  <2>1. Len(s) + i \in 1 .. Len(s) + Len(t) /\ ~(Len(s) + i <= Len(s)) /\ (Len(s) + i) - Len(s) = i
    BY <1>3
  <2> QED BY <1>2, <2>1
<1> QED BY <1>2, <1>4, <1>5 DEF IsSeq

LEMMA ConcatEmpty == ASSUME NEW s, IsSeq(s) PROVE s \o << >> = s /\ << >> \o s = s
BY ConcatEmptySeq DEF IsSeq

LEMMA ConcatAssoc ==
    ASSUME NEW s, NEW t, NEW u, IsSeq(s), IsSeq(t), IsSeq(u)
    PROVE  (s \o t) \o u = s \o (t \o u)
<1>1. PICK S : s \in Seq(S) /\ t \in Seq(S) /\ u \in Seq(S)
  BY SeqTriple
<1> QED BY <1>1, ConcatAssociative

LEMMA AppendSeq ==
    ASSUME NEW s, NEW x, IsSeq(s)
    PROVE  /\ Append(s, x) = s \o <<x>> /\ IsSeq(Append(s, x)) /\ Len(Append(s, x)) = Len(s) + 1
           /\ \A i \in 1 .. Len(s) : Append(s, x)[i] = s[i]
           /\ Append(s, x)[Len(s) + 1] = x
<1>1. PICK S : s \in Seq(S)
  BY DEF IsSeq
<1>2. s \in Seq(S \cup {x})
  <2>1. S \subseteq S \cup {x}
    OBVIOUS
  <2> QED BY <1>1, <2>1, SeqMonotonic
<1>3. Append(s, x) = s \o <<x>>
  <2>1. x \in S \cup {x}
    OBVIOUS
  <2> QED BY <1>2, <2>1, AppendIsConcat
<1>4. IsSeq(<<x>>) /\ Len(<<x>>) = 1 /\ <<x>>[1] = x
  BY OneIsSeq
<1>5. 1 \in 1 .. 1
  OBVIOUS
<1>6. IsSeq(s \o <<x>>) /\ Len(s \o <<x>>) = Len(s) + Len(<<x>>)
  BY <1>4, ConcatSeq
<1>7. \A i \in 1 .. Len(s) : (s \o <<x>>)[i] = s[i]
  BY <1>4, ConcatSeq
<1>8. \A i \in 1 .. Len(<<x>>) : (s \o <<x>>)[Len(s) + i] = <<x>>[i]
  BY <1>4, ConcatSeq
<1>9. (s \o <<x>>)[Len(s) + 1] = x
  BY <1>4, <1>5, <1>8
<1> QED BY <1>3, <1>4, <1>6, <1>7, <1>9

\* The same of a list that is known to be the longer one.
OneMore(a, s, x) == a = Append(s, x)
OneLonger(a, s, x) ==
    /\ IsSeq(a) /\ Len(a) = Len(s) + 1 /\ a[Len(s) + 1] = x
    /\ \A i \in 1 .. Len(s) : a[i] = s[i]

LEMMA Appended == ASSUME NEW s, NEW x, IsSeq(s), NEW a, OneMore(a, s, x) PROVE OneLonger(a, s, x)
BY AppendSeq, Zenon DEF OneMore, OneLonger

\* What a prefix is.
LEMMA PrefixSeq ==
    ASSUME NEW s, IsSeq(s), NEW n \in 0 .. Len(s)
    PROVE  /\ IsSeq(SubSeq(s, 1, n)) /\ Len(SubSeq(s, 1, n)) = n
           /\ \A i \in 1 .. n : SubSeq(s, 1, n)[i] = s[i]
<1>1. PICK S : s \in Seq(S)
  BY DEF IsSeq
<1>2. \A i \in 1 .. n : s[i] \in S
  <2>1. Len(s) \in Nat
    BY SeqProps
  <2>2. \A i \in 1 .. n : i \in 1 .. Len(s)
    BY <2>1
  <2> QED BY <1>1, <2>2, ElementOfSeq
<1>3. 1 \in Int /\ n \in Int /\ n - 1 + 1 = n /\ (n < 1 => n = 0)
  <2>1. Len(s) \in Nat
    BY SeqProps
  <2> QED BY <2>1
<1>4. /\ SubSeq(s, 1, n) \in Seq(S)
      /\ Len(SubSeq(s, 1, n)) = IF 1 <= n THEN n - 1 + 1 ELSE 0
      /\ \A i \in 1 .. n - 1 + 1 : SubSeq(s, 1, n)[i] = s[1 + i - 1]
  BY <1>2, <1>3, SubSeqProperties
<1>5. \A i \in 1 .. n : SubSeq(s, 1, n)[i] = s[i]
  <2>1. \A i \in 1 .. n : 1 + i - 1 = i
    OBVIOUS
  <2> QED BY <1>3, <1>4, <2>1
<1>6. IsSeq(SubSeq(s, 1, n))
  BY <1>4 DEF IsSeq
<1>7. Len(SubSeq(s, 1, n)) = n
  BY <1>3, <1>4
<1> QED BY <1>5, <1>6, <1>7

\* What any stretch is.
LEMMA StretchSeq ==
    ASSUME NEW s, IsSeq(s), NEW m \in 1 .. Len(s) + 1, NEW n \in 0 .. Len(s), m <= n + 1
    PROVE  /\ IsSeq(SubSeq(s, m, n)) /\ Len(SubSeq(s, m, n)) = n - m + 1
           /\ \A i \in 1 .. n - m + 1 : SubSeq(s, m, n)[i] = s[m + i - 1]
<1>1. PICK S : s \in Seq(S)
  BY DEF IsSeq
<1>2. Len(s) \in Nat
  BY SeqProps
<1>3. \A i \in m .. n : s[i] \in S
  <2>2. \A i \in m .. n : i \in 1 .. Len(s)
    BY <1>2
  <2> QED BY <1>1, <2>2, ElementOfSeq
<1>4. m \in Int /\ n \in Int
  BY <1>2
<1>5. /\ SubSeq(s, m, n) \in Seq(S)
      /\ Len(SubSeq(s, m, n)) = IF m <= n THEN n - m + 1 ELSE 0
      /\ \A i \in 1 .. n - m + 1 : SubSeq(s, m, n)[i] = s[m + i - 1]
  BY <1>3, <1>4, SubSeqProperties
<1>6. ~(m <= n) => n - m + 1 = 0
  BY <1>4
<1> QED BY <1>5, <1>6 DEF IsSeq

\* The front and the back of a concatenation.
LEMMA FrontBack ==
    ASSUME NEW s, NEW t, IsSeq(s), IsSeq(t)
    PROVE  /\ SubSeq(s \o t, 1, Len(s)) = s
           /\ SubSeq(s \o t, Len(s) + 1, Len(s) + Len(t)) = t
<1> DEFINE st == s \o t
<1>1. Len(s) \in Nat /\ Len(t) \in Nat
  BY SeqProps
<1>2. IsSeq(st) /\ Len(st) = Len(s) + Len(t)
  BY ConcatSeq
<1>3. \A i \in 1 .. Len(s) : st[i] = s[i]
  BY ConcatSeq
<1>4. \A i \in 1 .. Len(t) : st[Len(s) + i] = t[i]
  BY ConcatSeq
<1> HIDE DEF st
<1>5. SubSeq(st, 1, Len(s)) = s
  <2>1. Len(s) \in 0 .. Len(st)
    BY <1>1, <1>2
  <2>2. /\ IsSeq(SubSeq(st, 1, Len(s))) /\ Len(SubSeq(st, 1, Len(s))) = Len(s)
        /\ \A i \in 1 .. Len(s) : SubSeq(st, 1, Len(s))[i] = st[i]
    BY <1>2, <2>1, PrefixSeq
  <2>3. \A i \in 1 .. Len(s) : SubSeq(st, 1, Len(s))[i] = s[i]
    BY <1>3, <2>2
  <2> HIDE DEF st
  <2> QED BY <2>2, <2>3, SameSeq
<1>6. SubSeq(st, Len(s) + 1, Len(s) + Len(t)) = t
  <2> DEFINE m == Len(s) + 1  n == Len(s) + Len(t)
  <2>1. m \in 1 .. Len(st) + 1 /\ n \in 0 .. Len(st) /\ m <= n + 1 /\ n - m + 1 = Len(t)
    BY <1>1, <1>2
  <2>2. \A i \in 1 .. Len(t) : m + i - 1 = Len(s) + i
    BY <1>1
  <2> HIDE DEF m, n
  <2>3. /\ IsSeq(SubSeq(st, m, n)) /\ Len(SubSeq(st, m, n)) = n - m + 1
        /\ \A i \in 1 .. n - m + 1 : SubSeq(st, m, n)[i] = st[m + i - 1]
    BY <1>2, <2>1, StretchSeq
  <2>4. \A i \in 1 .. Len(SubSeq(st, m, n)) : SubSeq(st, m, n)[i] = t[i]
    BY <1>4, <2>1, <2>2, <2>3
  <2>5. SubSeq(st, m, n) = t
    BY <2>1, <2>3, <2>4, SameSeq
  <2> QED BY <2>5 DEF m, n
<1> QED BY <1>5, <1>6 DEF st

LEMMA TailOfOne ==
    ASSUME NEW x, NEW s, IsSeq(s)
    PROVE  Tail(<<x>> \o s) = s
<1>1. IsSeq(<<x>>) /\ Len(<<x>>) = 1
  BY OneIsSeq
<1>2. PICK S : <<x>> \o s \in Seq(S)
  BY <1>1, ConcatSeq DEF IsSeq
<1>3. Len(<<x>> \o s) = 1 + Len(s) /\ Len(s) \in Nat
  BY <1>1, ConcatSeq, SeqProps
<1>4. <<x>> \o s # << >>
  <2>1. 1 + Len(s) # 0
    BY <1>3
  <2> QED BY <1>3, <2>1, EmptyIsSeq
<1>5. Tail(<<x>> \o s) = SubSeq(<<x>> \o s, 2, Len(<<x>> \o s))
  BY <1>2, <1>4, TailIsSubSeq
<1>6. SubSeq(<<x>> \o s, Len(<<x>>) + 1, Len(<<x>>) + Len(s)) = s
  BY <1>1, FrontBack
<1>7. 1 + 1 = 2
  OBVIOUS
<1> QED BY <1>1, <1>3, <1>5, <1>6, <1>7

-----------------------------------------------------------------------------
(* Flattening.                                                             *)

IsSeqOfSeqs(ps) == IsSeq(ps) /\ \A i \in 1 .. Len(ps) : IsSeq(ps[i])

Flattened(ps, n, f) == f = [i \in 1 .. n |-> IF i = 1 THEN ps[i] ELSE f[i - 1] \o ps[i]]

LEMMA FlattenedExists == ASSUME NEW ps, NEW n \in Nat PROVE \E f : Flattened(ps, n, f)
<1> DEFINE T == {m \in Nat : \E f : Flattened(ps, m, f)}
<1>1. 0 \in T
  <2>1. 1 .. 0 = {}
    OBVIOUS
  <2>2. Flattened(ps, 0, [i \in 1 .. 0 |-> 0])
    BY <2>1 DEF Flattened
  <2> QED BY <2>2
<1>2. ASSUME NEW m \in T PROVE m + 1 \in T
  <2>1. PICK f : Flattened(ps, m, f)
    OBVIOUS
  <2> DEFINE g == [i \in 1 .. m + 1 |-> IF i = 1 THEN ps[i] ELSE f[i - 1] \o ps[i]]
  <2>2. m \in Nat
    OBVIOUS
  <2>3. ASSUME NEW i \in 1 .. m + 1, i # 1 PROVE g[i - 1] = f[i - 1]
    <3>1. i - 1 \in 1 .. m /\ i - 1 \in 1 .. m + 1
      BY <2>2, <2>3
    <3>2. f[i - 1] = IF i - 1 = 1 THEN ps[i - 1] ELSE f[i - 1 - 1] \o ps[i - 1]
      BY <2>1, <3>1, Zenon DEF Flattened
    <3>3. g[i - 1] = IF i - 1 = 1 THEN ps[i - 1] ELSE f[i - 1 - 1] \o ps[i - 1]
      BY <3>1, Zenon
    <3> QED BY <3>2, <3>3
  <2>4. g = [i \in 1 .. m + 1 |-> IF i = 1 THEN ps[i] ELSE g[i - 1] \o ps[i]]
    <3> DEFINE h == [i \in 1 .. m + 1 |-> IF i = 1 THEN ps[i] ELSE g[i - 1] \o ps[i]]
    <3>1. \A i \in 1 .. m + 1 : g[i] = IF i = 1 THEN ps[i] ELSE f[i - 1] \o ps[i]
      BY Zenon
    <3>2. \A i \in 1 .. m + 1 : h[i] = IF i = 1 THEN ps[i] ELSE g[i - 1] \o ps[i]
      BY Zenon
    <3>5. g = [i \in 1 .. m + 1 |-> g[i]]
      BY Zenon
    <3> HIDE DEF g
    <3>6. h = [i \in 1 .. m + 1 |-> h[i]]
      BY Zenon
    <3> HIDE DEF h
    <3>3. \A i \in 1 .. m + 1 : g[i] = h[i]
      BY <2>3, <3>1, <3>2, Zenon
    <3>4. g = h
      BY <3>3, <3>5, <3>6, Zenon
    <3> QED BY <3>4 DEF h
  <2>5. Flattened(ps, m + 1, g)
    BY <2>4, Zenon DEF Flattened
  <2> QED BY <2>2, <2>5
<1>3. T \in SUBSET Nat
  OBVIOUS
<1> HIDE DEF T
<1>4. T = Nat
  BY <1>1, <1>2, <1>3, NatInductionOnSet
<1>5. n \in T
  BY <1>4
<1> QED BY <1>5 DEF T

LEMMA FlattenUnfolds ==
    ASSUME NEW ps, Len(ps) \in Nat, Len(ps) # 0
    PROVE  \E f : Flattened(ps, Len(ps), f) /\ FlattenSeq(ps) = f[Len(ps)]
<1> DEFINE F == CHOOSE f : f = [i \in 1 .. Len(ps) |-> IF i = 1 THEN ps[i] ELSE f[i - 1] \o ps[i]]
<1>1. \E f : Flattened(ps, Len(ps), f)
  BY FlattenedExists, Zenon
<1>2. F = [i \in 1 .. Len(ps) |-> IF i = 1 THEN ps[i] ELSE F[i - 1] \o ps[i]]
  BY <1>1, Zenon DEF Flattened
<1>3. FlattenSeq(ps) = F[Len(ps)]
  BY Zenon DEF FlattenSeq
<1> HIDE DEF F
<1> QED BY <1>2, <1>3, Zenon DEF Flattened

LEMMA FlattenEmpty == FlattenSeq(<< >>) = << >>
BY DEF FlattenSeq

\* The partial results, and that they do not depend on what comes after.
LEMMA FlattenedFirst ==
    ASSUME NEW ps, NEW n, NEW f, n \in Nat, n > 0, Flattened(ps, n, f)
    PROVE  f[1] = ps[1]
<1>1. \A i \in 1 .. n : f[i] = IF i = 1 THEN ps[i] ELSE f[i - 1] \o ps[i]
  BY Zenon DEF Flattened
<1> QED BY <1>1

NextPart(ps, f, i) == f[i + 1] = f[i] \o ps[i + 1]

LEMMA FlattenedNext ==
    ASSUME NEW ps, NEW n, NEW f, NEW i, n \in Nat, i \in 1 .. n - 1, Flattened(ps, n, f)
    PROVE  NextPart(ps, f, i)
<1>1. \A j \in 1 .. n : f[j] = IF j = 1 THEN ps[j] ELSE f[j - 1] \o ps[j]
  BY Zenon DEF Flattened
<1> DEFINE j == i + 1
<1>2. j \in 1 .. n /\ j # 1 /\ j - 1 = i
  OBVIOUS
<1> HIDE DEF j
<1>3. f[j] = f[j - 1] \o ps[j]
  BY <1>1, <1>2, Zenon
<1> QED BY <1>2, <1>3, Zenon DEF j, NextPart

LEMMA FlattenedAgree ==
    ASSUME NEW ps, NEW qs, NEW m \in Nat, NEW n \in Nat, NEW f, NEW g,
           Flattened(ps, m, f), Flattened(qs, n, g), m <= n,
           \A i \in 1 .. m : ps[i] = qs[i]
    PROVE  \A i \in 1 .. m : f[i] = g[i]
<1> DEFINE T == {k \in Nat : k + 1 \in 1 .. m => f[k + 1] = g[k + 1]}
<1>1. 0 \in T
  <2> SUFFICES ASSUME 1 \in 1 .. m PROVE f[1] = g[1]
    OBVIOUS
  <2>1. m > 0 /\ n > 0
    OBVIOUS
  <2>2. f[1] = ps[1]
    BY <2>1, FlattenedFirst, Zenon
  <2>3. g[1] = qs[1]
    BY <2>1, FlattenedFirst, Zenon
  <2> QED BY <2>2, <2>3
<1>2. ASSUME NEW k \in T PROVE k + 1 \in T
  <2>1. k \in Nat
    OBVIOUS
  <2> SUFFICES ASSUME k + 1 + 1 \in 1 .. m PROVE f[k + 1 + 1] = g[k + 1 + 1]
    BY <2>1
  <2> DEFINE j == k + 1
  <2>2. j \in 1 .. m /\ j \in 1 .. m - 1 /\ j \in 1 .. n - 1
    BY <2>1
  <2>5. f[j] = g[j]
    BY <2>2
  <2> HIDE DEF j
  <2>3. NextPart(ps, f, j)
    BY <2>2, FlattenedNext
  <2>4. NextPart(qs, g, j)
    BY <2>2, FlattenedNext
  <2>6. j + 1 \in 1 .. m
    BY <2>2
  <2>7. f[j + 1] = g[j + 1]
    BY <2>3, <2>4, <2>5, <2>6 DEF NextPart
  <2> QED BY <2>7 DEF j
<1>3. T \in SUBSET Nat
  OBVIOUS
<1> HIDE DEF T
<1>4. T = Nat
  BY <1>1, <1>2, <1>3, NatInductionOnSet
<1>5. ASSUME NEW i \in 1 .. m PROVE f[i] = g[i]
  <2>1. i - 1 \in T /\ i - 1 + 1 = i
    BY <1>4
  <2>2. i - 1 + 1 \in 1 .. m => f[i - 1 + 1] = g[i - 1 + 1]
    BY <2>1 DEF T
  <2> QED BY <2>1, <2>2
<1> QED BY <1>5

LEMMA FlattenOne == ASSUME NEW p PROVE FlattenSeq(<<p>>) = p
<1>1. Len(<<p>>) = 1 /\ <<p>>[1] = p
  BY OneIsSeq
<1> DEFINE ps == <<p>>
<1> HIDE DEF ps
<1>2. PICK f : Flattened(ps, Len(ps), f) /\ FlattenSeq(ps) = f[Len(ps)]
  <2>1. Len(ps) \in Nat /\ Len(ps) # 0
    BY <1>1 DEF ps
  <2> QED BY <2>1, FlattenUnfolds
<1>3. f[1] = ps[1]
  <2>1. Flattened(ps, 1, f) /\ 1 \in Nat /\ 1 > 0
    BY <1>1, <1>2 DEF ps
  <2> QED BY <2>1, FlattenedFirst
<1> QED BY <1>1, <1>2, <1>3 DEF ps

LEMMA FlattenAppend ==
    ASSUME NEW ps, NEW p, IsSeq(ps), IsSeq(p)
    PROVE  FlattenSeq(Append(ps, p)) = FlattenSeq(ps) \o p
<1> DEFINE qs == Append(ps, p)
           n  == Len(ps)
<1>1. /\ n \in Nat /\ IsSeq(qs) /\ Len(qs) = n + 1 /\ qs[n + 1] = p
      /\ \A i \in 1 .. n : qs[i] = ps[i]
  <2>0. IsSeq(ps)
    OBVIOUS
  <2>1. n \in Nat /\ n = Len(ps)
    BY SeqProps
  <2>2. OneMore(qs, ps, p)
    BY DEF OneMore
  <2> HIDE DEF qs, n
  <2>3. OneLonger(qs, ps, p)
    BY <2>0, <2>2, Appended
  <2> QED BY <2>1, <2>3 DEF OneLonger
<1> HIDE DEF qs
<1>2. PICK g : Flattened(qs, n + 1, g) /\ FlattenSeq(qs) = g[n + 1]
  <2>1. Len(qs) \in Nat /\ Len(qs) # 0
    BY <1>1
  <2> QED BY <1>1, <2>1, FlattenUnfolds
<1>3. CASE n = 0
  <2>1. FlattenSeq(qs) = p
    <3>1. g[1] = qs[1]
      <4>1. n + 1 \in Nat /\ n + 1 > 0
        BY <1>1
      <4> QED BY <1>2, <4>1, FlattenedFirst
    <3> QED BY <1>1, <1>2, <1>3, <3>1
  <2>2. ps = << >>
    BY <1>3, EmptyLen
  <2> QED BY <2>1, <2>2, FlattenEmpty, ConcatEmpty DEF qs
<1>4. CASE n # 0
  <2>1. PICK f : Flattened(ps, n, f) /\ FlattenSeq(ps) = f[n]
    BY <1>1, <1>4, FlattenUnfolds
  <2>2. n \in 1 .. n /\ n \in 1 .. (n + 1) - 1 /\ n <= n + 1 /\ n + 1 \in Nat
    BY <1>1, <1>4
  <2>3. \A i \in 1 .. n : f[i] = g[i]
    <3>1. \A i \in 1 .. n : ps[i] = qs[i]
      BY <1>1
    <3> HIDE DEF n
    <3> QED BY <1>1, <1>2, <2>1, <2>2, <3>1, FlattenedAgree
  <2>4. g[n + 1] = g[n] \o qs[n + 1]
    <3> DEFINE k == n + 1
    <3>1. k \in Nat /\ n \in 1 .. k - 1 /\ Flattened(qs, k, g)
      BY <1>1, <1>2, <2>2
    <3> HIDE DEF k
    <3>2. NextPart(qs, g, n)
      BY <3>1, FlattenedNext
    <3> QED BY <3>2 DEF NextPart
  <2> QED BY <1>1, <1>2, <2>1, <2>2, <2>3, <2>4 DEF qs
<1> QED BY <1>3, <1>4

LEMMA SeqsAppend ==
    ASSUME NEW ps, NEW p, IsSeqOfSeqs(ps), IsSeq(p)
    PROVE  IsSeqOfSeqs(Append(ps, p))
<1>0. IsSeq(ps)
  BY DEF IsSeqOfSeqs
<1>1. /\ IsSeq(Append(ps, p)) /\ Len(Append(ps, p)) = Len(ps) + 1 /\ Append(ps, p)[Len(ps) + 1] = p
      /\ \A i \in 1 .. Len(ps) : Append(ps, p)[i] = ps[i]
  <2> DEFINE a == Append(ps, p)
  <2>0. a = Append(ps, p)
    OBVIOUS
  <2>1. OneMore(a, ps, p)
    BY DEF OneMore
  <2> HIDE DEF a
  <2>2. OneLonger(a, ps, p)
    BY <1>0, <2>1, Appended
  <2> QED BY <2>0, <2>2, Zenon DEF OneLonger
<1>2. Len(ps) \in Nat
  BY SeqProps DEF IsSeqOfSeqs
<1>3. ASSUME NEW i \in 1 .. Len(Append(ps, p)) PROVE IsSeq(Append(ps, p)[i])
  <2>1. i \in 1 .. Len(ps) \/ i = Len(ps) + 1
    BY <1>1, <1>2
  <2> QED BY <1>1, <2>1 DEF IsSeqOfSeqs
<1> QED BY <1>1, <1>3 DEF IsSeqOfSeqs

\* A sequence of sequences is empty or one more than another.
LEMMA SeqsFront ==
    ASSUME NEW ps, IsSeqOfSeqs(ps), NEW n \in Nat, Len(ps) = n + 1
    PROVE  \E qs, q : IsSeqOfSeqs(qs) /\ IsSeq(q) /\ Len(qs) = n /\ ps = Append(qs, q)
<1> DEFINE qs == SubSeq(ps, 1, n)
<1>1. IsSeq(ps) /\ n \in 0 .. Len(ps) /\ n + 1 \in 1 .. Len(ps)
  BY DEF IsSeqOfSeqs
<1>2. IsSeq(qs) /\ Len(qs) = n /\ \A i \in 1 .. n : qs[i] = ps[i]
  BY <1>1, PrefixSeq
<1> HIDE DEF qs
<1>3. IsSeq(ps[n + 1])
  BY <1>1 DEF IsSeqOfSeqs
<1>4. IsSeqOfSeqs(qs)
  <2>1. \A i \in 1 .. Len(qs) : i \in 1 .. Len(ps) /\ qs[i] = ps[i]
    BY <1>2
  <2> QED BY <1>2, <2>1 DEF IsSeqOfSeqs
<1>5. ps = Append(qs, ps[n + 1])
  <2> DEFINE q == ps[n + 1]
             a == Append(qs, q)
  <2>0. IsSeq(qs) /\ Len(qs) = n /\ q = ps[n + 1]
    BY <1>2
  <2>4. OneMore(a, qs, q)
    BY DEF OneMore
  <2> HIDE DEF a, q
  <2>1. /\ IsSeq(a) /\ Len(a) = n + 1 /\ a[n + 1] = q
        /\ \A i \in 1 .. n : a[i] = qs[i]
    <3>1. OneLonger(a, qs, q)
      BY <2>0, <2>4, Appended
    <3> QED BY <2>0, <3>1 DEF OneLonger
  <2>2. ASSUME NEW i \in 1 .. Len(ps) PROVE ps[i] = a[i]
    <3>1. i \in 1 .. n \/ i = n + 1
      OBVIOUS
    <3> QED BY <1>2, <2>0, <2>1, <3>1
  <2>3. ps = a
    BY <1>1, <2>1, <2>2, SameSeq
  <2> QED BY <2>3 DEF a, q
<1> QED BY <1>2, <1>3, <1>4, <1>5

LEMMA SeqsEmpty == ASSUME NEW ps, IsSeqOfSeqs(ps), Len(ps) = 0 PROVE ps = << >>
BY EmptyLen DEF IsSeqOfSeqs

LEMMA NoSeqs == IsSeqOfSeqs(<< >>)
BY EmptyIsSeq DEF IsSeqOfSeqs

LEMMA SeqsConcat ==
    ASSUME NEW ps, NEW qs, IsSeqOfSeqs(ps), IsSeqOfSeqs(qs)
    PROVE  IsSeqOfSeqs(ps \o qs)
<1> DEFINE r == ps \o qs
<1>1. /\ IsSeq(r) /\ Len(r) = Len(ps) + Len(qs)
      /\ \A i \in 1 .. Len(ps) : r[i] = ps[i]
  BY ConcatSeq DEF IsSeqOfSeqs
<1>2. \A i \in 1 .. Len(qs) : r[Len(ps) + i] = qs[i]
  BY ConcatSeq DEF IsSeqOfSeqs
<1> HIDE DEF r
<1>3. Len(ps) \in Nat /\ Len(qs) \in Nat
  BY SeqProps DEF IsSeqOfSeqs
<1>4. ASSUME NEW i \in 1 .. Len(r) PROVE IsSeq(r[i])
  <2>1. CASE i \in 1 .. Len(ps)
    BY <1>1, <2>1 DEF IsSeqOfSeqs
  <2>2. CASE i \notin 1 .. Len(ps)
    <3>1. i - Len(ps) \in 1 .. Len(qs) /\ Len(ps) + (i - Len(ps)) = i
      BY <1>1, <1>3, <2>2
    <3>2. r[Len(ps) + (i - Len(ps))] = qs[i - Len(ps)]
      BY <1>2, <3>1, Zenon
    <3>3. IsSeq(qs[i - Len(ps)])
      BY <3>1 DEF IsSeqOfSeqs
    <3> QED BY <3>1, <3>2, <3>3
  <2> QED BY <2>1, <2>2
<1>5. IsSeqOfSeqs(r)
  BY <1>1, <1>4 DEF IsSeqOfSeqs
<1> QED BY <1>5 DEF r

\* What can be said by induction of every sequence of sequences.
LEMMA FlattenIsSeq == ASSUME NEW ps, IsSeqOfSeqs(ps) PROVE IsSeq(FlattenSeq(ps))
<1> DEFINE T == {n \in Nat : \A qs : IsSeqOfSeqs(qs) /\ Len(qs) = n => IsSeq(FlattenSeq(qs))}
<1>1. 0 \in T
  BY SeqsEmpty, FlattenEmpty, EmptyIsSeq
<1>2. ASSUME NEW n \in T PROVE n + 1 \in T
  <2>1. n \in Nat /\ n + 1 \in Nat /\ \A qs : IsSeqOfSeqs(qs) /\ Len(qs) = n => IsSeq(FlattenSeq(qs))
    OBVIOUS
  <2>2. ASSUME NEW qs, IsSeqOfSeqs(qs), Len(qs) = n + 1 PROVE IsSeq(FlattenSeq(qs))
    <3>1. PICK rs, r : IsSeqOfSeqs(rs) /\ IsSeq(r) /\ Len(rs) = n /\ qs = Append(rs, r)
      BY <2>1, <2>2, SeqsFront
    <3>2. IsSeq(FlattenSeq(rs))
      BY <2>1, <3>1
    <3>3. FlattenSeq(qs) = FlattenSeq(rs) \o r
      BY <3>1, FlattenAppend DEF IsSeqOfSeqs
    <3> QED BY <3>1, <3>2, <3>3, ConcatSeq
  <2> QED BY <2>1, <2>2
<1>3. T \in SUBSET Nat
  OBVIOUS
<1> HIDE DEF T
<1>4. T = Nat
  BY <1>1, <1>2, <1>3, NatInductionOnSet
<1>5. Len(ps) \in T
  BY <1>4, SeqProps DEF IsSeqOfSeqs
<1> QED BY <1>5 DEF T

FlattensApart(ps, qs) == FlattenSeq(ps \o qs) = FlattenSeq(ps) \o FlattenSeq(qs)

LEMMA FlattenConcat ==
    ASSUME NEW ps, NEW qs, IsSeqOfSeqs(ps), IsSeqOfSeqs(qs)
    PROVE  FlattensApart(ps, qs)
<1> DEFINE T == {n \in Nat : \A rs : IsSeqOfSeqs(rs) /\ Len(rs) = n => FlattensApart(ps, rs)}
<1>1. 0 \in T
  <2>1. FlattensApart(ps, << >>)
    <3>1. IsSeq(ps) /\ IsSeq(FlattenSeq(ps))
      BY FlattenIsSeq DEF IsSeqOfSeqs
    <3> QED BY <3>1, ConcatEmpty, FlattenEmpty, Zenon DEF FlattensApart
  <2> QED BY <2>1, SeqsEmpty
<1>2. ASSUME NEW n \in T PROVE n + 1 \in T
  <2>1. n \in Nat /\ n + 1 \in Nat /\ \A rs : IsSeqOfSeqs(rs) /\ Len(rs) = n => FlattensApart(ps, rs)
    OBVIOUS
  <2>2. ASSUME NEW rs, IsSeqOfSeqs(rs), Len(rs) = n + 1 PROVE FlattensApart(ps, rs)
    <3>1. PICK ts, t : IsSeqOfSeqs(ts) /\ IsSeq(t) /\ Len(ts) = n /\ rs = Append(ts, t)
      BY <2>1, <2>2, SeqsFront
    <3>2. IsSeq(ps) /\ IsSeq(ts) /\ IsSeq(<<t>>) /\ IsSeq(ps \o ts) /\ IsSeqOfSeqs(ps \o ts)
      BY <3>1, OneIsSeq, SeqsConcat, ConcatSeq DEF IsSeqOfSeqs
    <3>3. rs = ts \o <<t>>
      BY <3>1, <3>2, AppendSeq
    <3>4. ps \o rs = (ps \o ts) \o <<t>>
      BY <3>2, <3>3, ConcatAssoc
    <3>5. ps \o rs = Append(ps \o ts, t)
      BY <3>2, <3>4, AppendSeq
    <3>6. FlattenSeq(ps \o rs) = FlattenSeq(ps \o ts) \o t
      BY <3>1, <3>2, <3>5, FlattenAppend
    <3>7. FlattenSeq(ps \o ts) = FlattenSeq(ps) \o FlattenSeq(ts)
      BY <2>1, <3>1 DEF FlattensApart
    <3>8. FlattenSeq(rs) = FlattenSeq(ts) \o t
      BY <3>1, <3>2, FlattenAppend
    <3>9. IsSeq(FlattenSeq(ps)) /\ IsSeq(FlattenSeq(ts))
      BY <3>1, FlattenIsSeq
    <3>10. (FlattenSeq(ps) \o FlattenSeq(ts)) \o t = FlattenSeq(ps) \o (FlattenSeq(ts) \o t)
      <4> DEFINE a == FlattenSeq(ps)
                 b == FlattenSeq(ts)
      <4>1. IsSeq(a) /\ IsSeq(b) /\ IsSeq(t)
        BY <3>1, <3>9
      <4> HIDE DEF a, b
      <4>2. (a \o b) \o t = a \o (b \o t)
        BY <4>1, ConcatAssoc
      <4> QED BY <4>2 DEF a, b
    <3> QED BY <3>6, <3>7, <3>8, <3>10 DEF FlattensApart
  <2> QED BY <2>1, <2>2
<1>3. T \in SUBSET Nat
  OBVIOUS
<1> HIDE DEF T
<1>4. T = Nat
  BY <1>1, <1>2, <1>3, NatInductionOnSet
<1>5. Len(qs) \in T
  BY <1>4, SeqProps DEF IsSeqOfSeqs
<1> QED BY <1>5 DEF T

\* The elements of a concatenation, and of what was flattened.
LEMMA ToSetProps == ASSUME NEW s, IsSeq(s) PROVE ToSet(s) = {s[i] : i \in 1 .. Len(s)}
BY SeqProps DEF ToSet

LEMMA ToSetConcat ==
    ASSUME NEW s, NEW t, IsSeq(s), IsSeq(t)
    PROVE  ToSet(s \o t) = ToSet(s) \cup ToSet(t)
<1> DEFINE r == s \o t
<1>1. IsSeq(r) /\ Len(r) = Len(s) + Len(t) /\ \A i \in 1 .. Len(s) : r[i] = s[i]
  BY ConcatSeq
<1>2. \A i \in 1 .. Len(t) : r[Len(s) + i] = t[i]
  BY ConcatSeq
<1>3. Len(s) \in Nat /\ Len(t) \in Nat
  BY SeqProps
<1> HIDE DEF r
<1>4. ASSUME NEW i \in 1 .. Len(r) PROVE r[i] \in {s[j] : j \in 1 .. Len(s)} \cup {t[j] : j \in 1 .. Len(t)}
  <2>1. CASE i \in 1 .. Len(s)
    BY <1>1, <2>1
  <2>2. CASE i \notin 1 .. Len(s)
    <3>1. i - Len(s) \in 1 .. Len(t) /\ Len(s) + (i - Len(s)) = i
      BY <1>1, <1>3, <2>2
    <3>2. r[Len(s) + (i - Len(s))] = t[i - Len(s)]
      BY <1>2, <3>1, Zenon
    <3> QED BY <3>1, <3>2
  <2> QED BY <2>1, <2>2
<1>5. ASSUME NEW i \in 1 .. Len(s) PROVE s[i] \in {r[j] : j \in 1 .. Len(r)}
  BY <1>1, <1>3
<1>6. ASSUME NEW i \in 1 .. Len(t) PROVE t[i] \in {r[j] : j \in 1 .. Len(r)}
  <2>1. Len(s) + i \in 1 .. Len(r)
    BY <1>1, <1>3
  <2> QED BY <1>2, <2>1
<1>7. ToSet(r) = ToSet(s) \cup ToSet(t)
  <2>1. ToSet(r) = {r[i] : i \in 1 .. Len(r)}
    BY <1>1, ToSetProps
  <2>2. ToSet(s) = {s[i] : i \in 1 .. Len(s)} /\ ToSet(t) = {t[i] : i \in 1 .. Len(t)}
    BY ToSetProps
  <2> QED BY <1>4, <1>5, <1>6, <2>1, <2>2
<1> QED BY <1>7 DEF r

LEMMA ToSetEmpty == ToSet(<< >>) = {}
BY EmptyIsSeq DEF ToSet

LEMMA ToSetOne == ASSUME NEW x PROVE ToSet(<<x>>) = {x}
<1>1. IsSeq(<<x>>) /\ Len(<<x>>) = 1 /\ <<x>>[1] = x
  BY OneIsSeq
<1>2. ToSet(<<x>>) = {<<x>>[i] : i \in 1 .. 1}
  BY <1>1, ToSetProps
<1>3. 1 .. 1 = {1}
  OBVIOUS
<1> QED BY <1>1, <1>2, <1>3, Zenon

LEMMA FlattenWithin ==
    ASSUME NEW ps, NEW S, IsSeqOfSeqs(ps), \A i \in 1 .. Len(ps) : ToSet(ps[i]) \subseteq S
    PROVE  ToSet(FlattenSeq(ps)) \subseteq S
<1> DEFINE Within(qs) == \A i \in 1 .. Len(qs) : ToSet(qs[i]) \subseteq S
           T == {n \in Nat : \A qs : IsSeqOfSeqs(qs) /\ Len(qs) = n /\ Within(qs) => ToSet(FlattenSeq(qs)) \subseteq S}
<1>1. 0 \in T
  <2>1. ToSet(FlattenSeq(<< >>)) \subseteq S
    BY FlattenEmpty, ToSetEmpty
  <2> QED BY <2>1, SeqsEmpty
<1>2. ASSUME NEW n \in T PROVE n + 1 \in T
  <2>1. n \in Nat /\ n + 1 \in Nat
        /\ \A qs : IsSeqOfSeqs(qs) /\ Len(qs) = n /\ Within(qs) => ToSet(FlattenSeq(qs)) \subseteq S
    OBVIOUS
  <2>2. ASSUME NEW qs, IsSeqOfSeqs(qs), Len(qs) = n + 1, Within(qs) PROVE ToSet(FlattenSeq(qs)) \subseteq S
    <3>1. PICK rs, r : IsSeqOfSeqs(rs) /\ IsSeq(r) /\ Len(rs) = n /\ qs = Append(rs, r)
      BY <2>1, <2>2, SeqsFront
    <3>2. IsSeq(rs) /\ qs[n + 1] = r /\ \A i \in 1 .. n : qs[i] = rs[i]
      BY <3>1, AppendSeq DEF IsSeqOfSeqs
    <3>3. Within(rs)
      <4>1. \A i \in 1 .. n : i \in 1 .. n + 1
        BY <2>1
      <4> QED BY <2>2, <3>1, <3>2, <4>1
    <3>4. ToSet(r) \subseteq S
      <4>1. n + 1 \in 1 .. n + 1
        BY <2>1
      <4> QED BY <2>2, <3>2, <4>1
    <3>5. ToSet(FlattenSeq(rs)) \subseteq S
      BY <2>1, <3>1, <3>3
    <3>6. FlattenSeq(qs) = FlattenSeq(rs) \o r
      BY <3>1, <3>2, FlattenAppend
    <3>7. IsSeq(FlattenSeq(rs))
      BY <3>1, FlattenIsSeq
    <3>8. ToSet(FlattenSeq(rs) \o r) = ToSet(FlattenSeq(rs)) \cup ToSet(r)
      BY <3>1, <3>7, ToSetConcat
    <3> QED BY <3>4, <3>5, <3>6, <3>8
  <2> QED BY <2>1, <2>2
<1>3. T \in SUBSET Nat
  OBVIOUS
<1>5. Within(ps)
  OBVIOUS
<1> HIDE DEF T
<1>4. T = Nat
  BY <1>1, <1>2, <1>3, NatInductionOnSet
<1>6. Len(ps) \in T
  BY <1>4, SeqProps DEF IsSeqOfSeqs
<1> QED BY <1>5, <1>6 DEF T

LEMMA FlattenHas ==
    ASSUME NEW ps, IsSeqOfSeqs(ps)
    PROVE  \A i \in 1 .. Len(ps) : ToSet(ps[i]) \subseteq ToSet(FlattenSeq(ps))
<1> DEFINE Has(qs) == \A i \in 1 .. Len(qs) : ToSet(qs[i]) \subseteq ToSet(FlattenSeq(qs))
           T == {n \in Nat : \A qs : IsSeqOfSeqs(qs) /\ Len(qs) = n => Has(qs)}
<1>1. 0 \in T
  <2>1. \A qs : Len(qs) = 0 => Has(qs)
    OBVIOUS
  <2> QED BY <2>1
<1>2. ASSUME NEW n \in T PROVE n + 1 \in T
  <2>1. n \in Nat /\ n + 1 \in Nat /\ \A qs : IsSeqOfSeqs(qs) /\ Len(qs) = n => Has(qs)
    OBVIOUS
  <2>2. ASSUME NEW qs, IsSeqOfSeqs(qs), Len(qs) = n + 1 PROVE Has(qs)
    <3>1. PICK rs, r : IsSeqOfSeqs(rs) /\ IsSeq(r) /\ Len(rs) = n /\ qs = Append(rs, r)
      BY <2>1, <2>2, SeqsFront
    <3>2. IsSeq(rs) /\ qs[n + 1] = r /\ \A i \in 1 .. n : qs[i] = rs[i]
      BY <3>1, AppendSeq DEF IsSeqOfSeqs
    <3>3. \A i \in 1 .. n : ToSet(rs[i]) \subseteq ToSet(FlattenSeq(rs))
      BY <2>1, <3>1
    <3>6. FlattenSeq(qs) = FlattenSeq(rs) \o r
      BY <3>1, <3>2, FlattenAppend
    <3>7. IsSeq(FlattenSeq(rs))
      BY <3>1, FlattenIsSeq
    <3>8. ToSet(FlattenSeq(rs) \o r) = ToSet(FlattenSeq(rs)) \cup ToSet(r)
      BY <3>1, <3>7, ToSetConcat
    <3>9. \A i \in 1 .. n + 1 : i = n + 1 \/ i \in 1 .. n
      BY <2>1
    <3> QED BY <2>2, <3>2, <3>3, <3>6, <3>8, <3>9
  <2> QED BY <2>1, <2>2
<1>3. T \in SUBSET Nat
  OBVIOUS
<1> HIDE DEF T
<1>4. T = Nat
  BY <1>1, <1>2, <1>3, NatInductionOnSet
<1>6. Len(ps) \in T
  BY <1>4, SeqProps DEF IsSeqOfSeqs
<1> QED BY <1>6 DEF T

\* A concatenation whose first part has one element.
Short(p, q) == Len(p) = 1 /\ Len(q) \in {1, 2}

LEMMA OneAndMore ==
    ASSUME NEW p, NEW q, IsSeq(p), IsSeq(q), Short(p, q)
    PROVE  /\ IsSeq(p \o q) /\ Len(p \o q) = Len(q) + 1 /\ (p \o q)[1] = p[1] /\ (p \o q)[2] = q[1]
           /\ Len(q) = 2 => (p \o q)[3] = q[2]
<1> DEFINE r == p \o q
<1>1. /\ IsSeq(r) /\ Len(r) = Len(p) + Len(q)
      /\ \A i \in 1 .. Len(p) : r[i] = p[i]
  BY ConcatSeq
<1>2. \A i \in 1 .. Len(q) : r[Len(p) + i] = q[i]
  BY ConcatSeq
<1> HIDE DEF r
<1>3. Len(p) + 1 = 2 /\ Len(p) + 2 = 3 /\ Len(p) + Len(q) = Len(q) + 1
      /\ 1 \in 1 .. Len(p) /\ 1 \in 1 .. Len(q) /\ (Len(q) = 2 => 2 \in 1 .. Len(q))
  BY DEF Short
<1>4. r[1] = p[1] /\ r[Len(p) + 1] = q[1] /\ (Len(q) = 2 => r[Len(p) + 2] = q[2])
  BY <1>1, <1>2, <1>3, Zenon
<1>5. IsSeq(r) /\ Len(r) = Len(q) + 1 /\ r[1] = p[1] /\ r[2] = q[1] /\ (Len(q) = 2 => r[3] = q[2])
  BY <1>1, <1>3, <1>4
<1> QED BY <1>5 DEF r

\* Two and three elements.
LEMMA TwoSeq ==
    ASSUME NEW x, NEW y
    PROVE  /\ <<x, y>> = <<x>> \o <<y>> /\ IsSeq(<<x, y>>) /\ Len(<<x, y>>) = 2
           /\ <<x, y>>[1] = x /\ <<x, y>>[2] = y /\ ToSet(<<x, y>>) = {x, y}
           /\ ToSet(<<x>> \o <<y>>) = {x, y}
<1>1. <<x, y>> \in Seq({x, y}) /\ Len(<<x, y>>) = 2 /\ <<x, y>>[1] = x /\ <<x, y>>[2] = y
  OBVIOUS
<1>2. IsSeq(<<x, y>>)
  BY <1>1, TypedIsSeq
<1> DEFINE p == <<x>>
           q == <<y>>
           r == <<x, y>>
<1>3. IsSeq(p) /\ IsSeq(q) /\ Len(p) = 1 /\ Len(q) = 1 /\ p[1] = x /\ q[1] = y
  BY OneIsSeq
<1>4. IsSeq(r) /\ Len(r) = 2 /\ r[1] = x /\ r[2] = y
  BY <1>1, <1>2
<1>5. ToSet(p) = {x} /\ ToSet(q) = {y}
  BY ToSetOne
<1> HIDE DEF p, q, r
<1>6. IsSeq(p \o q) /\ Len(p \o q) = 2 /\ (p \o q)[1] = x /\ (p \o q)[2] = y
  BY <1>3, OneAndMore DEF Short
<1>7. \A i \in 1 .. 2 : i = 1 \/ i = 2
  OBVIOUS
<1>8. r = p \o q
  <2>1. \A i \in 1 .. Len(r) : r[i] = (p \o q)[i]
    BY <1>4, <1>6, <1>7
  <2> QED BY <1>4, <1>6, <2>1, SameSeq
<1>9. ToSet(p \o q) = {x, y}
  BY <1>3, <1>5, ToSetConcat
<1> QED BY <1>1, <1>2, <1>8, <1>9 DEF p, q, r

LEMMA ThreeSeq ==
    ASSUME NEW x, NEW y, NEW z
    PROVE  /\ <<x, y, z>> = <<x>> \o <<y, z>> /\ IsSeq(<<x, y, z>>) /\ Len(<<x, y, z>>) = 3
           /\ ToSet(<<x, y, z>>) = {x, y, z} /\ ToSet(<<x>> \o <<y, z>>) = {x, y, z}
<1>1. /\ <<x, y, z>> \in Seq({x, y, z}) /\ Len(<<x, y, z>>) = 3
      /\ <<x, y, z>>[1] = x /\ <<x, y, z>>[2] = y /\ <<x, y, z>>[3] = z
  OBVIOUS
<1>2. IsSeq(<<x, y, z>>)
  BY <1>1, TypedIsSeq
<1> DEFINE p == <<x>>
           q == <<y, z>>
           r == <<x, y, z>>
<1>3. /\ IsSeq(p) /\ IsSeq(q) /\ Len(p) = 1 /\ Len(q) = 2 /\ p[1] = x /\ q[1] = y /\ q[2] = z
      /\ ToSet(p) = {x} /\ ToSet(q) = {y, z}
  BY OneIsSeq, TwoSeq, ToSetOne
<1>4. IsSeq(r) /\ Len(r) = 3 /\ r[1] = x /\ r[2] = y /\ r[3] = z
  BY <1>1, <1>2
<1> HIDE DEF p, q, r
<1>6. IsSeq(p \o q) /\ Len(p \o q) = 3 /\ (p \o q)[1] = x /\ (p \o q)[2] = y /\ (p \o q)[3] = z
  <2>1. IsSeq(p) /\ IsSeq(q) /\ Short(p, q)
    BY <1>3 DEF Short
  <2>2. /\ IsSeq(p \o q) /\ Len(p \o q) = Len(q) + 1 /\ (p \o q)[1] = p[1] /\ (p \o q)[2] = q[1]
        /\ Len(q) = 2 => (p \o q)[3] = q[2]
    BY <2>1, OneAndMore, Zenon
  <2> QED BY <1>3, <2>2
<1>7. \A i \in 1 .. 3 : i = 1 \/ i = 2 \/ i = 3
  OBVIOUS
<1>8. r = p \o q
  <2>1. \A i \in 1 .. Len(r) : r[i] = (p \o q)[i]
    BY <1>4, <1>6, <1>7
  <2> QED BY <1>4, <1>6, <2>1, SameSeq
<1>9. ToSet(p \o q) = {x, y, z}
  <2>1. ToSet(p \o q) = {x} \cup {y, z}
    BY <1>3, ToSetConcat
  <2> QED BY <2>1
<1> QED BY <1>1, <1>2, <1>8, <1>9 DEF p, q, r

=============================================================================
