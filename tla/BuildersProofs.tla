---------------------------- MODULE BuildersProofs ----------------------------
(***************************************************************************)
(* Machine-checked proofs about the three builders' models.                *)
(*                                                                         *)
(* FeeLoop, for all fundings, masses and limits: its types, and that on a  *)
(* funding for which storage mass behaves the loop settles before its ten  *)
(* rounds are over, and what it builds pays its minimum fee.               *)
(*                                                                         *)
(* ScriptBytes, for all numbers, data and opcodes and for scripts of any   *)
(* length: verify_artifact takes apart what code generation made where it  *)
(* was put together, and what it finds is what was meant.                  *)
(*                                                                         *)
(* NativePlan, for all coins, plans, alterations and bounds: a signed plan *)
(* pays the fee it was built for.                                          *)
(***************************************************************************)
EXTENDS FeeLoop, ScriptBytes, NativePlan, Foundations

-----------------------------------------------------------------------------
(* FeeLoop.  The argument is a contraction.  Mass falls as the change      *)
(* grows, so that from the second round on the change moves in one         *)
(* direction, and by at most a tenth of the step before and one: from at   *)
(* most 100000, the limit on mass, down to 1 in the eighth round.  Two     *)
(* further steps of 1 would need the mass to fall by 2 where it falls by   *)
(* at most 1.                                                              *)

\* The change has moved by no more than this in the last of k rounds.
Step(k) ==
    CASE k = 2 -> 100000 [] k = 3 -> 10001 [] k = 4 -> 1001 [] k = 5 -> 101
      [] k = 6 -> 11 [] k = 7 -> 2 [] OTHER -> 1

\* Fee and change are those of the last transaction's mass, whatever the funding.
LoopInv ==
    outcome = "building" =>
        /\ rounds < MaxRounds
        /\ rounds = 0 => fee = 0 /\ change = 0
        /\ rounds = 1 => tx.change = 0
        /\ rounds > 0 => /\ fee = Mass[funding][tx.change] /\ fee <= MassLimit
                         /\ change = Rest[funding] - fee

\* What comes before the last step is a step of at most 1, in the same direction.
SmallSteps ==
    \E p \in 1 .. Rest[funding] :
        /\ Mass[funding][p] <= MassLimit
        /\ tx.change = Rest[funding] - Mass[funding][p]
        /\ \/ p <= tx.change /\ tx.change <= p + 1 /\ tx.change <= change
           \/ p >= tx.change /\ tx.change + 1 >= p /\ tx.change >= change

\* The change closes in on the one that repeats.
ApproachInv ==
    outcome = "building" /\ funding \in Settling /\ rounds >= 2 =>
        /\ tx.change \in 1 .. Rest[funding] /\ tx.change > DustLimit + MassLimit
        /\ change > 0 /\ change >= DustLimit
        /\ change # tx.change
        /\ change - tx.change \in -Step(rounds) .. Step(rounds)
        /\ rounds = 9 => SmallSteps

BuiltInv ==
    outcome = "built" /\ funding \in Settling =>
        /\ fee = tx.fee /\ tx.change = ChangeOutput /\ tx.fee = Mass[funding][tx.change]
        /\ change = Rest[funding] - fee

PaidInv == TypeOK /\ LoopInv /\ ApproachInv /\ BuiltInv

-----------------------------------------------------------------------------
(* The constants, and one round.                                           *)

LEMMA Typed ==
    ASSUME NEW f \in Fundings
    PROVE  /\ Rest[f] \in 0 .. MaxRest /\ MaxRest \in Nat
           /\ \A c \in 0 .. MaxRest : Mass[f][c] \in Nat
<1> QED BY MassAssumption

LEMMA Limits == MaxRest \in Nat /\ DustLimit \in Nat /\ MassLimit \in Nat /\ MassLimit <= 100000
<1> QED BY MassAssumption, SMT

LEMMA Values ==
    ASSUME TypeOK
    PROVE  /\ funding \in Fundings /\ fee \in Nat /\ change \in 0 .. MaxRest
           /\ tx.change \in 0 .. MaxRest /\ rounds \in 0 .. 10
<1> QED BY DEF TypeOK

\* What Settling says of two amounts of change, the smaller of them standard.
LEMMA MassFalls ==
    ASSUME NEW f \in Settling, NEW c \in 1 .. Rest[f], NEW d \in 1 .. Rest[f], c <= d, Mass[f][c] <= MassLimit
    PROVE  Mass[f][d] <= Mass[f][c] /\ Mass[f][c] <= Mass[f][d] + (d - c) \div 10 + 1
<1>1. f \in Fundings
  BY DEF Settling
<1>2. Rest[f] \in Nat /\ Mass[f][c] \in Nat /\ Mass[f][d] \in Nat
  BY <1>1, Typed
<1>3. \A e \in c .. Rest[f] : Mass[f][c] - Mass[f][e] \in 0 .. (e - c) \div 10 + 1
  BY Zenon DEF Settling
<1>4. d \in c .. Rest[f]
  BY <1>2
<1>5. Mass[f][c] - Mass[f][d] \in 0 .. (d - c) \div 10 + 1
  BY <1>3, <1>4, Zenon
<1> HIDE DEF Settling
<1> QED BY <1>2, <1>5

\* A standard change is far from dust.
LEMMA StandardIsLarge ==
    ASSUME NEW f \in Settling, NEW c \in 1 .. Rest[f], Mass[f][c] <= MassLimit
    PROVE  c > DustLimit + MassLimit
<1>1. f \in Fundings
  BY DEF Settling
<1>2. Rest[f] \in Nat /\ Mass[f][c] \in Nat
  BY <1>1, Typed
<1>3. c <= DustLimit + MassLimit => Mass[f][c] > MassLimit
  BY Zenon DEF Settling
<1>4. DustLimit \in Nat /\ MassLimit \in Nat
  BY MassAssumption
<1> HIDE DEF Settling
<1> QED BY <1>2, <1>3, <1>4

\* A round that goes well.
Goes ==
    LET mass == Mass[funding][ChangeOutput]
    IN  /\ mass <= MassLimit /\ mass <= Rest[funding]
        /\ tx' = [change |-> ChangeOutput, fee |-> mass]
        /\ fee' = mass
        /\ change' = Rest[funding] - mass
        /\ outcome' \in {"built", "building"}
        /\ outcome' = "building" <=> (fee' # fee \/ change' # change) /\ rounds' # MaxRounds

LEMMA RoundIs ==
    ASSUME TypeOK, Round
    PROVE  /\ outcome = "building" /\ rounds' = rounds + 1 /\ funding' = funding
           /\ \/ outcome' \in {"Tx", "InsufficientFunds"} /\ UNCHANGED <<fee, change, tx>>
              \/ Goes
<1>1. ChangeOutput \in 0 .. MaxRest
  BY MassAssumption DEF TypeOK, ChangeOutput
<1>2. Mass[funding][ChangeOutput] \in Nat /\ Rest[funding] \in Nat
  BY <1>1, Typed DEF TypeOK
<1> DEFINE mass == Mass[funding][ChangeOutput]
<1>3. /\ outcome = "building" /\ rounds' = rounds + 1
      /\ \/ outcome' = "Tx" /\ UNCHANGED <<funding, fee, change, tx>>
         \/ outcome' = "InsufficientFunds" /\ UNCHANGED <<funding, fee, change, tx>>
         \/ /\ mass <= MassLimit /\ Rest[funding] - mass >= 0
            /\ tx' = [change |-> ChangeOutput, fee |-> mass]
            /\ fee' = mass
            /\ change' = Rest[funding] - mass
            /\ outcome' = IF (mass = fee /\ Rest[funding] - mass = change) \/ rounds' = MaxRounds
                          THEN "built" ELSE "building"
            /\ UNCHANGED funding
  BY DEF Round, Stop, Standard, Affordable
<1> HIDE DEF mass
<1>4. mass \in Nat
  BY <1>2 DEF mass
<1>5. CASE outcome' \in {"Tx", "InsufficientFunds"} /\ UNCHANGED <<funding, fee, change, tx>>
  BY <1>3, <1>5
<1>6. CASE /\ mass <= MassLimit /\ Rest[funding] - mass >= 0
           /\ tx' = [change |-> ChangeOutput, fee |-> mass]
           /\ fee' = mass
           /\ change' = Rest[funding] - mass
           /\ outcome' = IF (mass = fee /\ Rest[funding] - mass = change) \/ rounds' = MaxRounds
                         THEN "built" ELSE "building"
           /\ UNCHANGED funding
  <2>1. mass <= Rest[funding]
    BY <1>2, <1>4, <1>6
  <2>2. /\ outcome' \in {"built", "building"}
        /\ outcome' = "building" <=> (fee' # fee \/ change' # change) /\ rounds' # MaxRounds
    BY <1>6
  <2>3. Goes
    BY <1>6, <2>1, <2>2, Zenon DEF Goes, mass
  <2> QED BY <1>3, <1>6, <2>3
<1> QED BY <1>3, <1>5, <1>6, Zenon

\* A useful change is put into the transaction as it is.
LEMMA OutputIs ==
    ASSUME TypeOK
    PROVE  /\ ChangeOutput \in 0 .. MaxRest
           /\ ChangeOutput = change \/ (ChangeOutput = 0 /\ change < DustLimit)
           /\ change > 0 /\ change >= DustLimit => ChangeOutput = change
<1> QED BY MassAssumption DEF TypeOK, ChangeOutput, IsDust

-----------------------------------------------------------------------------
(* The types.                                                              *)

LEMMA TypesKept ==
    ASSUME TypeOK, LoopInv, [Next]_vars
    PROVE  TypeOK' /\ LoopInv'
<1>1. CASE UNCHANGED vars
  BY <1>1 DEF vars, TypeOK, LoopInv
<1>2. ASSUME Round PROVE TypeOK' /\ LoopInv'
  <2>1. rounds' = rounds + 1 /\ funding' = funding /\ rounds \in 0 .. 9
    BY <1>2, RoundIs DEF LoopInv, MaxRounds, TypeOK
  <2>2. CASE outcome' \in {"Tx", "InsufficientFunds"} /\ UNCHANGED <<fee, change, tx>>
    BY <2>1, <2>2 DEF TypeOK, LoopInv
  <2>3. CASE Goes
    <3>1. Rest[funding] \in 0 .. MaxRest /\ Mass[funding][ChangeOutput] \in Nat /\ ChangeOutput \in 0 .. MaxRest
      BY OutputIs, Typed DEF TypeOK
    <3>2. tx'.change = ChangeOutput
      BY <2>3 DEF Goes
    <3> DEFINE mass == Mass[funding][ChangeOutput]
               rest == Rest[funding]
    <3>5. /\ tx' = [change |-> ChangeOutput, fee |-> mass] /\ fee' = mass /\ change' = rest - mass
          /\ mass <= rest /\ outcome' \in {"built", "building"}
      BY <2>3 DEF Goes
    <3>6. mass \in Nat /\ rest \in 0 .. MaxRest /\ MaxRest \in Nat
      BY <3>1, MassAssumption
    <3> HIDE DEF mass, rest
    <3>7. rest - mass \in 0 .. MaxRest
      BY <3>5, <3>6
    <3>8. tx' \in [change : 0 .. MaxRest, fee : Nat]
      BY <3>1, <3>5, <3>6
    <3>9. rounds' \in 0 .. 10
      BY <2>1
    <3>3. TypeOK'
      BY <2>1, <3>5, <3>6, <3>7, <3>8, <3>9, Zenon DEF TypeOK
    <3>4. LoopInv'
      <4>1. rounds = 0 => ChangeOutput = 0
        BY OutputIs, RoundIs, <1>2 DEF LoopInv, ChangeOutput
      <4> QED BY <2>1, <2>3, <3>2, <4>1 DEF LoopInv, Goes, MaxRounds
    <3> QED BY <3>3, <3>4
  <2> QED BY <1>2, <2>2, <2>3, RoundIs
<1> QED BY <1>1, <1>2 DEF Next

\* What the loop computes with stays in range: no fee exceeds the rest, no change is
\* negative, and there are never more than ten rounds.
THEOREM FeeTypeOKHolds == Spec => []TypeOK
<1>1. Init => TypeOK /\ LoopInv
  BY MassAssumption DEF Init, TypeOK, LoopInv, MaxRounds
<1>2. TypeOK /\ LoopInv /\ [Next]_vars => (TypeOK /\ LoopInv)'
  BY TypesKept
<1> QED BY <1>1, <1>2, PTL DEF Spec

-----------------------------------------------------------------------------
(* Settling.                                                               *)

\* A tenth of a step and one is the step after it.
LEMMA StepShrinks ==
    ASSUME NEW k \in 2 .. 8, NEW n \in 0 .. Step(k)
    PROVE  n \div 10 + 1 <= Step(k + 1)
<1>1. CASE k = 2
  BY <1>1 DEF Step
<1>2. CASE k = 3
  BY <1>2 DEF Step
<1>3. CASE k = 4
  BY <1>3 DEF Step
<1>4. CASE k = 5
  BY <1>4 DEF Step
<1>5. CASE k = 6
  BY <1>5 DEF Step
<1>6. CASE k = 7
  BY <1>6 DEF Step
<1>7. CASE k = 8
  BY <1>7 DEF Step
<1> QED BY <1>1, <1>2, <1>3, <1>4, <1>5, <1>6, <1>7

\* From one change to the next, both standard.
LEMMA NextStep ==
    ASSUME NEW f \in Settling, NEW b \in 1 .. Rest[f], NEW c \in 1 .. Rest[f],
           Mass[f][b] <= MassLimit, Mass[f][c] <= MassLimit,
           NEW k \in 2 .. 8, c - b \in -Step(k) .. Step(k)
    PROVE  /\ Mass[f][b] - Mass[f][c] \in -Step(k + 1) .. Step(k + 1)
           /\ b <= c => Mass[f][c] <= Mass[f][b]
           /\ c <= b => Mass[f][b] <= Mass[f][c]
<1> DEFINE m == Mass[f][b]
           n == Mass[f][c]
<1>1. f \in Fundings
  BY DEF Settling
<1>2. Rest[f] \in Nat /\ m \in Nat /\ n \in Nat
  BY <1>1, Typed
<1>3. Step(k) \in Nat /\ Step(k + 1) \in Nat
  BY DEF Step
<1>4. CASE b <= c
  <2>1. n <= m /\ m <= n + (c - b) \div 10 + 1
    BY <1>4, MassFalls
  <2>2. (c - b) \div 10 + 1 <= Step(k + 1)
    <3>1. c - b \in 0 .. Step(k)
      BY <1>2, <1>3, <1>4
    <3> QED BY <3>1, StepShrinks
  <2> HIDE DEF m, n
  <2>3. m - n \in 0 .. Step(k + 1)
    BY <1>2, <1>3, <2>1, <2>2
  <2>4. c <= b => m <= n
    <3>1. ASSUME c <= b PROVE b = c
      BY <1>2, <1>4, <3>1
    <3> QED BY <1>2, <3>1 DEF m, n
  <2> QED BY <1>2, <1>3, <2>1, <2>3, <2>4 DEF m, n
<1>5. CASE c <= b
  <2>1. m <= n /\ n <= m + (b - c) \div 10 + 1
    BY <1>5, MassFalls
  <2>2. (b - c) \div 10 + 1 <= Step(k + 1)
    <3>1. b - c \in 0 .. Step(k)
      BY <1>2, <1>3, <1>5
    <3> QED BY <3>1, StepShrinks
  <2> HIDE DEF m, n
  <2>3. n - m \in 0 .. Step(k + 1)
    BY <1>2, <1>3, <2>1, <2>2
  <2>4. b <= c => n <= m
    <3>1. ASSUME b <= c PROVE b = c
      BY <1>2, <1>5, <3>1
    <3> QED BY <1>2, <3>1 DEF m, n
  <2> QED BY <1>2, <1>3, <2>1, <2>3, <2>4 DEF m, n
<1> QED BY <1>2, <1>4, <1>5

\* After a step of at most 1 and a step of 1 the mass has nothing left to give.
LEMMA NoThirdStep ==
    ASSUME NEW f \in Settling, NEW p \in 1 .. Rest[f], NEW b \in 1 .. Rest[f], NEW c \in 1 .. Rest[f],
           Mass[f][p] <= MassLimit, Mass[f][b] <= MassLimit, Mass[f][c] <= MassLimit,
           b = Rest[f] - Mass[f][p], c = Rest[f] - Mass[f][b], c # b, c - b \in -1 .. 1,
           \/ p <= b /\ b <= p + 1 /\ b <= c
           \/ p >= b /\ b + 1 >= p /\ b >= c
    PROVE  Mass[f][c] = Mass[f][b]
<1> DEFINE l == Mass[f][p]
           m == Mass[f][b]
           n == Mass[f][c]
<1>1. f \in Fundings
  BY DEF Settling
<1>2. Rest[f] \in Nat /\ l \in Nat /\ m \in Nat /\ n \in Nat
  BY <1>1, Typed
<1>3. CASE p <= b /\ b <= p + 1 /\ b <= c
  <2>1. p <= c /\ (c - p) \div 10 = 0 /\ c - b = 1
    BY <1>2, <1>3
  <2>2. l <= n + 1
    <3>1. l <= n + (c - p) \div 10 + 1
      BY <2>1, MassFalls
    <3> HIDE DEF l, n
    <3> QED BY <1>2, <2>1, <3>1
  <2>3. n <= m
    BY <1>3, MassFalls
  <2>4. l - m = c - b
    BY <1>2
  <2> HIDE DEF l, m, n
  <2>5. m = n
    BY <1>2, <2>1, <2>2, <2>3, <2>4
  <2> QED BY <2>5 DEF m, n
<1>4. CASE p >= b /\ b + 1 >= p /\ b >= c
  <2>1. c <= p /\ (p - c) \div 10 = 0 /\ b - c = 1
    BY <1>2, <1>4
  <2>2. n <= l + 1
    <3>1. n <= l + (p - c) \div 10 + 1
      BY <2>1, MassFalls
    <3> HIDE DEF l, n
    <3> QED BY <1>2, <2>1, <3>1
  <2>3. m <= n
    BY <1>4, MassFalls
  <2>4. m - l = b - c
    BY <1>2
  <2> HIDE DEF l, m, n
  <2>5. m = n
    BY <1>2, <2>1, <2>2, <2>3, <2>4
  <2> QED BY <2>5 DEF m, n
<1> QED BY <1>3, <1>4

\* A round that goes on with a change output that is standard, from the second on.
LEMMA ApproachKept ==
    ASSUME TypeOK, LoopInv, ApproachInv, Round, Goes, funding \in Settling, outcome' = "building"
    PROVE  ApproachInv'
<1> DEFINE rest == Rest[funding]
           M(c) == Mass[funding][c]
           b    == tx.change
           c    == change
<1>1. /\ outcome = "building" /\ rounds' = rounds + 1 /\ funding' = funding
      /\ rounds \in 0 .. 9 /\ rounds' # 10 /\ funding \in Fundings
  BY RoundIs DEF Goes, MaxRounds, LoopInv, TypeOK
<1>2. /\ rest \in Nat /\ rest <= MaxRest /\ MaxRest \in Nat /\ DustLimit \in Nat /\ MassLimit \in Nat /\ MassLimit <= 100000
      /\ c \in 0 .. MaxRest /\ b \in 0 .. MaxRest
  <2>1. rest \in 0 .. MaxRest
    BY <1>1, Typed
  <2> HIDE DEF rest
  <2> QED BY <2>1, Limits, Values
<1>3. \A d \in 0 .. MaxRest : M(d) \in Nat
  BY <1>1, Typed
<1>4. CASE rounds = 0
  BY <1>1, <1>4 DEF ApproachInv
<1>5. ASSUME rounds > 0
      PROVE  /\ c = rest - M(b) /\ M(b) <= MassLimit /\ fee = M(b)
             /\ ChangeOutput = c /\ c \in 1 .. rest
             /\ tx'.change = c /\ change' = rest - M(c) /\ M(c) <= MassLimit /\ change' # c
  <2>1. c = rest - M(b) /\ M(b) <= MassLimit /\ fee = M(b)
    BY <1>1, <1>5 DEF LoopInv
  <2>2. /\ tx'.change = ChangeOutput /\ change' = rest - M(ChangeOutput) /\ M(ChangeOutput) <= MassLimit
        /\ fee' = M(ChangeOutput) /\ (fee' # fee \/ change' # change)
    BY DEF Goes
  <2>3. M(ChangeOutput) \in Nat /\ M(b) \in Nat
    BY <1>2, <1>3, OutputIs
  <2>4. change' # c
    <3> HIDE DEF M, rest
    <3> QED BY <1>2, <2>1, <2>2, <2>3
  <2>5. ChangeOutput = c /\ c > 0
    <3>1. CASE rounds = 1
      <4>1. b = 0
        BY <1>1, <3>1 DEF LoopInv
      <4>2. ASSUME ChangeOutput = 0 PROVE FALSE
        BY <2>1, <2>2, <2>4, <4>1, <4>2
      <4> QED BY <1>2, <4>2, OutputIs
    <3>2. CASE rounds >= 2
      BY <1>1, <3>2, OutputIs DEF ApproachInv
    <3> QED BY <1>1, <1>5, <3>1, <3>2
  <2>6. c \in 1 .. rest
    <3> HIDE DEF M, rest
    <3> QED BY <1>2, <2>1, <2>3, <2>5
  <2> QED BY <2>1, <2>2, <2>4, <2>5, <2>6
<1>6. ASSUME rounds > 0
      PROVE  /\ c > DustLimit + MassLimit /\ M(b) \in Nat /\ M(c) \in Nat
             /\ change' - c = M(b) - M(c) /\ change' > 0 /\ change' >= DustLimit
  <2>1. c > DustLimit + MassLimit
    BY <1>5, <1>6, StandardIsLarge
  <2>2. M(b) \in Nat /\ M(c) \in Nat
    BY <1>2, <1>3
  <2>3. c = rest - M(b) /\ change' = rest - M(c) /\ M(c) <= MassLimit
    BY <1>5, <1>6
  <2> HIDE DEF M, rest, c
  <2> QED BY <1>2, <2>1, <2>2, <2>3
<1>7. CASE rounds = 1
  <2>1. M(b) - M(c) \in -Step(2) .. Step(2)
    <3>1. M(b) \in Nat /\ M(c) \in Nat /\ M(b) <= MassLimit /\ M(c) <= MassLimit
      BY <1>5, <1>6, <1>7
    <3>2. Step(2) = 100000
      BY DEF Step
    <3>3. MassLimit \in Nat /\ MassLimit <= 100000
      BY Limits
    <3> HIDE DEF M
    <3> QED BY <3>1, <3>2, <3>3
  <2>2. rounds' = 2
    BY <1>1, <1>7
  <2>3. /\ tx'.change \in 1 .. rest /\ tx'.change > DustLimit + MassLimit
        /\ change' > 0 /\ change' >= DustLimit /\ change' # tx'.change
        /\ change' - tx'.change \in -Step(rounds') .. Step(rounds')
    BY <1>5, <1>6, <1>7, <2>1, <2>2
  <2> QED BY <1>1, <2>2, <2>3 DEF ApproachInv
<1>8. CASE rounds \in 2 .. 8
  <2>1. b \in 1 .. rest /\ c - b \in -Step(rounds) .. Step(rounds)
    BY <1>1, <1>8 DEF ApproachInv
  <2>2. c \in 1 .. rest /\ M(b) <= MassLimit /\ M(c) <= MassLimit
    BY <1>5, <1>8
  <2>3. /\ M(b) - M(c) \in -Step(rounds + 1) .. Step(rounds + 1)
        /\ b <= c => M(c) <= M(b)
        /\ c <= b => M(b) <= M(c)
    BY <1>8, <2>1, <2>2, NextStep
  <2>4. /\ tx'.change \in 1 .. rest /\ tx'.change > DustLimit + MassLimit
        /\ change' > 0 /\ change' >= DustLimit /\ change' # tx'.change
        /\ change' - tx'.change \in -Step(rounds') .. Step(rounds')
    BY <1>1, <1>5, <1>6, <1>8, <2>3
  <2>5. ASSUME rounds = 8 PROVE SmallSteps'
    <3>1. c - b \in -1 .. 1
      BY <2>1, <2>5 DEF Step
    <3>2. tx'.change = c /\ c = rest - M(b) /\ change' - c = M(b) - M(c) /\ M(b) \in Nat /\ M(c) \in Nat
      BY <1>5, <1>6, <2>5
    <3>6. change' = rest - M(c)
      BY <1>5, <2>5
    <3>3. \/ b <= c /\ c <= b + 1 /\ c <= change'
          \/ b >= c /\ c + 1 >= b /\ c >= change'
      <4> HIDE DEF M, rest, b, c
      <4> QED BY <1>2, <2>3, <3>1, <3>2, <3>6
    <3>4. /\ b \in 1 .. rest /\ M(b) <= MassLimit /\ tx'.change = rest - M(b)
          /\ \/ b <= tx'.change /\ tx'.change <= b + 1 /\ tx'.change <= change'
             \/ b >= tx'.change /\ tx'.change + 1 >= b /\ tx'.change >= change'
      BY <2>1, <2>2, <3>2, <3>3
    <3>5. \E p \in 1 .. rest :
            /\ M(p) <= MassLimit /\ tx'.change = rest - M(p)
            /\ \/ p <= tx'.change /\ tx'.change <= p + 1 /\ tx'.change <= change'
               \/ p >= tx'.change /\ tx'.change + 1 >= p /\ tx'.change >= change'
      <4> HIDE DEF M, rest, b
      <4> QED BY <3>4, Zenon
    <3> QED BY <1>1, <3>5, Zenon DEF SmallSteps
  <2>6. rounds' = 9 => rounds = 8
    BY <1>1
  <2> QED BY <1>1, <2>4, <2>5, <2>6 DEF ApproachInv
<1>9. CASE rounds = 9
  BY <1>1, <1>9
<1> QED BY <1>1, <1>4, <1>7, <1>8, <1>9

\* A round that ends the loop repeats the one before, the tenth as well.
LEMMA BuiltKept ==
    ASSUME TypeOK, LoopInv, ApproachInv, Round, Goes, funding \in Settling, outcome' = "built"
    PROVE  BuiltInv'
<1> DEFINE rest == Rest[funding]
           M(c) == Mass[funding][c]
<1>1. /\ outcome = "building" /\ rounds' = rounds + 1 /\ funding' = funding
      /\ rounds \in 0 .. 9 /\ funding \in Fundings
  BY RoundIs DEF Goes, MaxRounds, LoopInv, TypeOK
<1>2. /\ tx'.change = ChangeOutput /\ tx'.fee = M(ChangeOutput) /\ change' = rest - M(ChangeOutput)
      /\ M(ChangeOutput) <= MassLimit /\ fee' = M(ChangeOutput)
      /\ (fee' = fee /\ change' = change) \/ rounds' = 10
  BY DEF Goes, MaxRounds
<1>3. change' = change
  <2>1. CASE rounds # 9
    BY <1>1, <1>2, <2>1
  <2>2. CASE rounds = 9
    <3> DEFINE b == tx.change
               c == change
    <3>1. /\ c = rest - M(b) /\ M(b) <= MassLimit
          /\ b \in 1 .. rest /\ c > 0 /\ c >= DustLimit /\ c # b
          /\ c - b \in -1 .. 1 /\ SmallSteps
      BY <1>1, <2>2 DEF LoopInv, ApproachInv, Step
    <3>2. ChangeOutput = c
      BY <3>1, OutputIs
    <3>3. c \in 1 .. rest
      <4>1. rest \in Nat /\ M(b) \in Nat /\ c \in Nat
        BY <1>1, Typed, Values, Limits
      <4> HIDE DEF M, rest
      <4> QED BY <3>1, <4>1
    <3>4. PICK p \in 1 .. rest :
            /\ M(p) <= MassLimit /\ b = rest - M(p)
            /\ \/ p <= b /\ b <= p + 1 /\ b <= c
               \/ p >= b /\ b + 1 >= p /\ b >= c
      BY <3>1, Zenon DEF SmallSteps
    <3>5. M(c) <= MassLimit
      BY <1>2, <3>2
    <3>6. M(c) = M(b)
      BY <3>1, <3>3, <3>4, <3>5, NoThirdStep
    <3> QED BY <1>2, <3>1, <3>2, <3>6
  <2> QED BY <2>1, <2>2
<1>4. ChangeOutput' = ChangeOutput
  BY <1>3 DEF ChangeOutput, IsDust
<1> QED BY <1>1, <1>2, <1>4 DEF BuiltInv

LEMMA PaidInvKept ==
    ASSUME PaidInv, [Next]_vars
    PROVE  PaidInv'
<1>1. TypeOK' /\ LoopInv'
  BY TypesKept DEF PaidInv
<1>2. CASE UNCHANGED vars
  BY <1>1, <1>2 DEF PaidInv, vars, ApproachInv, SmallSteps, BuiltInv, ChangeOutput
<1>3. ASSUME Round PROVE ApproachInv' /\ BuiltInv'
  <2>1. funding' = funding
    BY <1>3, RoundIs DEF PaidInv
  <2>2. CASE funding \notin Settling
    BY <2>1, <2>2 DEF ApproachInv, BuiltInv
  <2>3. CASE outcome' \in {"Tx", "InsufficientFunds"}
    BY <2>3 DEF ApproachInv, BuiltInv
  <2>4. CASE Goes /\ funding \in Settling
    <3>1. outcome' \in {"building", "built"}
      BY <2>4 DEF Goes
    <3>2. outcome' = "building" => ApproachInv' /\ BuiltInv'
      BY <1>3, <2>4, ApproachKept DEF PaidInv, BuiltInv
    <3>3. outcome' = "built" => ApproachInv' /\ BuiltInv'
      BY <1>3, <2>4, BuiltKept DEF PaidInv, ApproachInv
    <3> QED BY <3>1, <3>2, <3>3
  <2> QED BY <1>3, <2>2, <2>3, <2>4, RoundIs DEF PaidInv
<1> QED BY <1>1, <1>2, <1>3 DEF PaidInv, Next

LEMMA PaidInvInit ==
    ASSUME Init
    PROVE  PaidInv
<1> QED BY MassAssumption DEF Init, PaidInv, TypeOK, LoopInv, ApproachInv, BuiltInv, MaxRounds

\* On a funding for which storage mass behaves, the loop ends because fee and change
\* repeat: the ten rounds of the code are always enough.
THEOREM SettlesInTimeHolds == Spec => []SettlesInTime
<1>1. Init => PaidInv
  BY PaidInvInit
<1>2. PaidInv /\ [Next]_vars => PaidInv'
  BY PaidInvKept
<1>3. PaidInv => SettlesInTime
  BY DEF PaidInv, BuiltInv, SettlesInTime
<1> QED BY <1>1, <1>2, <1>3, PTL DEF Spec

\* What is then built pays the minimum fee of its own mass, and no more than dust
\* beyond it.
THEOREM PaysMinimumFeeHolds == Spec => []PaysMinimumFee
<1>1. Init => PaidInv
  BY PaidInvInit
<1>2. PaidInv /\ [Next]_vars => PaidInv'
  BY PaidInvKept
<1>3. ASSUME PaidInv PROVE PaysMinimumFee
  <2>1. SUFFICES ASSUME outcome = "built", funding \in Settling
                 PROVE  PaidFee >= tx.fee /\ PaidFee <= tx.fee + DustLimit
    BY DEF PaysMinimumFee
  <2>2. /\ Rest[funding] \in Nat /\ DustLimit \in Nat /\ change \in Nat /\ fee \in Nat
        /\ ChangeOutput = change \/ (ChangeOutput = 0 /\ change < DustLimit)
    <3>1. TypeOK
      BY <1>3 DEF PaidInv
    <3>2. Rest[funding] \in 0 .. MaxRest /\ change \in 0 .. MaxRest /\ fee \in Nat
      BY <3>1, Values, Typed
    <3> QED BY <3>1, <3>2, Limits, OutputIs
  <2>3. fee = tx.fee /\ tx.change = ChangeOutput /\ change = Rest[funding] - fee
    BY <1>3, <2>1 DEF PaidInv, BuiltInv
  <2> QED BY <2>2, <2>3 DEF PaidFee
<1> QED BY <1>1, <1>2, <1>3, PTL DEF Spec

-----------------------------------------------------------------------------
(* ScriptBytes.                                                            *)

Bytes == 0 .. ByteBase - 1

LEMMA Base == ByteBase \in Nat /\ ByteBase >= 16
<1> QED BY ByteAssumption

-----------------------------------------------------------------------------
(* Taking a number apart.                                                  *)

\* What Remaining takes its function to be.
Takes(value, f) == f = [k \in 0 .. 9 |-> IF k = 0 THEN value ELSE f[k - 1] \div ByteBase]

LEMMA TakesExists ==
    ASSUME NEW value
    PROVE  \E f : Takes(value, f)
<1> DEFINE Upto(n, f) == f = [k \in 0 .. n |-> IF k = 0 THEN value ELSE f[k - 1] \div ByteBase]
           T == {n \in Nat : \E f : Upto(n, f)}
<1>1. 0 \in T
  <2> DEFINE f == [k \in 0 .. 0 |-> value]
  <2>1. Upto(0, f)
    OBVIOUS
  <2> QED BY <2>1
<1>2. ASSUME NEW n \in T PROVE n + 1 \in T
  <2>1. PICK f : Upto(n, f)
    OBVIOUS
  <2> DEFINE g == [k \in 0 .. n + 1 |-> IF k = 0 THEN value ELSE f[k - 1] \div ByteBase]
  <2>2. n \in Nat /\ \A k \in 0 .. n + 1 : k # 0 => k - 1 \in 0 .. n /\ k - 1 \in 0 .. n + 1
    OBVIOUS
  <2>3. \A k \in 0 .. n : g[k] = f[k]
    <3> SUFFICES ASSUME NEW k \in 0 .. n PROVE g[k] = f[k]
      OBVIOUS
    <3>1. f[k] = IF k = 0 THEN value ELSE f[k - 1] \div ByteBase
      BY <2>1, Zenon
    <3>2. k \in 0 .. n + 1
      BY <2>2
    <3>3. g[k] = IF k = 0 THEN value ELSE f[k - 1] \div ByteBase
      BY <3>2, Zenon
    <3> QED BY <3>1, <3>3, Zenon
  <2>4. \A k \in 0 .. n + 1 : k # 0 => g[k - 1] = f[k - 1]
    BY <2>2, <2>3
  <2>5. g = [k \in 0 .. n + 1 |-> IF k = 0 THEN value ELSE g[k - 1] \div ByteBase]
    BY <2>4
  <2>6. Upto(n + 1, g)
    BY <2>5, Zenon
  <2>7. n + 1 \in Nat
    BY <2>2
  <2> HIDE DEF g, Upto
  <2>8. \E h : Upto(n + 1, h)
    BY <2>6
  <2> QED BY <2>7, <2>8
<1>0. T \in SUBSET Nat
  OBVIOUS
<1> HIDE DEF T
<1>3. T = Nat
  BY <1>0, <1>1, <1>2, NatInductionOnSet
<1>4. 9 \in T
  BY <1>3
<1> QED BY <1>4 DEF T, Takes

\* A byte is taken off at a time.
LEMMA RemainingIs ==
    ASSUME NEW value
    PROVE  /\ Remaining(value)[0] = value
           /\ \A k \in 0 .. 8 : Remaining(value)[k + 1] = Remaining(value)[k] \div ByteBase
<1>1. Takes(value, Remaining(value))
  <2>1. Remaining(value) = CHOOSE f : Takes(value, f)
    BY Zenon DEF Remaining, Takes
  <2> QED BY <2>1, TakesExists, Zenon
<1> DEFINE r == Remaining(value)
<1> HIDE DEF r
<1>2. r = [k \in 0 .. 9 |-> IF k = 0 THEN value ELSE r[k - 1] \div ByteBase]
  BY <1>1, Zenon DEF Takes, r
<1>3. r[0] = value
  BY <1>2
<1>4. ASSUME NEW k \in 0 .. 8 PROVE r[k + 1] = r[k] \div ByteBase
  <2>1. k + 1 \in 0 .. 9 /\ k + 1 # 0 /\ (k + 1) - 1 = k
    OBVIOUS
  <2> QED BY <1>2, <2>1
<1> QED BY <1>3, <1>4 DEF r

LEMMA DivMod ==
    ASSUME NEW n \in Nat
    PROVE  /\ n \div ByteBase \in Nat /\ n % ByteBase \in Bytes
           /\ n = (n % ByteBase) + ByteBase * (n \div ByteBase)
           /\ n < ByteBase => n \div ByteBase = 0 /\ n % ByteBase = n
<1> QED BY Base DEF Bytes

LEMMA RemainingTyped ==
    ASSUME NEW value \in Nat
    PROVE  /\ \A k \in 0 .. 9 : Remaining(value)[k] \in Nat
           /\ \A k \in 0 .. 8 :
                 /\ Remaining(value)[k] % ByteBase \in Bytes
                 /\ Remaining(value)[k] = (Remaining(value)[k] % ByteBase) + ByteBase * Remaining(value)[k + 1]
<1> DEFINE r == Remaining(value)
           T == {n \in Nat : n <= 9 => r[n] \in Nat}
<1>1. r[0] = value /\ \A k \in 0 .. 8 : r[k + 1] = r[k] \div ByteBase
  BY RemainingIs
<1> HIDE DEF r
<1>2. 0 \in T
  BY <1>1
<1>3. ASSUME NEW n \in T PROVE n + 1 \in T
  <2>1. CASE n + 1 <= 9
    <3>1. n \in 0 .. 8 /\ r[n] \in Nat
      BY <2>1
    <3>2. r[n + 1] = r[n] \div ByteBase
      BY <1>1, <3>1
    <3>3. r[n + 1] \in Nat
      BY <3>1, <3>2, DivMod
    <3> QED BY <3>3
  <2> QED BY <2>1
<1>0. T \in SUBSET Nat
  OBVIOUS
<1> HIDE DEF T
<1>4. T = Nat
  BY <1>0, <1>2, <1>3, NatInductionOnSet
<1>5. ASSUME NEW k \in 0 .. 9 PROVE r[k] \in Nat
  <2>1. k \in T
    BY <1>4
  <2> QED BY <2>1 DEF T
<1>6. ASSUME NEW k \in 0 .. 8
      PROVE  r[k] % ByteBase \in Bytes /\ r[k] = (r[k] % ByteBase) + ByteBase * r[k + 1]
  <2>1. r[k] \in Nat
    BY <1>5
  <2> QED BY <1>1, <2>1, DivMod
<1> QED BY <1>5, <1>6 DEF r

-----------------------------------------------------------------------------
(* Putting it together again.                                              *)

\* What Magnitude takes its function to be.
Adds(bytes, f) ==
    f = [k \in 0 .. Len(bytes) |-> IF k = 0 THEN 0 ELSE bytes[Len(bytes) - k + 1] + ByteBase * f[k - 1]]

LEMMA AddsExists ==
    ASSUME NEW bytes, Len(bytes) \in Nat
    PROVE  \E f : Adds(bytes, f)
<1> DEFINE B(k) == bytes[Len(bytes) - k + 1]
           Upto(n, f) == f = [k \in 0 .. n |-> IF k = 0 THEN 0 ELSE B(k) + ByteBase * f[k - 1]]
           T == {n \in Nat : \E f : Upto(n, f)}
<1>1. 0 \in T
  <2> DEFINE f == [k \in 0 .. 0 |-> 0]
  <2>1. Upto(0, f)
    OBVIOUS
  <2> QED BY <2>1
<1>2. ASSUME NEW n \in T PROVE n + 1 \in T
  <2>1. PICK f : Upto(n, f)
    OBVIOUS
  <2> DEFINE g == [k \in 0 .. n + 1 |-> IF k = 0 THEN 0 ELSE B(k) + ByteBase * f[k - 1]]
  <2>2. n \in Nat /\ \A k \in 0 .. n + 1 : k # 0 => k - 1 \in 0 .. n /\ k - 1 \in 0 .. n + 1
    OBVIOUS
  <2>3. \A k \in 0 .. n : g[k] = f[k]
    <3> SUFFICES ASSUME NEW k \in 0 .. n PROVE g[k] = f[k]
      OBVIOUS
    <3>1. f[k] = IF k = 0 THEN 0 ELSE B(k) + ByteBase * f[k - 1]
      BY <2>1, Zenon
    <3>2. k \in 0 .. n + 1
      BY <2>2
    <3>3. g[k] = IF k = 0 THEN 0 ELSE B(k) + ByteBase * f[k - 1]
      BY <3>2, Zenon
    <3> QED BY <3>1, <3>3, Zenon
  <2>4. \A k \in 0 .. n + 1 : k # 0 => g[k - 1] = f[k - 1]
    BY <2>2, <2>3
  <2>5. g = [k \in 0 .. n + 1 |-> IF k = 0 THEN 0 ELSE B(k) + ByteBase * g[k - 1]]
    <3> HIDE DEF B
    <3> QED BY <2>4
  <2>6. Upto(n + 1, g)
    BY <2>5, Zenon
  <2>7. n + 1 \in Nat
    BY <2>2
  <2> HIDE DEF g, Upto
  <2>8. \E h : Upto(n + 1, h)
    BY <2>6
  <2> QED BY <2>7, <2>8
<1>0. T \in SUBSET Nat
  OBVIOUS
<1> HIDE DEF T
<1>3. T = Nat
  BY <1>0, <1>1, <1>2, NatInductionOnSet
<1>4. Len(bytes) \in T
  BY <1>3
<1> QED BY <1>4 DEF T, Adds

\* f[k] is the number of the last k of len bytes.
OfLast(bytes, len, f) ==
    f[0] = 0 /\ \A k \in 0 .. len : k # 0 => f[k] = bytes[len - k + 1] + ByteBase * f[k - 1]

LEMMA MagnitudeIs ==
    ASSUME NEW bytes, NEW len \in Nat, Len(bytes) = len
    PROVE  \E f : Magnitude(bytes) = f[len] /\ OfLast(bytes, len, f)
<1> DEFINE g == CHOOSE f : Adds(bytes, f)
<1>1. Magnitude(bytes) = g[len]
  BY Zenon DEF Magnitude, Adds
<1>2. Adds(bytes, g)
  BY AddsExists, Zenon
<1> HIDE DEF g
<1>3. g = [k \in 0 .. len |-> IF k = 0 THEN 0 ELSE bytes[len - k + 1] + ByteBase * g[k - 1]]
  BY <1>2, Zenon DEF Adds
<1>4. g[0] = 0
  BY <1>3
<1>5. ASSUME NEW k \in 0 .. len, k # 0 PROVE g[k] = bytes[len - k + 1] + ByteBase * g[k - 1]
  BY <1>3, <1>5, Zenon
<1>6. OfLast(bytes, len, g)
  BY <1>4, <1>5, Zenon DEF OfLast
<1> QED BY <1>1, <1>6, Zenon

LEMMA LittleEndianIs ==
    ASSUME NEW value \in Nat, NEW n \in 0 .. 9
    PROVE  /\ LittleEndian(value, n) \in Seq(Bytes) /\ Len(LittleEndian(value, n)) = n
           /\ \A k \in 1 .. n : LittleEndian(value, n)[k] = Remaining(value)[k - 1] % ByteBase
<1> DEFINE s == LittleEndian(value, n)
<1>1. s = [k \in 1 .. n |-> Remaining(value)[k - 1] % ByteBase]
  BY Zenon DEF LittleEndian
<1> HIDE DEF s
<1>2. \A k \in 1 .. n : s[k] \in Bytes /\ s[k] = Remaining(value)[k - 1] % ByteBase
  <2> SUFFICES ASSUME NEW k \in 1 .. n PROVE s[k] \in Bytes /\ s[k] = Remaining(value)[k - 1] % ByteBase
    OBVIOUS
  <2>1. k - 1 \in 0 .. 8
    OBVIOUS
  <2>2. s[k] = Remaining(value)[k - 1] % ByteBase
    BY <1>1, Zenon
  <2> QED BY <2>1, <2>2, RemainingTyped, Zenon
<1>3. s \in [1 .. n -> Bytes]
  BY <1>1, <1>2, Zenon
<1>4. s \in Seq(Bytes) /\ Len(s) = n
  BY <1>3
<1> QED BY <1>2, <1>4 DEF s

\* Little endian with room enough is the number again.
LEMMA MagnitudeOfNumber ==
    ASSUME NEW value \in Nat, NEW n \in 0 .. 9, FitsIn(value, n)
    PROVE  Magnitude(LittleEndian(value, n)) = value
<1> DEFINE s == LittleEndian(value, n)
           r == Remaining(value)
<1>1. /\ Len(s) = n /\ r[0] = value /\ r[n] = 0
      /\ \A k \in 1 .. n : s[k] = r[k - 1] % ByteBase
      /\ \A k \in 0 .. 8 : r[k] \in Nat /\ r[k] = (r[k] % ByteBase) + ByteBase * r[k + 1]
  <2>1. Len(s) = n /\ \A k \in 1 .. n : s[k] = r[k - 1] % ByteBase
    BY LittleEndianIs, Zenon
  <2>2. r[0] = value /\ r[n] = 0
    BY RemainingIs, Zenon DEF FitsIn
  <2>3. \A k \in 0 .. 9 : r[k] \in Nat
    BY RemainingTyped, Zenon
  <2>4. \A k \in 0 .. 8 : r[k] = (r[k] % ByteBase) + ByteBase * r[k + 1]
    BY RemainingTyped, Zenon
  <2>5. \A k \in 0 .. 8 : k \in 0 .. 9
    OBVIOUS
  <2> HIDE DEF s, r
  <2> QED BY <2>1, <2>2, <2>3, <2>4, <2>5, Zenon
<1>8. PICK f : Magnitude(s) = f[n] /\ OfLast(s, n, f)
  <2>1. n \in Nat
    OBVIOUS
  <2>2. Len(s) = n
    BY <1>1
  <2> HIDE DEF s, r
  <2> QED BY <2>1, <2>2, MagnitudeIs, Zenon
<1>2. /\ Magnitude(s) = f[n] /\ f[0] = 0
      /\ \A k \in 0 .. n : k # 0 => f[k] = s[n - k + 1] + ByteBase * f[k - 1]
  BY <1>8, Zenon DEF OfLast
<1> DEFINE T == {k \in Nat : k <= n => f[k] = r[n - k]}
<1> HIDE DEF s, r
<1>3. 0 \in T
  BY <1>1, <1>2
<1>4. ASSUME NEW k \in T PROVE k + 1 \in T
  <2>1. k \in Nat
    OBVIOUS
  <2>2. CASE k + 1 <= n
    <3>1. f[k] = r[n - k]
      BY <2>1, <2>2
    <3>2. k + 1 \in 0 .. n /\ k + 1 # 0 /\ (k + 1) - 1 = k /\ n - (k + 1) + 1 = n - k
          /\ n - k \in 1 .. n /\ (n - k) - 1 = n - (k + 1) /\ n - (k + 1) \in 0 .. 8 /\ n - (k + 1) + 1 = n - k
      BY <2>1, <2>2
    <3>3. f[k + 1] = s[n - k] + ByteBase * f[k]
      BY <1>2, <3>2
    <3>4. s[n - k] = r[n - (k + 1)] % ByteBase
      BY <1>1, <3>2
    <3>5. r[n - (k + 1)] = (r[n - (k + 1)] % ByteBase) + ByteBase * r[n - k]
      BY <1>1, <3>2
    <3>6. f[k + 1] = r[n - (k + 1)]
      BY <3>1, <3>3, <3>4, <3>5, Zenon
    <3> QED BY <2>1, <3>6
  <2> QED BY <2>1, <2>2
<1>0. T \in SUBSET Nat
  OBVIOUS
<1> HIDE DEF T
<1>5. T = Nat
  BY <1>0, <1>3, <1>4, NatInductionOnSet
<1>6. n \in T
  BY <1>5
<1>7. f[n] = r[0]
  BY <1>6 DEF T
<1> QED BY <1>1, <1>2, <1>7 DEF s

-----------------------------------------------------------------------------
(* How many bytes a number takes.                                          *)

LEMMA FitsMore ==
    ASSUME NEW value \in Nat, NEW n \in 0 .. 8, FitsIn(value, n)
    PROVE  FitsIn(value, n + 1)
<1> DEFINE r == Remaining(value)
<1>1. r[n + 1] = r[n] \div ByteBase /\ r[n] = 0
  BY RemainingIs, Zenon DEF FitsIn
<1> HIDE DEF r
<1>2. r[n + 1] = 0
  BY <1>1, Base
<1> QED BY <1>2, Zenon DEF FitsIn, r

LEMMA OneByte ==
    ASSUME NEW value \in Nat, value < ByteBase
    PROVE  /\ FitsIn(value, 1) /\ FitsIn(value, 2) /\ FitsIn(value, 4)
           /\ value # 0 => ~FitsIn(value, 0)
<1>1. Remaining(value)[0] = value
  BY RemainingIs, Zenon
<1>2. Remaining(value)[0 + 1] = Remaining(value)[0] \div ByteBase
  <2>1. 0 \in 0 .. 8
    OBVIOUS
  <2> QED BY <2>1, RemainingIs, Zenon
<1>3. value \div ByteBase = 0
  BY DivMod
<1>4. FitsIn(value, 1)
  BY <1>1, <1>2, <1>3 DEF FitsIn
<1>5. FitsIn(value, 1 + 1)
  BY <1>4, FitsMore
<1>6. FitsIn(value, 2)
  BY <1>5
<1>7. FitsIn(value, 2 + 1)
  BY <1>6, FitsMore
<1>8. FitsIn(value, 3)
  BY <1>7
<1>9. FitsIn(value, 3 + 1)
  BY <1>8, FitsMore
<1>10. FitsIn(value, 4)
  BY <1>9
<1>11. value # 0 => ~FitsIn(value, 0)
  BY <1>1 DEF FitsIn
<1> QED BY <1>4, <1>6, <1>10, <1>11

\* The fewest bytes that hold a number.
Fewest(value, n) == FitsIn(value, n) /\ (n = 0 \/ ~FitsIn(value, n - 1))

LEMMA TrimmedIs ==
    ASSUME NEW value \in Nat, value # 0, FitsIn(value, 8)
    PROVE  \E n \in 1 .. 8 : Fewest(value, n) /\ Trimmed(value) = LittleEndian(value, n)
<1>1. ~FitsIn(value, 0)
  BY RemainingIs DEF FitsIn
<1>2. \E n \in 0 .. 8 : Fewest(value, n)
  <2> DEFINE T == {n \in Nat : n <= 8 => ~FitsIn(value, n)}
  <2>1. SUFFICES ASSUME \A n \in 0 .. 8 : ~Fewest(value, n) PROVE FALSE
    OBVIOUS
  <2>2. 0 \in T
    BY <1>1
  <2>3. ASSUME NEW n \in T PROVE n + 1 \in T
    <3>1. n \in Nat /\ (n + 1) - 1 = n /\ n + 1 # 0
      OBVIOUS
    <3>2. CASE n + 1 <= 8
      <4>1. n + 1 \in 0 .. 8 /\ ~FitsIn(value, n)
        BY <3>1, <3>2
      <4>2. ~Fewest(value, n + 1)
        BY <2>1, <4>1, Zenon
      <4>3. ~FitsIn(value, n + 1)
        BY <3>1, <4>1, <4>2 DEF Fewest
      <4> QED BY <3>1, <4>3
    <3> QED BY <3>1, <3>2
  <2>4. T \in SUBSET Nat
    OBVIOUS
  <2> HIDE DEF T
  <2>5. T = Nat
    BY <2>2, <2>3, <2>4, NatInductionOnSet
  <2>6. 8 \in T
    BY <2>5
  <2> QED BY <2>6 DEF T
<1> DEFINE n == CHOOSE m \in 0 .. 8 : Fewest(value, m)
<1>3. n \in 0 .. 8 /\ Fewest(value, n)
  BY <1>2, Zenon
<1>4. Trimmed(value) = LittleEndian(value, n)
  BY Zenon DEF Trimmed, Fewest
<1> HIDE DEF n
<1>5. n # 0
  BY <1>1, <1>3, Zenon DEF Fewest
<1>6. n \in 1 .. 8
  BY <1>3, <1>5
<1> QED BY <1>3, <1>4, <1>6, Zenon

-----------------------------------------------------------------------------
(* What a number is on the stack.                                          *)

\* A number the engine takes for value.
Stands(value, bytes) ==
    /\ bytes \in Seq(Bytes) /\ FitsIn(Len(bytes), 4)
    /\ Magnitude(bytes) = value /\ ~IsNegative(bytes) /\ Minimal(bytes)

\* One bit of a byte is for the sign.
LEMMA Halves ==
    /\ ByteBase \div 2 \in Nat /\ ByteBase \div 2 > 0 /\ ByteBase = 2 * (ByteBase \div 2)
    /\ \A b \in Nat : b # 0 /\ b < ByteBase \div 2 => b % (ByteBase \div 2) # 0
<1>1. ByteBase \in Nat /\ ByteBase >= 16 /\ ByteBase % 2 = 0
  BY ByteAssumption
<1> DEFINE h == ByteBase \div 2
<1>2. h \in Nat /\ h > 0 /\ ByteBase = 2 * h
  BY <1>1
<1> HIDE DEF h
<1>3. \A b \in Nat : b # 0 /\ b < h => b % h # 0
  BY <1>2
<1> QED BY <1>2, <1>3 DEF h

LEMMA ScriptNumberStands ==
    ASSUME NEW value \in Nat, value # 0, FitsIn(value, 8)
    PROVE  Stands(value, ScriptNumber(value))
<1>1. PICK n \in 1 .. 8 : Fewest(value, n) /\ Trimmed(value) = LittleEndian(value, n)
  BY TrimmedIs
<1> DEFINE t == LittleEndian(value, n)
           u == LittleEndian(value, n + 1)
           top == t[n]
           h == ByteBase \div 2
           r == Remaining(value)
<1>2. n \in 0 .. 9 /\ n + 1 \in 0 .. 9 /\ n \in 0 .. 8 /\ n - 1 \in 0 .. 8 /\ n # 0 /\ n \in 1 .. n /\ (n - 1) + 1 = n
  OBVIOUS
<1>3. t \in Seq(Bytes) /\ Len(t) = n /\ \A k \in 1 .. n : t[k] = r[k - 1] % ByteBase
  BY <1>2, LittleEndianIs, Zenon
<1>4. u \in Seq(Bytes) /\ Len(u) = n + 1 /\ \A k \in 1 .. n + 1 : u[k] = r[k - 1] % ByteBase
  BY <1>2, LittleEndianIs, Zenon
<1>5. FitsIn(value, n) /\ ~FitsIn(value, n - 1)
  BY <1>1, <1>2, Zenon DEF Fewest
<1>6. FitsIn(value, n + 1)
  BY <1>2, <1>5, FitsMore
<1>7. Magnitude(t) = value /\ Magnitude(u) = value
  BY <1>2, <1>5, <1>6, MagnitudeOfNumber, Zenon
<1>8. r[n] = 0 /\ r[n - 1] # 0
  BY <1>5, Zenon DEF FitsIn
<1>9. top \in Bytes /\ top # 0
  <2>1. r[n - 1] = (r[n - 1] % ByteBase) + ByteBase * r[(n - 1) + 1] /\ r[n - 1] % ByteBase \in Bytes
    BY <1>2, RemainingTyped, Zenon
  <2>2. r[n - 1] = (r[n - 1] % ByteBase) + ByteBase * r[n]
    BY <1>2, <2>1, Zenon
  <2>3. top = r[n - 1] % ByteBase
    BY <1>2, <1>3, Zenon
  <2> HIDE DEF r, top
  <2>4. top \in Bytes /\ r[n - 1] = top + ByteBase * 0
    BY <1>8, <2>1, <2>2, <2>3, Zenon
  <2>5. r[n - 1] = top
    BY <2>4, Base DEF Bytes
  <2> QED BY <1>8, <2>4, <2>5
<1>10. FitsIn(n, 4) /\ FitsIn(n + 1, 4)
  <2>1. n \in Nat /\ n < ByteBase /\ n + 1 \in Nat /\ n + 1 < ByteBase
    BY Base
  <2> QED BY <2>1, OneByte
<1>11. ScriptNumber(value) = IF top >= h THEN Append(t, 0) ELSE t
  BY <1>1, <1>3, Zenon DEF ScriptNumber, TopByte
<1>12. u[n + 1] = 0
  <2>1. n + 1 \in 1 .. n + 1 /\ (n + 1) - 1 = n
    OBVIOUS
  <2>2. u[n + 1] = r[n] % ByteBase
    BY <1>4, <2>1, Zenon
  <2>3. 0 % ByteBase = 0
    BY Base
  <2> QED BY <1>8, <2>2, <2>3, Zenon
<1>13. \A k \in 1 .. n : u[k] = t[k]
  <2>1. \A k \in 1 .. n : k \in 1 .. n + 1
    OBVIOUS
  <2> QED BY <1>3, <1>4, <2>1, Zenon
<1> HIDE DEF t, u, h, r
<1>14. Append(t, 0) = u
  <2>1. Len(Append(t, 0)) = n + 1 /\ \A k \in 1 .. n + 1 : Append(t, 0)[k] = u[k]
    BY <1>3, <1>12, <1>13
  <2>2. 0 \in Bytes
    BY Base DEF Bytes
  <2>3. Append(t, 0) \in Seq(Bytes)
    BY <1>3, <2>2
  <2> QED BY <1>4, <2>1, <2>3, SeqEqual
<1>15. h \in Nat /\ h > 0 /\ \A b \in Nat : b # 0 /\ b < h => b % h # 0
  BY Halves DEF h
<1>16. CASE top >= h
  <2>1. ScriptNumber(value) = u
    BY <1>11, <1>14, <1>16, Zenon
  <2>2. ~IsNegative(u)
    BY <1>4, <1>12, <1>15 DEF IsNegative, TopByte, h
  <2>3. Minimal(u)
    <3>1. Len(u) > 1 /\ Len(u) - 1 = n
      BY <1>4
    <3>2. u[n] = top
      BY <1>2, <1>13
    <3> QED BY <1>16, <3>1, <3>2 DEF Minimal, h
  <2> QED BY <1>4, <1>7, <1>10, <2>1, <2>2, <2>3 DEF Stands
<1>17. CASE ~(top >= h)
  <2>1. ScriptNumber(value) = t
    BY <1>11, <1>17, Zenon
  <2>2. TopByte(t) = top
    BY <1>3, Zenon DEF TopByte
  <2>3. ~IsNegative(t)
    BY <1>17, <2>2 DEF IsNegative, h
  <2>4. top \in Nat /\ top < h
    BY <1>9, <1>15, <1>17 DEF Bytes
  <2>5. top % h # 0
    BY <1>9, <1>15, <2>4
  <2>6. Minimal(t)
    BY <2>2, <2>5, Zenon DEF Minimal, h
  <2> QED BY <1>3, <1>7, <1>10, <2>1, <2>3, <2>6 DEF Stands
<1> QED BY <1>16, <1>17

\* What is on the stack once the bytes of a number have run.
OnStack(value) ==
    IF value = 0 THEN << >> ELSE IF value <= SmallMax THEN <<value>> ELSE ScriptNumber(value)

LEMMA OnStackStands ==
    ASSUME NEW value \in Nat, FitsIn(value, 8)
    PROVE  Stands(value, OnStack(value))
<1>1. CASE value = 0
  <2> DEFINE s == << >>
  <2>1. s \in Seq(Bytes) /\ Len(s) = 0
    OBVIOUS
  <2>2. PICK f : Magnitude(s) = f[0] /\ OfLast(s, 0, f)
    BY <2>1, MagnitudeIs
  <2>3. Magnitude(s) = 0
    BY <2>2, Zenon DEF OfLast
  <2>4. FitsIn(0, 4)
    BY Base, OneByte
  <2>5. OnStack(value) = s
    BY <1>1, Zenon DEF OnStack
  <2> QED BY <1>1, <2>1, <2>3, <2>4, <2>5 DEF Stands, IsNegative, Minimal
<1>2. CASE value # 0 /\ value <= SmallMax
  <2> DEFINE s == <<value>>
  <2>1. SmallMax \in Nat /\ SmallMax < ByteBase \div 2
    BY ByteAssumption
  <2>2. value < ByteBase \div 2 /\ value \in Bytes
    BY <1>2, <2>1, Halves DEF Bytes
  <2>3. s \in Seq(Bytes) /\ Len(s) = 1 /\ s[1] = value
    BY <2>2
  <2>4. PICK f : Magnitude(s) = f[1] /\ OfLast(s, 1, f)
    BY <2>3, MagnitudeIs
  <2>5. 1 \in 0 .. 1 /\ 1 # 0 /\ 1 - 1 + 1 = 1 /\ 1 - 1 = 0
    OBVIOUS
  <2> HIDE DEF s
  <2>6. f[1] = s[1] + ByteBase * f[0] /\ f[0] = 0
    BY <2>4, <2>5 DEF OfLast
  <2>7. Magnitude(s) = value
    BY <2>3, <2>4, <2>6, Base
  <2>8. FitsIn(1, 4)
    BY Base, OneByte
  <2>9. TopByte(s) = value
    BY <2>3 DEF TopByte
  <2>10. value % (ByteBase \div 2) # 0
    BY <1>2, <2>2, Halves
  <2>11. ~(value >= ByteBase \div 2)
    BY <2>2, Halves
  <2>12. ~IsNegative(s) /\ Minimal(s)
    BY <2>9, <2>10, <2>11, Zenon DEF IsNegative, Minimal
  <2>13. OnStack(value) = s
    BY <1>2, Zenon DEF OnStack, s
  <2> QED BY <2>3, <2>7, <2>8, <2>12, <2>13 DEF Stands
<1>3. CASE value # 0 /\ ~(value <= SmallMax)
  BY <1>3, ScriptNumberStands, Zenon DEF OnStack
<1> QED BY <1>1, <1>2, <1>3

-----------------------------------------------------------------------------
(* What data is among other bytes.                                         *)

LEMMA Opcodes ==
    /\ ShortMax \in Nat /\ ShortMax >= 1 /\ SmallMax \in Nat /\ SmallMax >= 1
    /\ ShortMax + SmallMax + 5 < ByteBase
    /\ Known \subseteq ShortMax + SmallMax + 6 .. ByteBase - 1
<1> QED BY ByteAssumption

\* b begins with width bytes of length after an opcode, and is data from there on.
Pushes(b, data, width) ==
    /\ width \in {0, 1, 2, 4}
    /\ b \in Seq(Bytes) /\ Len(b) = 1 + width + Len(data)
    /\ WidthAfter(b[1]) = width
    /\ IF width = 0 THEN b[1] = Len(data) /\ Len(data) <= ShortMax
       ELSE /\ FitsIn(Len(data), width) /\ b[1] > 0
            /\ \A k \in 1 .. width : b[1 + k] = LittleEndian(Len(data), width)[k]
    /\ \A k \in 1 .. Len(data) : b[1 + width + k] = data[k]

LEMMA DataPushes ==
    ASSUME NEW data \in Seq(Bytes), FitsIn(Len(data), 4)
    PROVE  \E width : Pushes(DataBytes(data), data, width)
<1> DEFINE len == Len(data)
<1>1. len \in Nat
  OBVIOUS
<1>2. CASE len <= ShortMax
  <2>1. len \in Bytes
    BY <1>1, <1>2, Opcodes, Base DEF Bytes
  <2>2. FitsIn(len, 1) /\ FitsIn(len, 2)
    BY <1>1, <2>1, OneByte, Base DEF Bytes
  <2>3. ~(len > ShortMax)
    BY <1>1, <1>2, Opcodes
  <2>4. DataBytes(data) = <<len>> \o data
    BY <1>2, <2>2, <2>3, Zenon DEF DataBytes
  <2>5. WidthAfter(len) = 0
    BY <1>1, <1>2, Opcodes DEF WidthAfter, OP_PUSHDATA1, OP_PUSHDATA2, OP_PUSHDATA4
  <2> DEFINE b == <<len>> \o data
  <2>6. <<len>> \in Seq(Bytes) /\ Len(<<len>>) = 1 /\ <<len>>[1] = len
    BY <2>1
  <2> HIDE DEF len
  <2>7. b \in Seq(Bytes) /\ Len(b) = 1 + len /\ b[1] = len /\ \A k \in 1 .. len : b[1 + k] = data[k]
    BY <2>6 DEF len
  <2> HIDE DEF b
  <2>8. Pushes(b, data, 0)
    BY <1>1, <1>2, <2>5, <2>7 DEF Pushes, len
  <2> QED BY <2>4, <2>8 DEF b
<1>3. ASSUME NEW width \in {1, 2, 4}, NEW op \in Bytes, FitsIn(len, width), WidthAfter(op) = width, op > 0,
             DataBytes(data) = (<<op>> \o LittleEndian(len, width)) \o data
      PROVE  Pushes(DataBytes(data), data, width)
  <2> DEFINE le == LittleEndian(len, width)
             head == <<op>> \o le
             b == head \o data
  <2>1. le \in Seq(Bytes) /\ Len(le) = width
    <3>1. width \in 0 .. 9
      OBVIOUS
    <3> QED BY <1>1, <3>1, LittleEndianIs, Zenon
  <2> HIDE DEF le, len
  <2>2. <<op>> \in Seq(Bytes) /\ Len(<<op>>) = 1 /\ <<op>>[1] = op
    OBVIOUS
  <2>3. head \in Seq(Bytes) /\ Len(head) = 1 + width /\ head[1] = op /\ \A k \in 1 .. width : head[1 + k] = le[k]
    BY <2>1, <2>2
  <2> HIDE DEF head
  <2>4. b \in Seq(Bytes) /\ Len(b) = 1 + width + len
    BY <2>3 DEF len
  <2>5. b[1] = op
    BY <2>3
  <2>6. \A k \in 1 .. width : b[1 + k] = le[k]
    BY <2>3
  <2>7. \A k \in 1 .. len : b[1 + width + k] = data[k]
    BY <2>3 DEF len
  <2>8. width # 0
    OBVIOUS
  <2> HIDE DEF b
  <2>9. DataBytes(data) = b
    BY <1>3 DEF b, head, le
  <2> QED BY <1>3, <2>4, <2>5, <2>6, <2>7, <2>8, <2>9 DEF Pushes, len, le
<1>4. /\ OP_PUSHDATA1 \in Bytes /\ WidthAfter(OP_PUSHDATA1) = 1 /\ OP_PUSHDATA1 > 0
      /\ OP_PUSHDATA2 \in Bytes /\ WidthAfter(OP_PUSHDATA2) = 2 /\ OP_PUSHDATA2 > 0
      /\ OP_PUSHDATA4 \in Bytes /\ WidthAfter(OP_PUSHDATA4) = 4 /\ OP_PUSHDATA4 > 0
  BY Opcodes, Base DEF Bytes, WidthAfter, OP_PUSHDATA1, OP_PUSHDATA2, OP_PUSHDATA4
<1>5. CASE len > ShortMax /\ FitsIn(len, 1)
  <2>1. ~(len <= ShortMax)
    BY <1>1, <1>5, Opcodes
  <2>2. FitsIn(len, 2)
    BY <1>1, <1>5, FitsMore
  <2>3. DataBytes(data) = (<<OP_PUSHDATA1>> \o LittleEndian(len, 1)) \o data
    BY <1>5, <2>1, <2>2, Zenon DEF DataBytes
  <2> QED BY <1>3, <1>4, <1>5, <2>3
<1>6. ~FitsIn(len, 1) => ~(len <= ShortMax) /\ len > ShortMax
  BY <1>1, OneByte, Opcodes, Base
<1>7. CASE ~FitsIn(len, 1) /\ FitsIn(len, 2)
  <2>1. DataBytes(data) = (<<OP_PUSHDATA2>> \o LittleEndian(len, 2)) \o data
    BY <1>6, <1>7, Zenon DEF DataBytes
  <2> QED BY <1>3, <1>4, <1>7, <2>1
<1>8. CASE ~FitsIn(len, 2)
  <2>1. ~FitsIn(len, 1)
    BY <1>1, <1>8, FitsMore
  <2>2. DataBytes(data) = (<<OP_PUSHDATA4>> \o LittleEndian(len, 4)) \o data
    BY <1>6, <1>8, <2>1, Zenon DEF DataBytes
  <2> QED BY <1>3, <1>4, <2>2
<1>9. len <= ShortMax \/ len > ShortMax
  BY <1>1, Opcodes
<1> QED BY <1>2, <1>5, <1>7, <1>8, <1>9

-----------------------------------------------------------------------------
(* The invariant: where each item begins, and what has been read of it.    *)

\* What code generation takes without an error.
Items ==
    ({"number"} \X {v \in Nat : FitsIn(v, 8)}) \cup
    ({"data"} \X {d \in Seq(Bytes) : FitsIn(Len(d), 4)}) \cup ({"op"} \X Known)

\* What the item is once read: a number is data on the stack.
Meant(item) == IF item[1] = "number" THEN <<"data", OnStack(item[2])>> ELSE item

Stacked == ({"data"} \X Seq(Bytes)) \cup ({"op"} \X Known)

\* Item k + 1 of its begins after at[k] bytes of code; no item is without a byte.
Begins(at, its, code) ==
    /\ at \in [0 .. Len(its) -> Nat]
    /\ at[0] = 0 /\ at[Len(its)] = Len(code)
    /\ \A k \in 0 .. Len(its) : k # Len(its) =>
          /\ at[k] < Len(code) /\ at[k + 1] <= Len(code)
          /\ at[k + 1] = at[k] + Len(ItemBytes(its[k + 1]))
          /\ \A j \in 1 .. Len(ItemBytes(its[k + 1])) : code[at[k] + j] = ItemBytes(its[k + 1])[j]

ReadInv ==
    /\ items \in Seq(Items) /\ bytecode \in Seq(Bytes) /\ asm \in Seq(Stacked)
    /\ Len(asm) <= Len(items) /\ \A k \in 1 .. Len(asm) : asm[k] = Meant(items[k])
    /\ verdict \in {"encoding", "ValueTooLarge", "EmptyBytecode", "reading", "valid"}
    /\ verdict = "encoding" => Len(asm) = 0
    /\ verdict = "valid" => Len(asm) = Len(items)
    /\ \E at : Begins(at, items, bytecode) /\ offset = at[Len(asm)]

\* What an item becomes: one byte, or data after its length.
LEMMA ItemBytesAre ==
    ASSUME NEW item \in Items
    PROVE  /\ ItemBytes(item) \in Seq(Bytes) /\ Len(ItemBytes(item)) \in Nat /\ Len(ItemBytes(item)) >= 1
           /\ Meant(item) \in Stacked
           /\ \/ /\ item[1] = "op" /\ item[2] \in Known
                 /\ ItemBytes(item) = <<item[2]>> /\ Meant(item) = <<"op", item[2]>>
              \/ ItemBytes(item) = <<OP_FALSE>> /\ Meant(item) = <<"data", << >>>>
              \/ \E v \in 1 .. SmallMax : ItemBytes(item) = <<OP_1 + v - 1>> /\ Meant(item) = <<"data", <<v>>>>
              \/ \E data \in Seq(Bytes), width \in {0, 1, 2, 4} :
                    /\ Pushes(ItemBytes(item), data, width) /\ Meant(item) = <<"data", data>>
<1>1. CASE item \in {"op"} \X Known
  <2>1. item[1] = "op" /\ item[2] \in Known /\ item = <<"op", item[2]>>
    BY <1>1
  <2>2. ItemBytes(item) = <<item[2]>>
    BY <2>1 DEF ItemBytes
  <2>3. item[2] \in Bytes
    <3>1. item[2] \in ShortMax + SmallMax + 6 .. ByteBase - 1
      BY <2>1, Opcodes, Zenon
    <3> QED BY <3>1, Opcodes, Base DEF Bytes
  <2>4. Meant(item) = item
    BY <2>1 DEF Meant
  <2>5. <<item[2]>> \in Seq(Bytes) /\ Len(<<item[2]>>) = 1
    BY <2>3
  <2>6. item \in Stacked
    BY <2>1 DEF Stacked
  <2> QED BY <2>1, <2>2, <2>4, <2>5, <2>6
<1>2. ASSUME NEW data \in Seq(Bytes), FitsIn(Len(data), 4), ItemBytes(item) = DataBytes(data),
             Meant(item) = <<"data", data>>
      PROVE  /\ ItemBytes(item) \in Seq(Bytes) /\ Len(ItemBytes(item)) \in Nat /\ Len(ItemBytes(item)) >= 1
             /\ Meant(item) \in Stacked
             /\ \E d \in Seq(Bytes), width \in {0, 1, 2, 4} :
                    Pushes(ItemBytes(item), d, width) /\ Meant(item) = <<"data", d>>
  <2>1. PICK width : Pushes(DataBytes(data), data, width)
    BY <1>2, DataPushes
  <2>2. width \in {0, 1, 2, 4} /\ DataBytes(data) \in Seq(Bytes) /\ Len(DataBytes(data)) = 1 + width + Len(data)
    BY <2>1, Zenon DEF Pushes
  <2>3. Len(data) \in Nat
    OBVIOUS
  <2>4. Len(DataBytes(data)) \in Nat /\ Len(DataBytes(data)) >= 1
    BY <2>2, <2>3
  <2>5. Meant(item) \in Stacked
    BY <1>2 DEF Stacked
  <2> QED BY <1>2, <2>1, <2>2, <2>4, <2>5, Zenon
<1>3. CASE item \in {"data"} \X {d \in Seq(Bytes) : FitsIn(Len(d), 4)}
  <2>1. item[1] = "data" /\ item[2] \in Seq(Bytes) /\ FitsIn(Len(item[2]), 4) /\ item = <<"data", item[2]>>
    BY <1>3
  <2>2. ItemBytes(item) = DataBytes(item[2]) /\ Meant(item) = <<"data", item[2]>>
    BY <2>1 DEF ItemBytes, Meant
  <2> QED BY <1>2, <2>1, <2>2
<1>4. CASE item \in {"number"} \X {v \in Nat : FitsIn(v, 8)}
  <2> DEFINE v == item[2]
  <2>1. item[1] = "number" /\ v \in Nat /\ FitsIn(v, 8)
    BY <1>4
  <2>2. ItemBytes(item) = NumberBytes(v)
    BY <2>1 DEF ItemBytes
  <2>3. Meant(item) = <<"data", OnStack(v)>>
    BY <2>1, Zenon DEF Meant
  <2>4. OnStack(v) \in Seq(Bytes) /\ FitsIn(Len(OnStack(v)), 4)
    BY <2>1, OnStackStands, Zenon DEF Stands
  <2>5. Meant(item) \in Stacked
    BY <2>3, <2>4 DEF Stacked
  <2> HIDE DEF v
  <2>6. CASE v = 0
    <3>1. ItemBytes(item) = <<OP_FALSE>>
      BY <2>2, <2>6, Opcodes DEF NumberBytes
    <3>2. Meant(item) = <<"data", << >>>>
      BY <2>3, <2>6 DEF OnStack
    <3>3. OP_FALSE \in Bytes
      BY Base DEF OP_FALSE, Bytes
    <3>4. <<OP_FALSE>> \in Seq(Bytes) /\ Len(<<OP_FALSE>>) = 1
      BY <3>3
    <3> QED BY <2>5, <3>1, <3>2, <3>4
  <2>7. CASE v \in 1 .. SmallMax
    <3>1. ItemBytes(item) = <<OP_1 + v - 1>>
      BY <2>2, <2>7, Opcodes DEF NumberBytes
    <3>2. Meant(item) = <<"data", <<v>>>>
      BY <2>3, <2>7, Opcodes DEF OnStack
    <3>3. OP_1 + v - 1 \in Bytes
      BY <2>7, Opcodes, Base DEF OP_1, Bytes
    <3>4. <<OP_1 + v - 1>> \in Seq(Bytes) /\ Len(<<OP_1 + v - 1>>) = 1
      BY <3>3
    <3> QED BY <2>5, <2>7, <3>1, <3>2, <3>4
  <2>8. CASE v > SmallMax
    <3>1. v # 0 /\ ~(v <= SmallMax) /\ ~(v \in 1 .. SmallMax)
      BY <2>1, <2>8, Opcodes
    <3>2. ItemBytes(item) = DataBytes(ScriptNumber(v))
      BY <2>2, <2>8, <3>1, Zenon DEF NumberBytes
    <3>3. OnStack(v) = ScriptNumber(v)
      BY <3>1, Zenon DEF OnStack
    <3>4. ItemBytes(item) = DataBytes(OnStack(v))
      BY <3>2, <3>3, Zenon
    <3> QED BY <1>2, <2>3, <2>4, <3>4
  <2>9. v = 0 \/ v \in 1 .. SmallMax \/ v > SmallMax
    BY <2>1, Opcodes
  <2> QED BY <2>6, <2>7, <2>8, <2>9
<1> QED BY <1>1, <1>3, <1>4 DEF Items

LEMMA InitReads == BytesInit => ReadInv
<1> SUFFICES ASSUME BytesInit PROVE ReadInv
  OBVIOUS
<1>1. items = << >> /\ bytecode = << >> /\ asm = << >> /\ offset = 0 /\ verdict = "encoding"
  BY DEF BytesInit
<1>2. Len(items) = 0 /\ Len(bytecode) = 0 /\ Len(asm) = 0
  BY <1>1
<1> DEFINE at == [k \in 0 .. 0 |-> 0]
<1>3. Begins(at, items, bytecode)
  <2>1. at \in [0 .. 0 -> Nat] /\ at[0] = 0 /\ ~\E k \in 0 .. 0 : k # 0
    OBVIOUS
  <2> HIDE DEF at
  <2> QED BY <1>2, <2>1 DEF Begins
<1>4. at[0] = 0
  OBVIOUS
<1> HIDE DEF at
<1>5. \E f : Begins(f, items, bytecode) /\ offset = f[Len(asm)]
  BY <1>1, <1>2, <1>3, <1>4
<1>6. items \in Seq(Items) /\ bytecode \in Seq(Bytes) /\ asm \in Seq(Stacked)
  BY <1>1
<1> QED BY <1>1, <1>2, <1>5, <1>6 DEF ReadInv

\* One item more begins where the bytes end.
LEMMA EmitReads ==
    ASSUME ReadInv, NEW item \in Items, verdict = "encoding", Emit(item), ~TooLarge(item)
    PROVE  ReadInv'
<1> DEFINE b == ItemBytes(item)
           n == Len(items)
           len == Len(bytecode)
<1>1. /\ items' = Append(items, item) /\ bytecode' = bytecode \o b
      /\ verdict' = verdict /\ offset' = offset /\ asm' = asm
  BY DEF Emit
<1>2. items \in Seq(Items) /\ bytecode \in Seq(Bytes) /\ asm \in Seq(Stacked) /\ Len(asm) = 0
  BY DEF ReadInv
<1>3. b \in Seq(Bytes) /\ Len(b) \in Nat /\ Len(b) >= 1
  BY ItemBytesAre, Zenon
<1>4. PICK at : Begins(at, items, bytecode) /\ offset = at[Len(asm)]
  BY Zenon DEF ReadInv
<1>5. n \in Nat /\ len \in Nat
  BY <1>2
<1>6. /\ items' \in Seq(Items) /\ Len(items') = n + 1 /\ items'[n + 1] = item
      /\ \A k \in 1 .. n : items'[k] = items[k]
  BY <1>1, <1>2
<1> HIDE DEF b
<1>7. /\ bytecode' \in Seq(Bytes) /\ Len(bytecode') = len + Len(b)
      /\ \A j \in 1 .. len : bytecode'[j] = bytecode[j]
      /\ \A j \in 1 .. Len(b) : bytecode'[len + j] = b[j]
  BY <1>1, <1>2, <1>3
<1> HIDE DEF n, len
<1> DEFINE f == [k \in 0 .. n + 1 |-> IF k = n + 1 THEN len + Len(b) ELSE at[k]]
<1>8. /\ at \in [0 .. n -> Nat] /\ at[0] = 0 /\ at[n] = len
      /\ \A k \in 0 .. n : k # n =>
            /\ at[k] < len /\ at[k + 1] <= len
            /\ at[k + 1] = at[k] + Len(ItemBytes(items[k + 1]))
            /\ \A j \in 1 .. Len(ItemBytes(items[k + 1])) : bytecode[at[k] + j] = ItemBytes(items[k + 1])[j]
  BY <1>4, Zenon DEF Begins, n, len
<1>9. /\ f \in [0 .. n + 1 -> Nat] /\ f[n + 1] = len + Len(b) /\ \A k \in 0 .. n : f[k] = at[k]
  BY <1>3, <1>5, <1>8
<1> HIDE DEF f
<1>10. ASSUME NEW k \in 0 .. n + 1, k # n + 1
       PROVE  /\ f[k] < len + Len(b) /\ f[k + 1] <= len + Len(b)
              /\ f[k + 1] = f[k] + Len(ItemBytes(items'[k + 1]))
              /\ \A j \in 1 .. Len(ItemBytes(items'[k + 1])) :
                    bytecode'[f[k] + j] = ItemBytes(items'[k + 1])[j]
  <2>1. k \in 0 .. n /\ f[k] = at[k]
    BY <1>5, <1>9, <1>10
  <2>2. CASE k = n
    <3>1. items'[k + 1] = item /\ f[k] = len /\ f[k + 1] = len + Len(b)
      BY <1>6, <1>8, <1>9, <2>1, <2>2, Zenon
    <3>2. ItemBytes(items'[k + 1]) = b
      BY <3>1, Zenon DEF b
    <3> QED BY <1>3, <1>5, <1>7, <3>1, <3>2
  <2>3. CASE k # n
    <3>1. k + 1 \in 0 .. n /\ k + 1 \in 1 .. n
      BY <1>5, <2>1, <2>3
    <3>2. items'[k + 1] = items[k + 1] /\ f[k + 1] = at[k + 1]
      BY <1>6, <1>9, <3>1, Zenon
    <3> DEFINE c == ItemBytes(items[k + 1])
    <3>3. /\ at[k] < len /\ at[k + 1] <= len /\ at[k + 1] = at[k] + Len(c)
          /\ \A j \in 1 .. Len(c) : bytecode[at[k] + j] = c[j]
      BY <1>8, <2>1, <2>3, Zenon
    <3>4. items[k + 1] \in Items
      BY <1>2, <3>1 DEF n
    <3>5. Len(c) \in Nat /\ at[k] \in Nat
      BY <1>8, <2>1, <3>4, ItemBytesAre
    <3>6. ItemBytes(items'[k + 1]) = c
      BY <3>2, Zenon
    <3> HIDE DEF c
    <3>7. \A j \in 1 .. Len(c) : bytecode'[at[k] + j] = c[j]
      <4> SUFFICES ASSUME NEW j \in 1 .. Len(c) PROVE bytecode'[at[k] + j] = c[j]
        OBVIOUS
      <4>1. at[k] + j \in 1 .. len
        BY <1>5, <3>3, <3>5
      <4> QED BY <1>7, <3>3, <4>1, Zenon
    <3> QED BY <1>3, <1>5, <2>1, <3>2, <3>3, <3>5, <3>6, <3>7
  <2> QED BY <2>2, <2>3
<1>11. Begins(f, items', bytecode')
  <2>1. f[0] = 0
    BY <1>5, <1>8, <1>9
  <2> QED BY <1>6, <1>7, <1>9, <1>10, <2>1 DEF Begins
<1>12. offset' = f[Len(asm')]
  <2>1. offset' = at[0] /\ Len(asm') = 0
    BY <1>1, <1>2, <1>4, Zenon
  <2>2. 0 \in 0 .. n
    BY <1>5
  <2> QED BY <1>9, <2>1, <2>2, Zenon
<1>13. Len(asm') <= Len(items') /\ \A k \in 1 .. Len(asm') : asm'[k] = Meant(items'[k])
  BY <1>1, <1>2, <1>5, <1>6
<1>14. \E g : Begins(g, items', bytecode') /\ offset' = g[Len(asm')]
  BY <1>11, <1>12, Zenon
<1>15. verdict' = "encoding" /\ Len(asm') = 0 /\ asm' \in Seq(Stacked)
  BY <1>1, <1>2
<1> QED BY <1>6, <1>7, <1>13, <1>14, <1>15 DEF ReadInv

\* The bytes from offset on begin with b.
Ahead(b) ==
    /\ offset \in Nat /\ bytecode \in Seq(Bytes)
    /\ Left >= Len(b) /\ \A k \in 1 .. Len(b) : bytecode[offset + k] = b[k]

\* A reader that has read k items stands where item k + 1 begins.
LEMMA NextIsAhead ==
    ASSUME ReadInv, Left > 0
    PROVE  /\ Len(asm) \in Nat /\ Len(asm) + 1 \in 1 .. Len(items) /\ items[Len(asm) + 1] \in Items
           /\ Ahead(ItemBytes(items[Len(asm) + 1]))
<1> DEFINE n == Len(items)
           m == Len(asm)
           len == Len(bytecode)
           b == ItemBytes(items[m + 1])
<1>1. PICK at : Begins(at, items, bytecode) /\ offset = at[m]
  BY Zenon DEF ReadInv
<1>2. items \in Seq(Items) /\ bytecode \in Seq(Bytes) /\ asm \in Seq(Stacked) /\ m <= n
  BY DEF ReadInv
<1>3. n \in Nat /\ m \in Nat /\ len \in Nat
  BY <1>2
<1>4. /\ at \in [0 .. n -> Nat] /\ at[n] = len
      /\ \A k \in 0 .. n : k # n =>
            /\ at[k] < len /\ at[k + 1] <= len
            /\ at[k + 1] = at[k] + Len(ItemBytes(items[k + 1]))
            /\ \A j \in 1 .. Len(ItemBytes(items[k + 1])) : bytecode[at[k] + j] = ItemBytes(items[k + 1])[j]
  BY <1>1, Zenon DEF Begins
<1>5. m # n
  BY <1>1, <1>3, <1>4 DEF Left
<1>6. m \in 0 .. n /\ m + 1 \in 1 .. n
  BY <1>2, <1>3, <1>5
<1>7. items[m + 1] \in Items
  BY <1>2, <1>6
<1>8. Len(b) \in Nat
  BY <1>7, ItemBytesAre, Zenon
<1>9. at[m + 1] <= len /\ at[m + 1] = at[m] + Len(b) /\ \A j \in 1 .. Len(b) : bytecode[at[m] + j] = b[j]
  BY <1>4, <1>5, <1>6, Zenon
<1>10. at[m] \in Nat
  BY <1>4, <1>6
<1> HIDE DEF b
<1>11. Left >= Len(b)
  BY <1>1, <1>3, <1>8, <1>9, <1>10 DEF Left
<1>12. Ahead(b)
  BY <1>1, <1>2, <1>9, <1>10, <1>11, Zenon DEF Ahead
<1> QED BY <1>3, <1>6, <1>7, <1>12 DEF b

\* A byte opens one kind of instruction only.
LEMMA Apart ==
    ASSUME NEW op \in Bytes
    PROVE  /\ op = OP_FALSE => ~PushesData(op) /\ op # OP_1NEGATE /\ op \notin OP_1 .. OP_16 /\ op \notin Known
           /\ PushesData(op) => op # OP_FALSE /\ op # OP_1NEGATE /\ op \notin OP_1 .. OP_16 /\ op \notin Known
           /\ op \in OP_1 .. OP_16 =>
                 op # OP_FALSE /\ ~PushesData(op) /\ op # OP_1NEGATE /\ op \notin Known
           /\ op \in Known =>
                 op # OP_FALSE /\ ~PushesData(op) /\ op # OP_1NEGATE /\ op \notin OP_1 .. OP_16
<1>1. op \in Nat /\ ShortMax \in Nat /\ ShortMax >= 1 /\ SmallMax \in Nat /\ SmallMax >= 1
  BY Base, Opcodes DEF Bytes
<1>2. op \in Known => op >= ShortMax + SmallMax + 6
  <2>1. op \in Known => op \in ShortMax + SmallMax + 6 .. ByteBase - 1
    BY Opcodes, Zenon
  <2> QED BY <1>1, <2>1, Base
<1>3. PushesData(op) => op >= 1 /\ op <= ShortMax + 3
  BY <1>1 DEF PushesData, WidthAfter, OP_PUSHDATA1, OP_PUSHDATA2, OP_PUSHDATA4
<1>4. op \in OP_1 .. OP_16 => op >= ShortMax + 6 /\ op <= ShortMax + SmallMax + 5
  BY <1>1 DEF OP_1, OP_16
<1>5. op = OP_FALSE => op = 0
  BY DEF OP_FALSE
<1>6. op = OP_1NEGATE <=> op = ShortMax + 4
  BY DEF OP_1NEGATE
<1>7. op # 0 => op # OP_FALSE
  BY DEF OP_FALSE
<1> QED BY <1>1, <1>2, <1>3, <1>4, <1>5, <1>6, <1>7

\* Data is read whatever its bytes are.
LEMMA ReadsPush ==
    ASSUME NEW b, NEW data \in Seq(Bytes), NEW width, Pushes(b, data, width), Ahead(b), ReadItem
    PROVE  Reads(<<"data", data>>, Len(b))
<1> DEFINE len == Len(data)
           le == LittleEndian(len, width)
<1>1. /\ width \in {0, 1, 2, 4}
      /\ b \in Seq(Bytes) /\ Len(b) = 1 + width + len
      /\ WidthAfter(b[1]) = width
      /\ IF width = 0 THEN b[1] = len /\ len <= ShortMax
         ELSE FitsIn(len, width) /\ b[1] > 0 /\ \A k \in 1 .. width : b[1 + k] = le[k]
      /\ \A k \in 1 .. len : b[1 + width + k] = data[k]
  BY Zenon DEF Pushes
<1>2. /\ offset \in Nat /\ bytecode \in Seq(Bytes)
      /\ Left >= Len(b) /\ \A k \in 1 .. Len(b) : bytecode[offset + k] = b[k]
  BY Zenon DEF Ahead
<1>3. len \in Nat /\ Left \in Int /\ width \in 0 .. 9 /\ Len(bytecode) \in Nat
  BY <1>1, <1>2 DEF Left
<1> HIDE DEF len, le
<1>4. 1 \in 1 .. Len(b)
  BY <1>1, <1>3
<1>5. ByteAt(1) = b[1] /\ b[1] \in Bytes
  BY <1>1, <1>2, <1>4 DEF ByteAt
<1>6. CASE b[1] = 0
  <2>1. width = 0
    BY <1>1, <1>6
  <2>2. Len(b) = 1 /\ len = 0
    BY <1>1, <1>3, <1>6, <2>1
  <2>3. data = << >>
    BY <2>2 DEF len
  <2>4. ByteAt(1) = OP_FALSE
    BY <1>5, <1>6 DEF OP_FALSE
  <2>5. Reads(<<"data", << >>>>, 1)
    BY <1>5, <2>4, Apart, Zenon DEF ReadItem
  <2> QED BY <2>2, <2>3, <2>5
<1>7. CASE b[1] # 0
  <2>1. PushesData(b[1]) /\ b[1] # OP_FALSE
    <3>1. CASE width = 0
      <4>1. b[1] \in 1 .. ShortMax
        BY <1>1, <1>3, <1>7, <3>1, Opcodes
      <4> QED BY <1>7, <4>1 DEF PushesData, OP_FALSE
    <3>2. CASE width # 0
      <4>1. WidthAfter(b[1]) > 0
        BY <1>1, <1>3, <3>2
      <4> QED BY <1>7, <4>1 DEF PushesData, OP_FALSE
    <3> QED BY <3>1, <3>2
  <2>2. b[1] # OP_1NEGATE /\ b[1] \notin OP_1 .. OP_16 /\ b[1] \notin Known
    BY <1>5, <2>1, Apart, Zenon
  <2>3. ReadPush(b[1])
    BY <1>5, <2>1, <2>2, Zenon DEF ReadItem
  <2> DEFINE l == IF width = 0 THEN b[1] ELSE Magnitude(SubSeq(bytecode, offset + 2, offset + 1 + width))
  <2>4. l = len
    <3>1. CASE width = 0
      BY <1>1, <3>1
    <3>2. CASE width # 0
      <4> DEFINE s == SubSeq(bytecode, offset + 2, offset + 1 + width)
      <4>1. le \in Seq(Bytes) /\ Len(le) = width
        BY <1>3, LittleEndianIs, Zenon DEF le
      <4>2. \A k \in 1 .. width : offset + 1 + k \in 1 .. Len(bytecode) /\ 1 + k \in 1 .. Len(b)
        BY <1>1, <1>2, <1>3 DEF Left
      <4>3. \A k \in 1 .. width : bytecode[offset + 1 + k] = le[k]
        <5> SUFFICES ASSUME NEW k \in 1 .. width PROVE bytecode[offset + 1 + k] = le[k]
          OBVIOUS
        <5>1. bytecode[offset + (1 + k)] = b[1 + k] /\ b[1 + k] = le[k]
          BY <1>1, <1>2, <3>2, <4>2, Zenon
        <5>2. offset + (1 + k) = offset + 1 + k
          BY <1>2, <1>3
        <5> QED BY <5>1, <5>2, Zenon
      <4>4. s \in Seq(Bytes) /\ Len(s) = width /\ \A k \in 1 .. width : s[k] = bytecode[offset + 1 + k]
        <5> DEFINE from == offset + 2
                   to   == offset + 1 + width
        <5>1. from \in Nat /\ to \in Nat /\ to - from + 1 = width /\ \A k \in 1 .. width : from + k - 1 = offset + 1 + k
          BY <1>2, <1>3
        <5>2. \A k \in from .. to : bytecode[k] \in Bytes
          <6> SUFFICES ASSUME NEW k \in from .. to PROVE bytecode[k] \in Bytes
            OBVIOUS
          <6>1. k - offset - 1 \in 1 .. width /\ offset + 1 + (k - offset - 1) = k
            BY <1>2, <1>3
          <6>2. k \in 1 .. Len(bytecode)
            BY <4>2, <6>1
          <6> HIDE DEF from, to
          <6> QED BY <1>2, <1>3, <6>2
        <5> HIDE DEF from, to
        <5>3. /\ SubSeq(bytecode, from, to) \in Seq(Bytes)
              /\ Len(SubSeq(bytecode, from, to)) = IF from <= to THEN to - from + 1 ELSE 0
              /\ \A k \in 1 .. to - from + 1 : SubSeq(bytecode, from, to)[k] = bytecode[from + k - 1]
          BY <5>1, <5>2, SubSeqProperties
        <5>4. s = SubSeq(bytecode, from, to)
          BY DEF from, to
        <5>5. from <= to
          BY <1>3, <3>2, <5>1
        <5> HIDE DEF s
        <5> QED BY <5>1, <5>3, <5>4, <5>5
      <4> HIDE DEF s
      <4>5. s = le
        BY <4>1, <4>3, <4>4, SeqEqual
      <4>6. Magnitude(le) = len
        BY <1>1, <1>3, <3>2, MagnitudeOfNumber DEF le
      <4> QED BY <3>2, <4>5, <4>6, Zenon DEF s
    <3> QED BY <3>1, <3>2
  <2> DEFINE d == SubSeq(bytecode, offset + width + 2, offset + width + 1 + len)
  <2>5. d = data
    <3>1. \A k \in 1 .. len : offset + width + 1 + k \in 1 .. Len(bytecode) /\ 1 + width + k \in 1 .. Len(b)
      BY <1>1, <1>2, <1>3 DEF Left
    <3>2. \A k \in 1 .. len : bytecode[offset + width + 1 + k] = data[k]
      <4> SUFFICES ASSUME NEW k \in 1 .. len PROVE bytecode[offset + width + 1 + k] = data[k]
        OBVIOUS
      <4>1. bytecode[offset + (1 + width + k)] = b[1 + width + k] /\ b[1 + width + k] = data[k]
        BY <1>1, <1>2, <3>1, Zenon
      <4>2. offset + (1 + width + k) = offset + width + 1 + k
        BY <1>2, <1>3
      <4> QED BY <4>1, <4>2, Zenon
    <3>3. d \in Seq(Bytes) /\ Len(d) = len /\ \A k \in 1 .. len : d[k] = bytecode[offset + width + 1 + k]
      BY <1>2, <1>3, <3>1
    <3> HIDE DEF d
    <3> QED BY <3>2, <3>3, SeqEqual DEF len
  <2>6. ~(Left < 1 + width) /\ ~(Left < 1 + width + len)
    BY <1>1, <1>2, <1>3
  <2>7. /\ WidthAfter(b[1]) = width
        /\ IF Left < 1 + width THEN Fails("missing length")
           ELSE IF Left < 1 + width + l THEN Fails("push data exceeds bytecode length")
           ELSE Reads(<<"data", SubSeq(bytecode, offset + width + 2, offset + width + 1 + l)>>, 1 + width + l)
    BY <1>1, <2>3, Zenon DEF ReadPush
  <2> HIDE DEF l
  <2>8. Reads(<<"data", d>>, 1 + width + len)
    BY <2>4, <2>6, <2>7, Zenon
  <2> HIDE DEF d
  <2> QED BY <1>1, <2>5, <2>8, Zenon
<1> QED BY <1>6, <1>7

\* An item is read as it was meant, and all of it.
LEMMA ReadsMeant ==
    ASSUME NEW item \in Items, Ahead(ItemBytes(item)), ReadItem
    PROVE  Reads(Meant(item), Len(ItemBytes(item)))
<1>1. /\ offset \in Nat /\ bytecode \in Seq(Bytes)
      /\ \A k \in 1 .. Len(ItemBytes(item)) : bytecode[offset + k] = ItemBytes(item)[k]
  BY Zenon DEF Ahead
<1>2. ASSUME NEW op, ItemBytes(item) = <<op>>
      PROVE  ByteAt(1) = op /\ op \in Bytes /\ Len(ItemBytes(item)) = 1
  <2>1. Len(ItemBytes(item)) = 1 /\ ItemBytes(item)[1] = op /\ ItemBytes(item) \in Seq(Bytes)
    BY <1>2, ItemBytesAre
  <2>2. 1 \in 1 .. Len(ItemBytes(item))
    BY <2>1
  <2>3. ItemBytes(item)[1] \in Bytes
    BY <2>1, <2>2, ElementOfSeq, Zenon
  <2>4. bytecode[offset + 1] = ItemBytes(item)[1]
    BY <1>1, <2>2, Zenon
  <2> QED BY <2>1, <2>3, <2>4, Zenon DEF ByteAt
<1>3. CASE item[1] = "op" /\ item[2] \in Known /\ ItemBytes(item) = <<item[2]>> /\ Meant(item) = <<"op", item[2]>>
  <2>1. ByteAt(1) = item[2] /\ item[2] \in Bytes /\ Len(ItemBytes(item)) = 1
    BY <1>2, <1>3
  <2> DEFINE op == item[2]
  <2> HIDE DEF op
  <2>2. ByteAt(1) = op /\ op \in Bytes /\ op \in Known
    BY <1>3, <2>1 DEF op
  <2>3. Reads(<<"op", op>>, 1)
    BY <2>2, Apart, Zenon DEF ReadItem
  <2> QED BY <1>3, <2>1, <2>3, Zenon DEF op
<1>4. CASE ItemBytes(item) = <<OP_FALSE>> /\ Meant(item) = <<"data", << >>>>
  <2>1. ByteAt(1) = OP_FALSE /\ OP_FALSE \in Bytes /\ Len(ItemBytes(item)) = 1
    BY <1>2, <1>4
  <2>2. Reads(<<"data", << >>>>, 1)
    BY <2>1, Apart, Zenon DEF ReadItem
  <2> QED BY <1>4, <2>1, <2>2, Zenon
<1>5. ASSUME NEW v \in 1 .. SmallMax, ItemBytes(item) = <<OP_1 + v - 1>>, Meant(item) = <<"data", <<v>>>>
      PROVE  Reads(Meant(item), Len(ItemBytes(item)))
  <2> DEFINE op == OP_1 + v - 1
  <2>1. op \in OP_1 .. OP_16 /\ op - OP_1 + 1 = v
    BY Opcodes DEF OP_1, OP_16
  <2> HIDE DEF op
  <2>2. ByteAt(1) = op /\ op \in Bytes /\ Len(ItemBytes(item)) = 1
    <3>1. ItemBytes(item) = <<op>>
      BY <1>5, Zenon DEF op
    <3> QED BY <1>2, <3>1, Zenon
  <2>3. Reads(<<"data", <<op - OP_1 + 1>>>>, 1)
    BY <2>1, <2>2, Apart, Zenon DEF ReadItem
  <2> QED BY <1>5, <2>1, <2>2, <2>3, Zenon
<1>6. ASSUME NEW data \in Seq(Bytes), NEW width \in {0, 1, 2, 4},
             Pushes(ItemBytes(item), data, width), Meant(item) = <<"data", data>>
      PROVE  Reads(Meant(item), Len(ItemBytes(item)))
  BY <1>6, ReadsPush, Zenon
<1> QED BY <1>3, <1>4, <1>5, <1>6, ItemBytesAre, Zenon

LEMMA ReadItemReads ==
    ASSUME ReadInv, ReadItem
    PROVE  ReadInv'
<1> DEFINE m == Len(asm)
           item == items[m + 1]
           b == ItemBytes(item)
<1>1. Left > 0 /\ verdict = "reading" /\ items' = items /\ bytecode' = bytecode
  BY DEF ReadItem
<1>2. m \in Nat /\ m + 1 \in 1 .. Len(items) /\ item \in Items /\ Ahead(b)
  BY <1>1, NextIsAhead, Zenon
<1>3. Reads(Meant(item), Len(b))
  BY <1>2, ReadsMeant, Zenon
<1>4. /\ items \in Seq(Items) /\ bytecode \in Seq(Bytes) /\ asm \in Seq(Stacked)
      /\ m <= Len(items) /\ \A k \in 1 .. m : asm[k] = Meant(items[k])
  BY DEF ReadInv
<1>5. PICK at : Begins(at, items, bytecode) /\ offset = at[m]
  BY Zenon DEF ReadInv
<1>6. Meant(item) \in Stacked
  BY <1>2, ItemBytesAre, Zenon
<1>7. asm' = Append(asm, Meant(item)) /\ offset' = offset + Len(b) /\ verdict' = verdict
  BY <1>3 DEF Reads
<1>8. Len(items) \in Nat
  BY <1>4
<1>9. offset' = at[m + 1]
  <2>1. m \in 0 .. Len(items) /\ m # Len(items)
    BY <1>2, <1>8
  <2>2. at[m + 1] = at[m] + Len(b)
    BY <1>5, <2>1, Zenon DEF Begins
  <2> QED BY <1>5, <1>7, <2>2, Zenon
<1> HIDE DEF item
<1>10. /\ asm' \in Seq(Stacked) /\ Len(asm') = m + 1 /\ asm'[m + 1] = Meant(item)
       /\ \A k \in 1 .. m : asm'[k] = asm[k]
  BY <1>4, <1>6, <1>7
<1> HIDE DEF m
<1>11. \A k \in 1 .. m + 1 : asm'[k] = Meant(items'[k])
  <2> SUFFICES ASSUME NEW k \in 1 .. m + 1 PROVE asm'[k] = Meant(items'[k])
    OBVIOUS
  <2>1. CASE k = m + 1
    BY <1>1, <1>10, <2>1, Zenon DEF item
  <2>2. CASE k # m + 1
    <3>1. k \in 1 .. m
      BY <1>2, <2>2
    <3> QED BY <1>1, <1>4, <1>10, <3>1, Zenon
  <2> QED BY <2>1, <2>2
<1>12. Len(asm') <= Len(items')
  BY <1>1, <1>2, <1>8, <1>10
<1>13. \E f : Begins(f, items', bytecode') /\ offset' = f[Len(asm')]
  BY <1>1, <1>5, <1>9, <1>10, Zenon
<1>14. verdict' = "reading"
  BY <1>1, <1>7
<1> QED BY <1>1, <1>4, <1>10, <1>11, <1>12, <1>13, <1>14 DEF ReadInv

\* Once no byte is left, every item has been read: none is without a byte.
LEMMA AcceptReads ==
    ASSUME ReadInv, Accept
    PROVE  ReadInv'
<1> DEFINE n == Len(items)
           m == Len(asm)
<1>1. Left = 0 /\ verdict' = "valid" /\ items' = items /\ bytecode' = bytecode /\ asm' = asm /\ offset' = offset
  BY DEF Accept
<1>2. PICK at : Begins(at, items, bytecode) /\ offset = at[m]
  BY Zenon DEF ReadInv
<1>3. items \in Seq(Items) /\ bytecode \in Seq(Bytes) /\ asm \in Seq(Stacked) /\ m <= n
  BY DEF ReadInv
<1>4. n \in Nat /\ m \in Nat /\ Len(bytecode) \in Nat /\ m \in 0 .. n
  BY <1>3
<1>5. at \in [0 .. n -> Nat] /\ \A k \in 0 .. n : k # n => at[k] < Len(bytecode)
  BY <1>2, Zenon DEF Begins
<1>6. at[m] \in Nat
  BY <1>4, <1>5
<1>7. m = n
  BY <1>1, <1>2, <1>4, <1>5, <1>6 DEF Left
<1> QED BY <1>1, <1>7 DEF ReadInv

LEMMA NextReads == ReadInv /\ [BytesNext]_byteVars => ReadInv'
<1> SUFFICES ASSUME ReadInv, [BytesNext]_byteVars PROVE ReadInv'
  OBVIOUS
<1>1. ASSUME NEW item, Emit(item), TooLarge(item) \/ item \in Items PROVE ReadInv'
  <2>1. verdict = "encoding"
    BY <1>1 DEF Emit
  <2>2. CASE TooLarge(item)
    <3>1. verdict' = "ValueTooLarge" /\ items' = items /\ bytecode' = bytecode /\ asm' = asm /\ offset' = offset
      BY <1>1, <2>2 DEF Emit
    <3> QED BY <3>1 DEF ReadInv
  <2>3. CASE ~TooLarge(item)
    BY <1>1, <2>1, <2>3, EmitReads
  <2> QED BY <2>2, <2>3
<1>2. ASSUME NEW v \in Numbers, Emit(<<"number", v>>) PROVE ReadInv'
  <2>1. v \in Nat /\ FitsIn(v, 8)
    BY ByteAssumption
  <2>2. <<"number", v>> \in Items
    BY <2>1 DEF Items
  <2> QED BY <1>1, <1>2, <2>2
<1>3. ASSUME NEW d \in Data, Emit(<<"data", d>>) PROVE ReadInv'
  <2>1. d \in Seq(Bytes)
    BY ByteAssumption DEF Bytes
  <2>2. TooLarge(<<"data", d>>) \/ <<"data", d>> \in Items
    BY <2>1 DEF Items, TooLarge
  <2> QED BY <1>1, <1>3, <2>2
<1>4. ASSUME NEW op \in Known, Emit(<<"op", op>>) PROVE ReadInv'
  <2>1. <<"op", op>> \in Items
    BY DEF Items
  <2> QED BY <1>1, <1>4, <2>1
<1>5. CASE Verify
  <2>1. /\ verdict = "encoding" /\ verdict' \in {"EmptyBytecode", "reading"}
        /\ items' = items /\ bytecode' = bytecode /\ asm' = asm /\ offset' = offset
    BY <1>5 DEF Verify
  <2> QED BY <2>1 DEF ReadInv
<1>6. CASE ReadItem
  BY <1>6, ReadItemReads
<1>7. CASE Accept
  BY <1>7, AcceptReads
<1>8. CASE UNCHANGED byteVars
  BY <1>8 DEF ReadInv, byteVars
<1> QED BY <1>2, <1>3, <1>4, <1>5, <1>6, <1>7, <1>8 DEF BytesNext

LEMMA ReadInvHolds == BytesSpec => []ReadInv
<1> QED BY InitReads, NextReads, PTL DEF BytesSpec

-----------------------------------------------------------------------------
(* The properties.                                                         *)

\* Whatever code generation makes is accepted, if it is not empty, and taken apart
\* where it was put together.
THEOREM ReadBackHolds == BytesSpec => []ReadBack
<1>1. ReadInv => ReadBack
  <2> SUFFICES ASSUME ReadInv PROVE ReadBack
    OBVIOUS
  <2>1. /\ asm \in Seq(Stacked) /\ Len(asm) <= Len(items)
        /\ \A k \in 1 .. Len(asm) : asm[k] = Meant(items[k])
        /\ verdict \in {"encoding", "ValueTooLarge", "EmptyBytecode", "reading", "valid"}
        /\ verdict = "valid" => Len(asm) = Len(items)
    BY DEF ReadInv
  <2>2. ASSUME NEW k \in DOMAIN asm, items[k][1] # "number" PROVE asm[k] = items[k]
    <3>1. k \in 1 .. Len(asm)
      BY <2>1
    <3> QED BY <2>1, <2>2, <3>1, Zenon DEF Meant
  <2> QED BY <2>1, <2>2, Zenon DEF ReadBack
<1> QED BY <1>1, ReadInvHolds, PTL

\* A number in a contract is the number the engine finds on its stack, in a form it accepts.
THEOREM NumbersAreKeptHolds == BytesSpec => []NumbersAreKept
<1>1. ReadInv => NumbersAreKept
  <2> SUFFICES ASSUME ReadInv, NEW k \in DOMAIN asm, items[k][1] = "number"
               PROVE  /\ asm[k][1] = "data"
                      /\ Magnitude(asm[k][2]) = items[k][2] /\ ~IsNegative(asm[k][2])
                      /\ Minimal(asm[k][2])
    BY Zenon DEF NumbersAreKept
  <2>1. /\ asm \in Seq(Stacked) /\ items \in Seq(Items) /\ Len(asm) <= Len(items)
        /\ \A j \in 1 .. Len(asm) : asm[j] = Meant(items[j])
    BY DEF ReadInv
  <2>2. k \in 1 .. Len(asm) /\ items[k] \in Items
    BY <2>1
  <2> DEFINE v == items[k][2]
  <2>3. v \in Nat /\ FitsIn(v, 8)
    BY <2>2 DEF Items
  <2> HIDE DEF v
  <2>4. asm[k] = <<"data", OnStack(v)>>
    BY <2>1, <2>2, Zenon DEF Meant, v
  <2>5. Stands(v, OnStack(v))
    BY <2>3, OnStackStands
  <2>6. asm[k][1] = "data" /\ asm[k][2] = OnStack(v)
    BY <2>4
  <2> QED BY <2>5, <2>6, Zenon DEF Stands, v
<1> QED BY <1>1, ReadInvHolds, PTL

-----------------------------------------------------------------------------
(* NativePlan.                                                             *)

\* What build returns has the fields it has, and keeps them while it is signed.
Shaped(n) ==
    /\ n = [tx |-> n.tx, entries |-> n.entries, fee |-> n.fee]
    /\ n.tx = [inputs |-> n.tx.inputs, outputs |-> n.tx.outputs]
    /\ n.tx.inputs = [i \in DOMAIN n.tx.inputs |->
                        [outpoint |-> n.tx.inputs[i].outpoint, witness |-> n.tx.inputs[i].witness]]
    /\ DOMAIN n.entries = DOMAIN n.tx.inputs

\* The claims, the outputs and the fee add up, and every signature there is was made
\* for this transaction on these claims.
AddsUp(n) == Total(n.entries) - Total(n.tx.outputs) = n.fee

WellSigned(n) ==
    \A i \in DOMAIN n.tx.inputs :
        n.tx.inputs[i].witness \in {None, {SignatureFor(n.tx, n.entries, i)}}

FeeInv ==
    /\ \A n \in native : intact => Shaped(n) /\ AddsUp(n) /\ WellSigned(n)
    /\ FeeIsAsPlanned

-----------------------------------------------------------------------------
(* Sums over sequences.                                                    *)

\* The running sums of a sequence, as SumOf defines them.
Running(s, f) == f = [i \in 0 .. Len(s) |-> IF i = 0 THEN 0 ELSE f[i - 1] + s[i]]

\* The last of them is the sum.
LEMMA SumOfRuns ==
    ASSUME NEW s
    PROVE  SumOf(s) = (CHOOSE f : Running(s, f))[Len(s)]
BY Zenon DEF SumOf, Running

\* There are running sums.
LEMMA RunningExists ==
    ASSUME NEW s, Len(s) \in Nat
    PROVE  \E f : Running(s, f)
<1> DEFINE Upto(n, f) == f = [i \in 0 .. n |-> IF i = 0 THEN 0 ELSE f[i - 1] + s[i]]
           T == {n \in Nat : \E f : Upto(n, f)}
<1>1. 0 \in T
  <2> DEFINE f == [i \in 0 .. 0 |-> 0]
  <2>1. Upto(0, f)
    OBVIOUS
  <2> QED BY <2>1
<1>2. ASSUME NEW n \in T PROVE n + 1 \in T
  <2>1. PICK f : Upto(n, f)
    OBVIOUS
  <2> DEFINE g == [i \in 0 .. n + 1 |-> IF i = 0 THEN 0 ELSE f[i - 1] + s[i]]
  <2>2. n \in Nat /\ \A i \in 0 .. n + 1 : i # 0 => i - 1 \in 0 .. n /\ i - 1 \in 0 .. n + 1
    OBVIOUS
  <2>3. \A i \in 0 .. n : g[i] = f[i]
    BY <2>1
  <2>4. \A i \in 0 .. n + 1 : i # 0 => g[i - 1] = f[i - 1]
    BY <2>2, <2>3
  <2>5. g = [i \in 0 .. n + 1 |-> IF i = 0 THEN 0 ELSE g[i - 1] + s[i]]
    BY <2>4
  <2>6. Upto(n + 1, g)
    BY <2>5, Zenon
  <2>7. n + 1 \in Nat
    BY <2>2
  <2> HIDE DEF g, Upto
  <2>8. \E h : Upto(n + 1, h)
    BY <2>6
  <2> QED BY <2>7, <2>8
<1>0. T \in SUBSET Nat
  OBVIOUS
<1> HIDE DEF T
<1>3. T = Nat
  BY <1>0, <1>1, <1>2, NatInductionOnSet
<1>4. Len(s) \in T
  BY <1>3
<1> QED BY <1>4 DEF T, Running

\* A sum of naturals is one, and no smaller than any of them.
LEMMA SumOfNaturals ==
    ASSUME NEW s, Len(s) \in Nat, \A i \in 1 .. Len(s) : s[i] \in Nat
    PROVE  SumOf(s) \in Nat /\ \A i \in 1 .. Len(s) : s[i] <= SumOf(s)
<1> DEFINE f == CHOOSE f : Running(s, f)
           len == Len(s)
           T == {n \in Nat : n <= len => f[n] \in Nat /\ \A i \in 1 .. n : s[i] <= f[n]}
<1>1. Running(s, f)
  BY RunningExists, Zenon
<1> HIDE DEF f
<1>2. f[0] = 0 /\ \A n \in 0 .. len : n # 0 => f[n] = f[n - 1] + s[n]
  BY <1>1 DEF Running
<1>3. 0 \in T
  BY <1>2
<1>4. ASSUME NEW n \in T PROVE n + 1 \in T
  <2> SUFFICES ASSUME n + 1 <= len PROVE f[n + 1] \in Nat /\ \A i \in 1 .. n + 1 : s[i] <= f[n + 1]
    OBVIOUS
  <2>1. f[n] \in Nat /\ (\A i \in 1 .. n : s[i] <= f[n]) /\ s[n + 1] \in Nat
    OBVIOUS
  <2>2. n + 1 \in 0 .. len /\ n + 1 # 0 /\ (n + 1) - 1 = n
    OBVIOUS
  <2>3. f[n + 1] = f[n] + s[n + 1]
    BY <1>2, <2>2
  <2>4. \A i \in 1 .. n : s[i] \in Nat
    OBVIOUS
  <2>5. ASSUME NEW i \in 1 .. n + 1 PROVE s[i] <= f[n + 1]
    BY <2>1, <2>3, <2>4
  <2> QED BY <2>1, <2>3, <2>5
<1>0. T \in SUBSET Nat
  OBVIOUS
<1> HIDE DEF T
<1>5. T = Nat
  BY <1>0, <1>3, <1>4, NatInductionOnSet
<1>6. len \in T
  BY <1>5
<1> QED BY <1>6, SumOfRuns DEF T, f

LEMMA SumOfNothing == ASSUME NEW s, Len(s) = 0 PROVE SumOf(s) = 0
<1>1. Running(s, CHOOSE f : Running(s, f))
  <2>1. Len(s) \in Nat
    OBVIOUS
  <2> QED BY <2>1, RunningExists, Zenon
<1> DEFINE g == CHOOSE f : Running(s, f)
<1> HIDE DEF g
<1>2. g[0] = 0
  BY <1>1 DEF Running, g
<1> QED BY <1>2, SumOfRuns DEF g

\* What is made of a list entry by entry is as long.
LEMMA ListLength ==
    ASSUME NEW s, NEW n \in Nat, DOMAIN s = 1 .. n, s = [i \in DOMAIN s |-> s[i]]
    PROVE  Len(s) = n
<1>1. s = [i \in 1 .. n |-> s[i]]
  BY Zenon
<1> QED BY <1>1

LEMMA TotalTyped ==
    ASSUME NEW s, NEW n \in Nat, DOMAIN s = 1 .. n, \A i \in 1 .. n : s[i].amount \in Nat
    PROVE  Total(s) \in Nat
<1> DEFINE a == Amounts(s)
<1>1. a = [i \in 1 .. n |-> s[i].amount]
  BY DEF Amounts
<1>2. Len(a) = n /\ \A i \in 1 .. n : a[i] \in Nat
  BY <1>1
<1> HIDE DEF a
<1>3. SumOf(a) \in Nat
  BY <1>2, SumOfNaturals
<1> QED BY <1>3 DEF Total, a

-----------------------------------------------------------------------------
(* Building.                                                               *)

\* Binding outputs to new covenants changes no amount.
LEMMA GenesisKeepsAmounts ==
    ASSUME NEW plan \in Plans
    PROVE  Amounts(BuiltTx(plan).outputs) = Amounts(plan.outputs)
<1> DEFINE txn == Transaction(plan)
           out == BuiltTx(plan).outputs
<1>1. /\ txn = [inputs |-> txn.inputs, outputs |-> txn.outputs]
      /\ txn.outputs = plan.outputs
  BY DEF Transaction
<1>2. out = [k \in DOMAIN plan.outputs |->
                IF \E g \in plan.groups : k \in g[2]
                THEN LET g == CHOOSE g \in plan.groups : k \in g[2]
                     IN  [plan.outputs[k] EXCEPT !.covenant = <<g[1], GenesisId(txn.inputs[g[1]].outpoint, g[2])>>]
                ELSE plan.outputs[k]]
  BY <1>1 DEF BuiltTx, WithGenesis
<1>3. ASSUME NEW k \in DOMAIN plan.outputs
      PROVE  out[k].amount = plan.outputs[k].amount
  <2>1. plan.outputs[k] = [amount |-> plan.outputs[k].amount, script |-> plan.outputs[k].script,
                           covenant |-> plan.outputs[k].covenant]
    BY PlanAssumption
  <2>2. ASSUME NEW c PROVE [plan.outputs[k] EXCEPT !.covenant = c].amount = plan.outputs[k].amount
    BY <2>1
  <2> QED
    BY <1>2, <2>2
<1> HIDE DEF out
<1>4. DOMAIN out = DOMAIN plan.outputs
  BY <1>2
<1> QED
  BY <1>3, <1>4 DEF Amounts, out

\* What is built adds up, and nobody has signed it yet.
LEMMA BuiltIsGood ==
    ASSUME NEW n \in Built
    PROVE  Shaped(n) /\ AddsUp(n) /\ WellSigned(n)
<1>1. PICK plan \in Plans : /\ PlanError(plan) = "Ok"
                            /\ n = [tx |-> BuiltTx(plan), entries |-> Claims(plan), fee |-> plan.expected_fee]
  BY DEF Built
<1>2. Total(Claims(plan)) - Total(plan.outputs) = plan.expected_fee
  BY <1>1 DEF PlanError, Balanced
<1>3. Total(BuiltTx(plan).outputs) = Total(plan.outputs)
  BY GenesisKeepsAmounts DEF Total
<1>4. /\ BuiltTx(plan) = [inputs |-> BuiltTx(plan).inputs, outputs |-> BuiltTx(plan).outputs]
      /\ BuiltTx(plan).inputs = [i \in DOMAIN plan.inputs |-> [outpoint |-> plan.inputs[i].outpoint, witness |-> None]]
  <2> DEFINE txn == Transaction(plan)
             outs == BuiltTx(plan).outputs
  <2>1. txn = [inputs |-> txn.inputs, outputs |-> txn.outputs]
    BY DEF Transaction
  <2>2. BuiltTx(plan) = [txn EXCEPT !.outputs = outs]
    BY <2>1 DEF BuiltTx, WithGenesis
  <2>3. txn.inputs = [i \in DOMAIN plan.inputs |-> [outpoint |-> plan.inputs[i].outpoint, witness |-> None]]
    BY DEF Transaction
  <2> HIDE DEF txn, outs
  <2>4. BuiltTx(plan) = [inputs |-> txn.inputs, outputs |-> outs]
    BY <2>1, <2>2
  <2> QED
    BY <2>3, <2>4
<1>5. AddsUp(n)
  BY <1>1, <1>2, <1>3 DEF AddsUp
<1>6. Shaped(n)
  BY <1>1, <1>4 DEF Shaped, Claims
<1>7. WellSigned(n)
  BY <1>1, <1>4 DEF WellSigned
<1> QED
  BY <1>5, <1>6, <1>7

-----------------------------------------------------------------------------
(* Signing.                                                                *)

\* A signature changes a witness and nothing that another commits to.
LEMMA SigningIsHarmless ==
    ASSUME NEW n, Shaped(n), AddsUp(n), WellSigned(n), NEW i \in DOMAIN n.tx.inputs, NEW m,
           m = [n EXCEPT !.tx.inputs[i].witness = {SignatureFor(n.tx, n.entries, i)}]
    PROVE  Shaped(m) /\ AddsUp(m) /\ WellSigned(m)
<1> DEFINE sig == {SignatureFor(n.tx, n.entries, i)}
<1>1. /\ m.entries = n.entries /\ m.fee = n.fee /\ m.tx.outputs = n.tx.outputs
      /\ m = [tx |-> m.tx, entries |-> m.entries, fee |-> m.fee]
      /\ m.tx = [inputs |-> m.tx.inputs, outputs |-> m.tx.outputs]
      /\ m.tx.inputs = [n.tx.inputs EXCEPT ![i].witness = sig]
  BY DEF Shaped
<1>2. DOMAIN m.tx.inputs = DOMAIN n.tx.inputs
  BY <1>1
<1> HIDE DEF sig
<1>3. ASSUME NEW j \in DOMAIN n.tx.inputs
      PROVE  /\ m.tx.inputs[j] = [outpoint |-> m.tx.inputs[j].outpoint, witness |-> m.tx.inputs[j].witness]
             /\ m.tx.inputs[j].outpoint = n.tx.inputs[j].outpoint
             /\ m.tx.inputs[j].witness = IF j = i THEN sig ELSE n.tx.inputs[j].witness
  <2> DEFINE old == n.tx.inputs[j]
  <2>1. old = [outpoint |-> old.outpoint, witness |-> old.witness]
    BY DEF Shaped
  <2>2. m.tx.inputs[j] = IF j = i THEN [old EXCEPT !.witness = sig] ELSE old
    BY <1>1
  <2> HIDE DEF old
  <2>3. m.tx.inputs[j] = [outpoint |-> old.outpoint, witness |-> IF j = i THEN sig ELSE old.witness]
    BY <2>1, <2>2, SMTT(30)
  <2> QED
    BY <2>3 DEF old
<1>4. ASSUME NEW j \in DOMAIN n.tx.inputs
      PROVE  SignatureFor(m.tx, m.entries, j) = SignatureFor(n.tx, n.entries, j)
  <2>1. [k \in DOMAIN m.tx.inputs |-> m.tx.inputs[k].outpoint]
            = [k \in DOMAIN n.tx.inputs |-> n.tx.inputs[k].outpoint]
    BY <1>2, <1>3
  <2> QED
    BY <2>1, <1>1, Zenon DEF SignatureFor
<1>5. AddsUp(m)
  BY <1>1 DEF AddsUp
<1>6. Shaped(m)
  <2>1. m.tx.inputs = [j \in DOMAIN m.tx.inputs |->
                         [outpoint |-> m.tx.inputs[j].outpoint, witness |-> m.tx.inputs[j].witness]]
    <3>1. m.tx.inputs = [j \in DOMAIN n.tx.inputs |-> m.tx.inputs[j]]
      BY <1>1, <1>2, SMTT(30)
    <3> QED
      BY <3>1, <1>2, <1>3, Zenon
  <2> QED
    BY <1>1, <1>2, <2>1, ZenonT(40) DEF Shaped
<1>7. WellSigned(m)
  <2> SUFFICES ASSUME NEW j \in DOMAIN n.tx.inputs
               PROVE  m.tx.inputs[j].witness \in {None, {SignatureFor(m.tx, m.entries, j)}}
    BY <1>2 DEF WellSigned
  <2>1. n.tx.inputs[j].witness \in {None, {SignatureFor(n.tx, n.entries, j)}}
    BY DEF WellSigned
  <2>2. CASE j = i
    BY <1>3, <1>4, <2>2 DEF sig
  <2>3. CASE j # i
    BY <1>3, <1>4, <2>1, <2>3
  <2> QED
    BY <2>2, <2>3
<1> QED
  BY <1>5, <1>6, <1>7

\* A node takes a signature only over what it signs: an input that asks for one is
\* worth what it was claimed to be.
LEMMA SignedAmountsAreTrue ==
    ASSUME NEW n, Shaped(n), WellSigned(n), NodeTakes(n.tx), Signed(n.tx, SpentBy(n.tx))
    PROVE  Amounts(SpentBy(n.tx)) = Amounts(n.entries)
<1>1. DOMAIN SpentBy(n.tx) = DOMAIN n.tx.inputs /\ DOMAIN n.entries = DOMAIN n.tx.inputs
  BY DEF SpentBy, Shaped
<1>2. ASSUME NEW i \in DOMAIN n.tx.inputs
      PROVE  SpentBy(n.tx)[i].amount = n.entries[i].amount
  <2>1. SpentBy(n.tx)[i].script = "signed"
    BY DEF Signed
  <2>2. n.tx.inputs[i].witness = {SignatureFor(n.tx, SpentBy(n.tx), i)}
    BY <2>1 DEF NodeTakes, ScriptHolds
  <2>3. SignatureFor(n.tx, SpentBy(n.tx), i) = SignatureFor(n.tx, n.entries, i)
    BY <2>2 DEF WellSigned, None
  <2> QED
    BY <2>3 DEF SignatureFor
<1> QED
  BY <1>1, <1>2 DEF Amounts

-----------------------------------------------------------------------------

LEMMA FeeInvInit == NativeInit => FeeInv
BY DEF NativeInit, FeeInv, FeeIsAsPlanned, None

LEMMA FeeInvStep == FeeInv /\ [NativeNext]_nativeVars => FeeInv'
<1> SUFFICES ASSUME FeeInv, [NativeNext]_nativeVars
             PROVE  FeeInv'
  OBVIOUS
<1>1. CASE Build
  <2>1. PICK n \in Built : native' = {n}
    BY <1>1 DEF Build
  <2>2. FeeIsAsPlanned'
    BY <1>1 DEF Build, FeeIsAsPlanned, None
  <2> QED
    BY <2>1, <2>2, BuiltIsGood DEF FeeInv
<1>2. ASSUME NEW n \in native, NEW i \in DOMAIN n.tx.inputs, Sign(i)
      PROVE  FeeInv'
  <2>1. PICK k \in native : /\ i \in DOMAIN k.tx.inputs
                            /\ native' = {[k EXCEPT !.tx.inputs[i].witness = {SignatureFor(k.tx, k.entries, i)}]}
                            /\ intact' = intact /\ settled' = settled
    BY <1>2 DEF Sign
  <2>2. FeeIsAsPlanned'
    BY <2>1 DEF FeeInv, FeeIsAsPlanned
  <2>3. ASSUME intact'
        PROVE  \A m \in native' : Shaped(m) /\ AddsUp(m) /\ WellSigned(m)
    <3>1. Shaped(k) /\ AddsUp(k) /\ WellSigned(k)
      BY <2>1, <2>3 DEF FeeInv
    <3> QED
      BY <2>1, <3>1, SigningIsHarmless
  <2> QED
    BY <2>2, <2>3 DEF FeeInv
<1>3. CASE Alter
  BY <1>3 DEF Alter, FeeInv, FeeIsAsPlanned
<1>4. CASE Submit
  <2>1. PICK n \in native : /\ NodeTakes(n.tx)
                            /\ settled' = {[native |-> n, intact |-> intact, spent |-> SpentBy(n.tx)]}
                            /\ native' = native /\ intact' = intact
    BY <1>4 DEF Submit
  <2>2. ASSUME intact, Signed(n.tx, SpentBy(n.tx))
        PROVE  Total(SpentBy(n.tx)) - Total(n.tx.outputs) = n.fee
    <3>1. Shaped(n) /\ AddsUp(n) /\ WellSigned(n)
      BY <2>2 DEF FeeInv
    <3>2. Amounts(SpentBy(n.tx)) = Amounts(n.entries)
      BY <2>1, <2>2, <3>1, SignedAmountsAreTrue
    <3> QED
      BY <3>1, <3>2 DEF AddsUp, Total
  <2>3. FeeIsAsPlanned'
    BY <2>1, <2>2 DEF FeeIsAsPlanned
  <2> QED
    BY <2>1, <2>3 DEF FeeInv
<1>5. CASE UNCHANGED nativeVars
  BY <1>5 DEF nativeVars, FeeInv, FeeIsAsPlanned
<1> QED
  BY <1>1, <1>2, <1>3, <1>4, <1>5 DEF NativeNext

\* A plan all of whose coins ask for signatures pays, once a node has taken it, what
\* Tn10Plan::build worked out, whatever the caller took the coins to be worth.
THEOREM FeeIsAsPlannedHolds == NativeSpec => []FeeIsAsPlanned
<1>1. FeeInv => FeeIsAsPlanned
  BY DEF FeeInv
<1> QED
  BY FeeInvInit, FeeInvStep, <1>1, PTL DEF NativeSpec

-----------------------------------------------------------------------------
(* Amounts, and what the node takes.                                       *)

IsList(s) == (\E n \in Nat : DOMAIN s = 1 .. n) /\ s = [i \in DOMAIN s |-> s[i]]

\* What a caller holds, altered or not: a transaction of outputs that are worth a u64,
\* with an entry for each input unless they were dropped.
Fielded(n) ==
    /\ n = [tx |-> n.tx, entries |-> n.entries, fee |-> n.fee]
    /\ n.tx = [inputs |-> n.tx.inputs, outputs |-> n.tx.outputs]
    /\ IsList(n.tx.inputs)
    /\ \A i \in DOMAIN n.tx.inputs :
          n.tx.inputs[i] = [outpoint |-> n.tx.inputs[i].outpoint, witness |-> n.tx.inputs[i].witness]
    /\ n.tx.outputs = [k \in DOMAIN n.tx.outputs |-> n.tx.outputs[k]]
    /\ \A k \in DOMAIN n.tx.outputs :
          LET o == n.tx.outputs[k]
          IN  o = [amount |-> o.amount, script |-> o.script, covenant |-> o.covenant] /\ o.amount \in 0 .. U64Max
    /\ n.fee \in 0 .. U64Max
    /\ Total(n.entries) \in 0 .. U64Max
    /\ n.entries # << >> => IsList(n.entries) /\ DOMAIN n.entries = DOMAIN n.tx.inputs

\* What build made sure of and no signature changes.
Sound(n) ==
    /\ Distinct(n.tx.inputs)
    /\ IsList(n.entries) /\ DOMAIN n.entries = DOMAIN n.tx.inputs
    /\ Total(n.tx.outputs) <= Total(n.entries)

TakenInv ==
    /\ \A o \in DOMAIN ledger : ledger[o].amount \in 0 .. U64Max
    /\ intact \in BOOLEAN
    /\ \A n \in native : Fielded(n) /\ (intact => Sound(n))

\* What build makes of a plan, field by field.
LEMMA BuiltFields ==
    ASSUME NEW plan \in Plans
    PROVE  LET out == BuiltTx(plan).outputs
           IN  /\ BuiltTx(plan) = [inputs |-> BuiltTx(plan).inputs, outputs |-> out]
               /\ BuiltTx(plan).inputs = [i \in DOMAIN plan.inputs |->
                                            [outpoint |-> plan.inputs[i].outpoint, witness |-> None]]
               /\ out = [k \in DOMAIN plan.outputs |-> out[k]]
               /\ \A k \in DOMAIN plan.outputs :
                     /\ out[k] = [amount |-> out[k].amount, script |-> out[k].script, covenant |-> out[k].covenant]
                     /\ out[k].amount = plan.outputs[k].amount
<1> DEFINE txn == Transaction(plan)
           out == BuiltTx(plan).outputs
           groups == plan.groups
           new(k) == LET g == CHOOSE g \in groups : k \in g[2]
                     IN  <<g[1], GenesisId(txn.inputs[g[1]].outpoint, g[2])>>
<1>1. /\ txn = [inputs |-> txn.inputs, outputs |-> txn.outputs]
      /\ txn.outputs = plan.outputs
      /\ txn.inputs = [i \in DOMAIN plan.inputs |-> [outpoint |-> plan.inputs[i].outpoint, witness |-> None]]
  BY DEF Transaction
<1>2. BuiltTx(plan) = [txn EXCEPT !.outputs = out]
  BY <1>1 DEF BuiltTx, WithGenesis
<1>3. out = [k \in DOMAIN plan.outputs |->
                IF \E g \in groups : k \in g[2] THEN [plan.outputs[k] EXCEPT !.covenant = new(k)] ELSE plan.outputs[k]]
  BY <1>1 DEF BuiltTx, WithGenesis
<1> HIDE DEF out, txn, new
<1>4. BuiltTx(plan) = [inputs |-> txn.inputs, outputs |-> out]
  BY <1>1, <1>2
<1>5. ASSUME NEW k \in DOMAIN plan.outputs
      PROVE  /\ out[k] = [amount |-> out[k].amount, script |-> out[k].script, covenant |-> out[k].covenant]
             /\ out[k].amount = plan.outputs[k].amount
  <2> DEFINE o == plan.outputs[k]
  <2>1. o = [amount |-> o.amount, script |-> o.script, covenant |-> o.covenant]
    BY PlanAssumption
  <2>2. out[k] = [o EXCEPT !.covenant = new(k)] \/ out[k] = o
    BY <1>3
  <2> HIDE DEF o
  <2>3. out[k] = [amount |-> o.amount, script |-> o.script, covenant |-> new(k)] \/ out[k] = o
    BY <2>1, <2>2
  <2>4. CASE out[k] = [amount |-> o.amount, script |-> o.script, covenant |-> new(k)]
    BY <2>4 DEF o
  <2>5. CASE out[k] = o
    BY <2>1, <2>5 DEF o
  <2> QED BY <2>3, <2>4, <2>5
<1>6. out = [k \in DOMAIN plan.outputs |-> out[k]]
  BY <1>3
<1> QED BY <1>1, <1>4, <1>5, <1>6 DEF out

LEMMA BuiltIsSound ==
    ASSUME NEW n \in Built
    PROVE  Fielded(n) /\ Sound(n)
<1>1. PICK plan \in Plans : /\ PlanError(plan) = "Ok"
                            /\ n = [tx |-> BuiltTx(plan), entries |-> Claims(plan), fee |-> plan.expected_fee]
  BY DEF Built
<1> DEFINE len == Len(plan.inputs)
<1>2. len \in Nat /\ DOMAIN plan.inputs = 1 .. len /\ plan.expected_fee \in 0 .. U64Max
  BY PlanAssumption
<1>3. /\ plan.inputs # << >> /\ NoDuplicates(plan) /\ Fits(Claims(plan)) /\ Balanced(plan)
  BY <1>1 DEF PlanError
<1> DEFINE claims == Claims(plan)
           ins == BuiltTx(plan).inputs
           outs == BuiltTx(plan).outputs
<1>4. /\ claims = [i \in 1 .. len |-> claims[i]] /\ \A i \in 1 .. len : claims[i].amount \in 0 .. U64Max
  BY <1>2, PlanAssumption DEF Claims
<1>5. Total(claims) \in Nat
  <2> HIDE DEF claims, len
  <2>1. DOMAIN claims = 1 .. len /\ \A i \in 1 .. len : claims[i].amount \in Nat
    BY <1>4
  <2> QED BY <1>2, <2>1, TotalTyped DEF len
<1>6. Total(plan.outputs) \in Nat
  <2>1. Len(plan.outputs) \in Nat /\ DOMAIN plan.outputs = 1 .. Len(plan.outputs)
    BY PlanAssumption
  <2>2. \A k \in DOMAIN plan.outputs : plan.outputs[k].amount \in 0 .. U64Max
    BY PlanAssumption
  <2>3. \A k \in 1 .. Len(plan.outputs) : plan.outputs[k].amount \in Nat
    BY <2>1, <2>2
  <2> QED BY <2>1, <2>3, TotalTyped
<1>7. Total(outs) = Total(plan.outputs)
  BY GenesisKeepsAmounts DEF Total
<1>8. /\ BuiltTx(plan) = [inputs |-> ins, outputs |-> outs]
      /\ ins = [i \in DOMAIN plan.inputs |-> [outpoint |-> plan.inputs[i].outpoint, witness |-> None]]
      /\ outs = [k \in DOMAIN plan.outputs |-> outs[k]]
      /\ \A k \in DOMAIN plan.outputs :
            /\ outs[k] = [amount |-> outs[k].amount, script |-> outs[k].script, covenant |-> outs[k].covenant]
            /\ outs[k].amount = plan.outputs[k].amount
  BY BuiltFields
<1> HIDE DEF claims, ins, outs, len
<1>9. /\ n.tx = BuiltTx(plan) /\ n.tx.inputs = ins /\ n.tx.outputs = outs /\ n.entries = claims
      /\ n.fee = plan.expected_fee /\ n = [tx |-> n.tx, entries |-> n.entries, fee |-> n.fee]
  BY <1>1, <1>8 DEF claims, ins, outs
<1>10. DOMAIN ins = 1 .. len /\ ins = [i \in 1 .. len |-> ins[i]]
  BY <1>2, <1>8 DEF len
<1>11. \A i \in 1 .. len : /\ ins[i] = [outpoint |-> ins[i].outpoint, witness |-> ins[i].witness]
                           /\ ins[i].outpoint = plan.inputs[i].outpoint
  BY <1>2, <1>8 DEF len
<1>12. IsList(claims) /\ IsList(ins) /\ DOMAIN claims = DOMAIN ins
  BY <1>2, <1>4, <1>10 DEF IsList, len
<1>13. Total(claims) \in 0 .. U64Max
  BY <1>3, <1>5, AmountAssumption DEF Fits, claims
<1>14. \A k \in DOMAIN outs : outs[k] = [amount |-> outs[k].amount, script |-> outs[k].script, covenant |-> outs[k].covenant]
                             /\ outs[k].amount \in 0 .. U64Max
  BY <1>8, PlanAssumption
<1>15. Fielded(n)
  BY <1>2, <1>8, <1>9, <1>10, <1>11, <1>12, <1>13, <1>14 DEF Fielded
<1>16. Distinct(ins)
  BY <1>2, <1>3, <1>10, <1>11 DEF Distinct, NoDuplicates, len
<1>17. Total(outs) <= Total(claims)
  BY <1>2, <1>3, <1>5, <1>6, <1>7 DEF Balanced, claims
<1> QED BY <1>9, <1>12, <1>15, <1>16, <1>17 DEF Sound

LEMMA SigningKeeps ==
    ASSUME NEW n, Fielded(n), NEW i \in DOMAIN n.tx.inputs, NEW sig, NEW m,
           m = [n EXCEPT !.tx.inputs[i].witness = sig]
    PROVE  Fielded(m) /\ (Sound(n) => Sound(m))
<1>1. /\ m.entries = n.entries /\ m.fee = n.fee /\ m.tx.outputs = n.tx.outputs
      /\ m = [tx |-> m.tx, entries |-> m.entries, fee |-> m.fee]
      /\ m.tx = [inputs |-> m.tx.inputs, outputs |-> m.tx.outputs]
      /\ m.tx.inputs = [n.tx.inputs EXCEPT ![i].witness = sig]
  BY DEF Fielded
<1>2. DOMAIN m.tx.inputs = DOMAIN n.tx.inputs
  BY <1>1
<1>3. m.tx.inputs = [j \in DOMAIN m.tx.inputs |-> m.tx.inputs[j]]
  BY <1>1
<1>4. ASSUME NEW j \in DOMAIN n.tx.inputs
      PROVE  /\ m.tx.inputs[j] = [outpoint |-> m.tx.inputs[j].outpoint, witness |-> m.tx.inputs[j].witness]
             /\ m.tx.inputs[j].outpoint = n.tx.inputs[j].outpoint
  <2> DEFINE old == n.tx.inputs[j]
  <2>1. old = [outpoint |-> old.outpoint, witness |-> old.witness]
    BY DEF Fielded
  <2>2. m.tx.inputs[j] = IF j = i THEN [old EXCEPT !.witness = sig] ELSE old
    BY <1>1
  <2> HIDE DEF old
  <2>3. m.tx.inputs[j] = [outpoint |-> old.outpoint, witness |-> IF j = i THEN sig ELSE old.witness]
    BY <2>1, <2>2
  <2> QED BY <2>3 DEF old
<1>5. IsList(n.tx.inputs) => IsList(m.tx.inputs)
  BY <1>2, <1>3 DEF IsList
<1>6. Fielded(m)
  <2>1. \A j \in DOMAIN m.tx.inputs :
          m.tx.inputs[j] = [outpoint |-> m.tx.inputs[j].outpoint, witness |-> m.tx.inputs[j].witness]
    BY <1>2, <1>4
  <2>2. IsList(m.tx.inputs)
    BY <1>5, SMTT(30) DEF Fielded
  <2>3. /\ m.tx.outputs = [k \in DOMAIN m.tx.outputs |-> m.tx.outputs[k]]
        /\ \A k \in DOMAIN m.tx.outputs :
              LET o == m.tx.outputs[k]
              IN  o = [amount |-> o.amount, script |-> o.script, covenant |-> o.covenant] /\ o.amount \in 0 .. U64Max
    <3> DEFINE Listed(outs) ==
          /\ outs = [k \in DOMAIN outs |-> outs[k]]
          /\ \A k \in DOMAIN outs :
                LET o == outs[k]
                IN  o = [amount |-> o.amount, script |-> o.script, covenant |-> o.covenant] /\ o.amount \in 0 .. U64Max
    <3>1. Listed(n.tx.outputs)
      BY DEF Fielded
    <3> HIDE DEF Listed
    <3>2. Listed(m.tx.outputs)
      BY <1>1, <3>1, Zenon
    <3> QED BY <3>2 DEF Listed
  <2>4. /\ m.fee \in 0 .. U64Max /\ Total(m.entries) \in 0 .. U64Max
        /\ m.entries # << >> => IsList(m.entries) /\ DOMAIN m.entries = DOMAIN m.tx.inputs
    BY <1>1, <1>2, Zenon DEF Fielded
  <2> QED BY <1>1, <2>1, <2>2, <2>3, <2>4, Zenon DEF Fielded
<1>7. ASSUME Sound(n) PROVE Sound(m)
  <2>1. Distinct(m.tx.inputs)
    BY <1>2, <1>4, <1>7 DEF Sound, Distinct
  <2> QED BY <1>1, <1>2, <1>7, <2>1, Zenon DEF Sound
<1> QED BY <1>6, <1>7

LEMMA AlteringKeeps ==
    ASSUME NEW n, Fielded(n), NEW m \in Altered(n)
    PROVE  Fielded(m)
<1>1. CASE m = [n EXCEPT !.entries = << >>]
  <2>1. m.tx = n.tx /\ m.fee = n.fee /\ m.entries = << >> /\ m = [tx |-> m.tx, entries |-> m.entries, fee |-> m.fee]
    BY <1>1 DEF Fielded
  <2>2. Total(<< >>) = 0
    <3>1. Len(Amounts(<< >>)) = 0
      BY DEF Amounts
    <3> QED BY <3>1, SumOfNothing DEF Total
  <2> QED BY <2>1, <2>2, AmountAssumption DEF Fielded
<1>2. ASSUME NEW k \in DOMAIN n.tx.outputs, NEW o, o.amount \in 0 .. U64Max,
             o = [amount |-> o.amount, script |-> o.script, covenant |-> o.covenant],
             m = [n EXCEPT !.tx.outputs[k] = o]
      PROVE  Fielded(m)
  <2>1. /\ m.entries = n.entries /\ m.fee = n.fee /\ m.tx.inputs = n.tx.inputs
        /\ m = [tx |-> m.tx, entries |-> m.entries, fee |-> m.fee]
        /\ m.tx = [inputs |-> m.tx.inputs, outputs |-> m.tx.outputs]
        /\ m.tx.outputs = [n.tx.outputs EXCEPT ![k] = o]
    BY <1>2 DEF Fielded
  <2>2. /\ DOMAIN m.tx.outputs = DOMAIN n.tx.outputs
        /\ \A j \in DOMAIN n.tx.outputs : m.tx.outputs[j] = IF j = k THEN o ELSE n.tx.outputs[j]
        /\ m.tx.outputs = [j \in DOMAIN m.tx.outputs |-> m.tx.outputs[j]]
    BY <2>1
  <2>3. ASSUME NEW j \in DOMAIN m.tx.outputs
        PROVE  LET q == m.tx.outputs[j]
               IN  q = [amount |-> q.amount, script |-> q.script, covenant |-> q.covenant] /\ q.amount \in 0 .. U64Max
    <3>1. CASE j = k
      BY <1>2, <2>2, <3>1
    <3>2. CASE j # k
      BY <2>2, <3>2 DEF Fielded
    <3> QED BY <3>1, <3>2
  <2> QED BY <2>1, <2>2, <2>3 DEF Fielded
<1>3. ASSUME NEW k \in DOMAIN n.tx.outputs, NEW a \in Alterations, m = [n EXCEPT !.tx.outputs[k].amount = a]
      PROVE  Fielded(m)
  <2> DEFINE o == n.tx.outputs[k]
             q == [amount |-> a, script |-> o.script, covenant |-> o.covenant]
  <2>1. o = [amount |-> o.amount, script |-> o.script, covenant |-> o.covenant]
    BY DEF Fielded
  <2>2. [o EXCEPT !.amount = a] = q
    BY <2>1
  <2>3. m = [n EXCEPT !.tx.outputs[k] = [o EXCEPT !.amount = a]]
    BY <1>3
  <2>4. m = [n EXCEPT !.tx.outputs[k] = q]
    BY <2>2, <2>3, Zenon
  <2>5. q.amount \in 0 .. U64Max /\ q = [amount |-> q.amount, script |-> q.script, covenant |-> q.covenant]
    BY AmountAssumption
  <2> HIDE DEF q
  <2> QED BY <1>2, <2>4, <2>5
<1>4. ASSUME NEW k \in DOMAIN n.tx.outputs, m = [n EXCEPT !.tx.outputs[k].covenant = NoCovenant]
      PROVE  Fielded(m)
  <2> DEFINE o == n.tx.outputs[k]
             q == [amount |-> o.amount, script |-> o.script, covenant |-> NoCovenant]
  <2>1. o = [amount |-> o.amount, script |-> o.script, covenant |-> o.covenant] /\ o.amount \in 0 .. U64Max
    BY DEF Fielded
  <2>2. [o EXCEPT !.covenant = NoCovenant] = q
    BY <2>1
  <2>3. m = [n EXCEPT !.tx.outputs[k] = [o EXCEPT !.covenant = NoCovenant]]
    BY <1>4
  <2>4. m = [n EXCEPT !.tx.outputs[k] = q]
    BY <2>2, <2>3, Zenon
  <2>5. q.amount \in 0 .. U64Max /\ q = [amount |-> q.amount, script |-> q.script, covenant |-> q.covenant]
    BY <2>1
  <2> HIDE DEF q
  <2> QED BY <1>2, <2>4, <2>5
<1> QED BY <1>1, <1>3, <1>4 DEF Altered

LEMMA TakenInvInit == NativeInit => TakenInv
BY AmountAssumption DEF NativeInit, TakenInv, None

LEMMA TakenInvStep == TakenInv /\ [NativeNext]_nativeVars => TakenInv'
<1> SUFFICES ASSUME TakenInv, [NativeNext]_nativeVars
             PROVE  TakenInv'
  OBVIOUS
<1>1. CASE Build
  <2>1. PICK n \in Built : native' = {n}
    BY <1>1 DEF Build
  <2>2. ledger' = ledger /\ intact' = TRUE
    BY <1>1 DEF Build
  <2> QED BY <2>1, <2>2, BuiltIsSound DEF TakenInv
<1>2. ASSUME NEW n \in native, NEW i \in DOMAIN n.tx.inputs, Sign(i)
      PROVE  TakenInv'
  <2>1. PICK k \in native : /\ i \in DOMAIN k.tx.inputs
                            /\ native' = {[k EXCEPT !.tx.inputs[i].witness = {SignatureFor(k.tx, k.entries, i)}]}
                            /\ intact' = intact /\ ledger' = ledger
    BY <1>2 DEF Sign
  <2>2. Fielded(k) /\ (intact => Sound(k)) /\ i \in DOMAIN k.tx.inputs
    BY <2>1 DEF TakenInv
  <2> DEFINE sig == {SignatureFor(k.tx, k.entries, i)}
             m == [k EXCEPT !.tx.inputs[i].witness = sig]
  <2>3. native' = {m}
    BY <2>1
  <2> HIDE DEF sig
  <2>4. Fielded(m) /\ (Sound(k) => Sound(m))
    BY <2>2, SigningKeeps
  <2> HIDE DEF m
  <2> QED BY <2>1, <2>2, <2>3, <2>4 DEF TakenInv
<1>3. CASE Alter
  <2>1. PICK n \in native : \E m \in Altered(n) : native' = {m}
    BY <1>3 DEF Alter
  <2>2. PICK m \in Altered(n) : native' = {m}
    BY <2>1
  <2>3. Fielded(m)
    BY <2>1, <2>2, AlteringKeeps DEF TakenInv
  <2>4. ledger' = ledger /\ intact' = FALSE
    BY <1>3 DEF Alter
  <2> QED BY <2>2, <2>3, <2>4 DEF TakenInv
<1>4. CASE Submit
  <2>1. PICK n \in native :
            LET spent == {n.tx.inputs[i].outpoint : i \in DOMAIN n.tx.inputs}
            IN  /\ ledger' = With([o \in DOMAIN ledger \ spent |-> ledger[o]], NewCoins(n.tx, accepted'))
                /\ native' = native /\ intact' = intact
    BY <1>4, Zenon DEF Submit
  <2> DEFINE kept == [o \in DOMAIN ledger \ {n.tx.inputs[i].outpoint : i \in DOMAIN n.tx.inputs} |-> ledger[o]]
             new == NewCoins(n.tx, accepted')
  <2>2. ledger' = With(kept, new) /\ native' = native /\ intact' = intact
    BY <2>1
  <2>3. \A o \in DOMAIN kept : kept[o].amount \in 0 .. U64Max
    BY DEF TakenInv
  <2>4. \A o \in DOMAIN new : new[o].amount \in 0 .. U64Max
    <3>1. \A k \in DOMAIN n.tx.outputs : n.tx.outputs[k].amount \in 0 .. U64Max
      BY DEF TakenInv, Fielded
    <3>2. ASSUME NEW k \in DOMAIN n.tx.outputs PROVE new[<<accepted', k>>].amount = n.tx.outputs[k].amount
      BY DEF NewCoins
    <3>3. \A o \in DOMAIN new : \E k \in DOMAIN n.tx.outputs : o = <<accepted', k>>
      BY DEF NewCoins
    <3> HIDE DEF new
    <3> QED BY <3>1, <3>2, <3>3
  <2> HIDE DEF kept, new
  <2>5. \A o \in DOMAIN ledger' : ledger'[o].amount \in 0 .. U64Max
    BY <2>2, <2>3, <2>4 DEF With
  <2> QED BY <2>2, <2>5 DEF TakenInv
<1>5. CASE UNCHANGED nativeVars
  BY <1>5 DEF nativeVars, TakenInv
<1> QED BY <1>1, <1>2, <1>3, <1>4, <1>5 DEF NativeNext

\* Every amount on the ledger, every fee and all that is claimed is a u64, whatever is
\* built, altered and submitted, and there is an entry for every input or for none.
THEOREM NativeTypeOKHolds == NativeSpec => []NativeTypeOK
<1>1. TakenInv => NativeTypeOK
  <2> SUFFICES ASSUME TakenInv, NEW n \in native, n.entries # << >>
               PROVE  Len(n.entries) = Len(n.tx.inputs)
    BY DEF TakenInv, NativeTypeOK, Fielded
  <2>1. IsList(n.entries) /\ IsList(n.tx.inputs) /\ DOMAIN n.entries = DOMAIN n.tx.inputs
    BY DEF TakenInv, Fielded
  <2>2. PICK a \in Nat : DOMAIN n.entries = 1 .. a
    BY <2>1 DEF IsList
  <2>3. Len(n.entries) = a /\ Len(n.tx.inputs) = a
    BY <2>1, <2>2, ListLength DEF IsList
  <2> QED BY <2>3
<1> QED
  BY TakenInvInit, TakenInvStep, <1>1, PTL DEF NativeSpec

\* Whatever is built and signed, and whatever others make of the ledger meanwhile: what
\* validate_scripts passes, a node takes, if the coins are what they were claimed to be.
THEOREM ValidatedIsTakenHolds == NativeSpec => []ValidatedIsTaken
<1>1. TakenInv => ValidatedIsTaken
  <2> SUFFICES ASSUME TakenInv, NEW n \in native, intact, ValidateScripts(n) = "Ok", ClaimsAreTrue(n)
               PROVE  NodeTakes(n.tx)
    BY DEF ValidatedIsTaken
  <2>1. Fielded(n) /\ Sound(n)
    BY DEF TakenInv
  <2>2. CovenantsHold(n.tx, n.entries) /\ \A i \in DOMAIN n.tx.inputs : ScriptHolds(n.tx, n.entries, i)
    BY DEF ValidateScripts
  <2>3. \A i \in DOMAIN n.tx.inputs : /\ n.tx.inputs[i].outpoint \in DOMAIN ledger
                                     /\ n.entries[i] = ledger[n.tx.inputs[i].outpoint]
    BY DEF ClaimsAreTrue
  <2>4. SpentBy(n.tx) = n.entries
    <3>1. n.entries = [i \in DOMAIN n.tx.inputs |-> n.entries[i]]
      BY <2>1 DEF Sound, IsList
    <3>2. SpentBy(n.tx) = [i \in DOMAIN n.tx.inputs |-> n.entries[i]]
      BY <2>3 DEF SpentBy
    <3> QED BY <3>1, <3>2
  <2>5. Total(n.entries) <= U64Max /\ Total(n.tx.outputs) <= Total(n.entries) /\ Distinct(n.tx.inputs)
    BY <2>1, AmountAssumption DEF Fielded, Sound
  <2> QED BY <2>2, <2>3, <2>4, <2>5, Zenon DEF NodeTakes
<1> QED
  BY TakenInvInit, TakenInvStep, <1>1, PTL DEF NativeSpec

=============================================================================
