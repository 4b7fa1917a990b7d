--------------------------------- MODULE FeeLoop ---------------------------------
(***************************************************************************)
(* How the lock and the spend transaction get their fee and their change:  *)
(* a loop that builds the transaction with the change of the round before, *)
(* measures its mass, derives fee and change anew, and stops when both     *)
(* repeat, or after ten rounds.                                            *)
(*                                                                         *)
(* Fees are in units of the minimum fee of one gram of mass.  A funding is *)
(* what the loop is given: the coins, and the outputs they are to fund.    *)
(* With those the mass is a function of the change output alone: all else  *)
(* is the same in every round.  An operator whose name ends in _Slip is a  *)
(* mistake that could be made in the definition after it.                  *)
(***************************************************************************)
EXTENDS Integers

CONSTANTS
    Fundings,   \* coins and destination outputs
    Rest,       \* of a funding: its coins less what its outputs take
    Mass,       \* of its transaction with a change output of c; [0] without one
    MaxRest,    \* bound: the largest rest considered
    MassLimit,  \* MAXIMUM_STANDARD_TRANSACTION_MASS
    DustLimit   \* amounts below it are dust

ASSUME MassAssumption ==
    /\ MaxRest \in Nat /\ DustLimit \in Nat /\ MassLimit \in Nat /\ MassLimit <= 100000
    /\ Rest \in [Fundings -> 0 .. MaxRest]
    /\ Mass \in [Fundings -> [0 .. MaxRest -> Nat]]

VARIABLES
    funding,
    fee,        \* as of the round before
    change,     \* as of the round before
    tx,         \* the last transaction built: its change output and its fee
    rounds,     \* rounds done
    outcome     \* "building", "built", or the error

vars == <<funding, fee, change, tx, rounds, outcome>>

TypeOK ==
    /\ funding \in Fundings
    /\ fee \in Nat
    /\ change \in 0 .. MaxRest
    /\ tx \in [change : 0 .. MaxRest, fee : Nat]
    /\ rounds \in 0 .. 10
    /\ outcome \in {"building", "built", "Tx", "InsufficientFunds"}

Init ==
    /\ funding \in Fundings
    /\ fee = 0
    /\ change = 0
    /\ tx = [change |-> 0, fee |-> 0]
    /\ rounds = 0
    /\ outcome = "building"

MaxRounds_Slip == 2

MaxRounds == 10

IsDust(amount) == amount < DustLimit

\* A change output of no use is left out.
ChangeOutput == IF change > 0 /\ ~IsDust(change) THEN change ELSE 0

\* Any mass will do.
Standard_Slip(mass) == mass >= 0

Standard(mass) == mass <= MassLimit

\* The subtraction is not checked.
Affordable_Slip(next_change) == next_change \in Int

Affordable(next_change) == next_change >= 0

Stop(error) ==
    /\ outcome' = error
    /\ UNCHANGED <<funding, fee, change, tx>>

Round ==
    LET mass        == Mass[funding][ChangeOutput]
        next_fee    == mass
        next_change == Rest[funding] - next_fee
    IN  /\ outcome = "building"
        /\ rounds' = rounds + 1
        /\ \/ ~Standard(mass) /\ Stop("Tx")
           \/ Standard(mass) /\ ~Affordable(next_change) /\ Stop("InsufficientFunds")
           \/ /\ Standard(mass) /\ Affordable(next_change)
              /\ tx' = [change |-> ChangeOutput, fee |-> next_fee]
              /\ fee' = next_fee
              /\ change' = next_change
              /\ outcome' = IF (next_fee = fee /\ next_change = change) \/ rounds' = MaxRounds
                            THEN "built" ELSE "building"
              /\ UNCHANGED funding

Next == Round

Spec == Init /\ [][Next]_vars

-----------------------------------------------------------------------------

\* What the inputs of the built transaction leave to the miner.
PaidFee == Rest[funding] - tx.change

\* Fundings for which storage mass behaves.  Each output adds 10^12 over its amount to
\* it and the coins take something off, so that a smaller change means more mass.  If
\* they take off no more than 200000 grams, as two coins of 10^7 do, an amount near the
\* dust limit (below 1000) is far beyond the limit of 100000, and wherever a change is
\* standard the mass falls by at most a tenth of what the change grows by.
Settling ==
    {f \in Fundings :
        /\ \A c \in 1 .. Rest[f] : c <= DustLimit + MassLimit => Mass[f][c] > MassLimit
        /\ \A c \in 1 .. Rest[f] : Mass[f][c] <= MassLimit =>
              \A d \in c .. Rest[f] : Mass[f][c] - Mass[f][d] \in 0 .. (d - c) \div 10 + 1}

\* A transaction that is built of such a funding pays what a node asks of its mass, and
\* what it overpays is dust.  Were it not for the mass limit, a change that is dust
\* after its own fee and none before it would go in and out for ten rounds, and the
\* last one leave a transaction that pays too little.
PaysMinimumFee ==
    outcome = "built" /\ funding \in Settling => PaidFee >= tx.fee /\ PaidFee <= tx.fee + DustLimit

\* A transaction that is built of such a funding is one on which the loop has settled:
\* the ten rounds are never what ends it.
SettlesInTime ==
    outcome = "built" /\ funding \in Settling =>
        fee = tx.fee /\ tx.change = ChangeOutput /\ tx.fee = Mass[funding][tx.change]

=============================================================================
