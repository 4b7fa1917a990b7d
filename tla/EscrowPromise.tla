----------------------------- MODULE EscrowPromise -----------------------------
(***************************************************************************)
(* What the two-party escrow promises, with no transactions, scripts or    *)
(* signatures: money locked at an outpoint leaves it once, whole but for   *)
(* at most the agreed fee, either to the seller with both parties'         *)
(* agreement, or back to the buyer on the buyer's own word once the        *)
(* deadline has passed.  The only thing that may undo a settlement is the  *)
(* DAG itself, which then leaves the money locked as it was.               *)
(***************************************************************************)
EXTENDS Integers

CONSTANTS
    Keys,           \* the parties
    Elsewhere,      \* any recipient that is not a party
    Outpoints,      \* places where money may be locked
    Amount          \* how much each of them holds

VARIABLES
    terms,          \* [buyer, seller, refund_daa_score, max_fee]
    clock,          \* the DAA score
    settlement,     \* what became of each outpoint
    paid,           \* how much it paid out
    agreed          \* who agreed that which outpoint pays whom

vars == <<terms, clock, settlement, paid, agreed>>

Recipients == Keys \cup {Elsewhere}

Init ==
    /\ clock = 0
    /\ settlement = [op \in Outpoints |-> "unfunded"]
    /\ paid = [op \in Outpoints |-> 0]
    /\ agreed = {}
    /\ terms.buyer \in Keys
    /\ terms.seller \in Keys \ {terms.buyer}

Advance ==
    /\ clock' = clock + 1
    /\ UNCHANGED <<terms, settlement, paid, agreed>>

Lock(op) ==
    /\ settlement[op] = "unfunded"
    /\ settlement' = [settlement EXCEPT ![op] = "locked"]
    /\ UNCHANGED <<terms, clock, paid, agreed>>

Agree(key, op, recipient) ==
    /\ agreed' = agreed \cup {<<key, op, recipient>>}
    /\ UNCHANGED <<terms, clock, settlement, paid>>

\* The whole amount, but for at most the agreed fee.
FairValues(op) == {v \in (Amount[op] - terms.max_fee) .. Amount[op] : v >= 0}

Settle(op, outcome, value) ==
    /\ settlement[op] = "locked"
    /\ settlement' = [settlement EXCEPT ![op] = outcome]
    /\ paid' = [paid EXCEPT ![op] = value]
    /\ UNCHANGED <<terms, clock, agreed>>

Release(op, value) ==
    /\ <<terms.buyer, op, terms.seller>> \in agreed
    /\ <<terms.seller, op, terms.seller>> \in agreed
    /\ Settle(op, "released", value)

Refund(op, value) ==
    /\ <<terms.buyer, op, terms.buyer>> \in agreed
    /\ clock > terms.refund_daa_score
    /\ Settle(op, "refunded", value)

\* The DAG reverses an acceptance.
Revert(op) ==
    /\ settlement[op] \in {"released", "refunded"}
    /\ settlement' = [settlement EXCEPT ![op] = "locked"]
    /\ paid' = [paid EXCEPT ![op] = 0]
    /\ UNCHANGED <<terms, clock, agreed>>

Next ==
    \/ Advance
    \/ \E op \in Outpoints : Lock(op) \/ Revert(op)
    \/ \E op \in Outpoints : \E value \in FairValues(op) :
           Release(op, value) \/ Refund(op, value)
    \/ \E key \in Keys, op \in Outpoints, recipient \in Recipients :
           Agree(key, op, recipient)

Spec == Init /\ [][Next]_vars

=============================================================================
