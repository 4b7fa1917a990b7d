---------------------------- MODULE ScriptEngine ----------------------------
(***************************************************************************)
(* Kaspa's script machine, as far as the compiler's operations need it.    *)
(* External: the engine is rusty-kaspa's; what it does is taken from how   *)
(* this repository builds scripts for it and what its tests expect of it.  *)
(*                                                                         *)
(* A transaction is seen from its input 0, the coin the script locks:      *)
(* [inputs, outputs, lockTime, sequence].  A script that fails leaves no   *)
(* stack, one that runs through leaves one: both are sets of stacks.       *)
(***************************************************************************)
EXTENDS SpendCompiler

CONSTANTS LockTimeThreshold,    \* lock times below are DAA scores, others are times
          MaxSequence           \* the sequence that turns lock times off

Truthy(v) == v \notin {Num(0), Bytes("")}

OneInput == {"not", "verify", "sha256", "blake2b", "checklocktimeverify",
             "input_value", "input_script", "output_value", "output_script"}
NoInput  == {"push", "input_count", "output_count"}

Arity(op) == IF op[1] \in NoInput THEN 0 ELSE IF op[1] \in OneInput THEN 1 ELSE 2

SameLockKind(m, n) == (m < LockTimeThreshold) = (n < LockTimeThreshold)

LockTimeReached(n, tx) ==
    n >= 0 /\ SameLockKind(n, tx.lockTime) /\ n <= tx.lockTime /\ tx.sequence # MaxSequence

\* A coin field at an index the transaction has.
CoinField(coins, n, field) == IF n \in 0 .. Len(coins) - 1 THEN {<<coins[n + 1][field]>>} ELSE {}

\* An empty signature is merely false; one that is no signature is an error.
CheckSig(sig, key) ==
    IF key[1] = "key" /\ (sig = Num(0) \/ sig[1] = "sig")
    THEN {<<Truth(sig[1] = "sig" /\ sig[2] = key[2])>>} ELSE {}

Arithmetic2(op, m, n) ==
    LET r == NumericResult(op, m, n) IN IF r = Undefined THEN {} ELSE {<<r>>}

SourceOp(op) ==
    CASE op = "booland"            -> "and"
      [] op = "boolor"             -> "or"
      [] op = "greaterthan"        -> ">"
      [] op = "greaterthanorequal" -> ">="
      [] op = "lessthan"           -> "<"
      [] op = "lessthanorequal"    -> "<="
      [] op = "add"                -> "+"
      [] op = "sub"                -> "-"

\* Operations on numbers, which whatever is no number makes fail.
NumberResults(op, a, tx) ==
    CASE op[1] = "not"           -> {<<Truth(a[1] = Num(0))>>}
      [] op[1] = "numnotequal"   -> {<<Truth(a[1] # a[2])>>}
      [] op[1] = "checklocktimeverify" -> IF LockTimeReached(a[1][2], tx) THEN {<< >>} ELSE {}
      [] op[1] = "input_value"   -> CoinField(tx.inputs, a[1][2], "value")
      [] op[1] = "input_script"  -> CoinField(tx.inputs, a[1][2], "script")
      [] op[1] = "output_value"  -> CoinField(tx.outputs, a[1][2], "value")
      [] op[1] = "output_script" -> CoinField(tx.outputs, a[1][2], "script")
      [] OTHER                   -> Arithmetic2(SourceOp(op[1]), a[1][2], a[2][2])

\* What an operation leaves of its operands, topmost last: no result is a failure.
Results(op, a, tx) ==
    CASE op[1] = "push"         -> {<<op[2]>>}
      [] op[1] = "input_count"  -> {<<Num(Len(tx.inputs))>>}
      [] op[1] = "output_count" -> {<<Num(Len(tx.outputs))>>}
      [] op[1] = "verify"       -> IF Truthy(a[1]) THEN {<< >>} ELSE {}
      [] op[1] \in {"sha256", "blake2b"} -> {<<Digest(op[1], a[1])>>}
      [] op[1] = "equal"        -> {<<Truth(a[1] = a[2])>>}
      [] op[1] = "checksig"     -> CheckSig(a[1], a[2])
      [] OTHER -> IF \A i \in DOMAIN a : IsNum(a[i]) THEN NumberResults(op, a, tx) ELSE {}

\* Signatures are matched to keys in order, and a failed match is an error.
CheckMultisig(stack) ==
    LET n  == IF stack = << >> THEN Num(0) ELSE Last(stack)
        at == Len(stack) - 1 - n[2]                       \* where the threshold is
    IN  IF stack = << >> \/ ~IsNum(n) \/ at < 1 \/ ~IsNum(stack[at]) THEN {}
        ELSE LET k    == stack[at][2]
                 keys == SubSeq(stack, at + 1, at + n[2])
                 sigs == SubSeq(stack, at - k, at - 1)
                 rest == SubSeq(stack, 1, at - 1 - k)
                 ordered(f) == \A i, j \in 1 .. k : i < j => f[i] < f[j]
             IN  IF k \notin 0 .. n[2] \/ at - k < 1 THEN {}
                 ELSE IF \E f \in [1 .. k -> 1 .. n[2]] :
                            ordered(f) /\ \A i \in 1 .. k : sigs[i][1] = "sig" /\ keys[f[i]] = Key(sigs[i][2])
                      THEN {Append(rest, Truth(TRUE))} ELSE {}

After(stack, op, tx) ==
    LET kept == Len(stack) - Arity(op)
    IN  IF op[1] = "checkmultisig" THEN CheckMultisig(stack)
        ELSE IF kept < 0 THEN {}
        ELSE {SubSeq(stack, 1, kept) \o r : r \in Results(op, SubSeq(stack, kept + 1, Len(stack)), tx)}

RunFrom(script, witness, tx, i, at) ==
    IF i = 0 THEN {witness} ELSE UNION {After(s, script[i], tx) : s \in at[i - 1]}

Run(script, witness, tx) ==
    LET at[i \in 0 .. Len(script)] == RunFrom(script, witness, tx, i, at)
    IN  at[Len(script)]

\* A spend is accepted when exactly one value is left, and it is true.
Accepts(script, witness, tx) ==
    \E s \in Run(script, witness, tx) : Len(s) = 1 /\ Truthy(s[1])

\* When a node lets a transaction into a block: its lock time is past or turned off.
Final(tx, now) ==
    \/ tx.lockTime = 0
    \/ tx.sequence = MaxSequence
    \/ tx.lockTime < IF tx.lockTime < LockTimeThreshold THEN now.score ELSE now.time

=============================================================================
