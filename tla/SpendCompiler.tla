--------------------------- MODULE SpendCompiler ---------------------------
(***************************************************************************)
(* From a checked contract to the bytes of a locking script: lowering to   *)
(* instructions, the gate that lets a target emit only what is grounded in *)
(* Kaspa's sources, and the encoding of an instruction as script           *)
(* operations.                                                             *)
(*                                                                         *)
(* An instruction is a tuple whose first element names it: <<"push", v>>   *)
(* pushes a value, <<"symbol", name>> stands for a value bound later, and  *)
(* the others are named as the source names them.  Where lowering reports  *)
(* an error, "unlowered" is emitted.                                       *)
(***************************************************************************)
EXTENDS SpendLanguage

Push(v)      == <<"push", v>>
Symbol(name) == <<"symbol", name>>
Unlowered    == <<"unlowered">>

Opcode(op) ==
    CASE op = "and" -> "booland"
      [] op = "or"  -> "boolor"
      [] op = "=="  -> "equal"
      [] op = "!="  -> "numnotequal"
      [] op = ">"   -> "greaterthan"
      [] op = ">="  -> "greaterthanorequal"
      [] op = "<"   -> "lessthan"
      [] op = "<="  -> "lessthanorequal"
      [] op = "+"   -> "add"
      [] op = "-"   -> "sub"
      [] op = "*"   -> "mul"
      [] op = "/"   -> "div"
      [] op = "%"   -> "mod"

IsLiteralIndex(args) == args # << >> /\ args[1].op = "int" /\ args[1].n <= U32Max

CoinReading(root, field) ==
    CASE root = "input"  /\ field = "value"  -> "input_value"
      [] root = "input"  /\ field = "script" -> "input_script"
      [] root = "output" /\ field = "value"  -> "output_value"
      [] root = "output" /\ field = "script" -> "output_script"

\* input(n).f and output(n).f.
LowerTransactionField(root, args, field) ==
    CASE ~IsLiteralIndex(args) -> Unlowered
      [] IsLiteralIndex(args) /\ field \in {"value", "script"} -> <<CoinReading(root, field), args[1].n>>
      [] IsLiteralIndex(args) /\ field = "covenant_id"         -> <<"covenant_id">>
      [] OTHER -> Unlowered

\* In what follows, lower is Lower, defined at the end.

LowerAll(es, lower) == Concat([i \in DOMAIN es |-> lower[es[i]]])

\* An argument that is not there leaves no instruction.
LowerNth(es, i, lower) == IF i \in DOMAIN es THEN lower[es[i]] ELSE << >>

\* Mutant: operands reach the stack in reverse order.
LowerBinary_Slip(e, lower) ==
    LET l == e.kids[1]  r == e.kids[2]
    IN  CASE IsLock(e) /\ r.op = "int" -> <<<<"check_lock", r.n>>>>
          [] IsLock(e) /\ r.op # "int" -> lower[r] \o <<<<"check_lock_from_stack">>>>
          [] OTHER                     -> lower[r] \o lower[l] \o <<<<Opcode(e.op)>>>>

\* Only block.height >= n and block.time >= n become lock times, for any n on the right.
LowerBinary(e, lower) ==
    LET l == e.kids[1]  r == e.kids[2]
    IN  CASE IsLock(e) /\ r.op = "int" -> <<<<"check_lock", r.n>>>>
          [] IsLock(e) /\ r.op # "int" -> lower[r] \o <<<<"check_lock_from_stack">>>>
          [] OTHER                     -> lower[l] \o lower[r] \o <<<<Opcode(e.op)>>>>

\* The threshold is pushed here; the number of keys is that of a literal list, or 0.
LowerMultisig(args, lower) ==
    IF ~IsLiteralIndex(args) THEN <<Unlowered>>
    ELSE LowerNth(args, 3, lower) \o <<Push(Num(args[1].n))>> \o LowerNth(args, 2, lower)
         \o <<<<"checkmultisig", IF Len(args) > 1 /\ args[2].op = "array" THEN Len(args[2].kids) ELSE 0>>>>

\* A continuation is the existence of its output: its name leaves no trace.
LowerContinuation(args) ==
    IF Len(args) < 2 \/ OutputIndex(args[2]) = {} THEN <<Unlowered>>
    ELSE <<<<"output_count">>, Push(Num(CHOOSE i \in OutputIndex(args[2]) : TRUE)), <<"greaterthan">>>>

LowerIndex(args) == IF IsLiteralIndex(args) THEN <<Push(Num(args[1].n))>> ELSE <<Unlowered>>

LowerCall(e, lower) ==
    LET args == Args(e)
        calls(fs) == \E f \in fs : IsCallOf(e, f)
    IN  CASE IsVerify(e) -> lower[Callee(e).kids[1]] \o LowerNth(args, 1, lower) \o <<<<"checksig">>>>
          [] calls({"input", "output"})  -> LowerIndex(args)
          [] calls({"continuation"})     -> LowerContinuation(args)
          [] calls({"multisig"})         -> LowerMultisig(args, lower)
          [] calls({"zk_verify"})        -> LowerNth(args, 1, lower) \o <<<<"zk_verify">>>>
          [] calls(HashFunctions)        -> LowerNth(args, 1, lower) \o <<<<Callee(e).name>>>>
          [] OTHER                       -> lower[Callee(e)] \o LowerAll(args, lower)

LowerField(e, lower) ==
    LET object == e.kids[1]
    IN  CASE IsCallOf(object, "input")  -> <<LowerTransactionField("input", Args(object), e.name)>>
          [] IsCallOf(object, "output") -> <<LowerTransactionField("output", Args(object), e.name)>>
          [] IsPath(object, "covenant_id") /\ e.name = "depth" -> <<<<"covenant_depth">>>>
          [] IsPath(object, "sequencing")                      -> <<<<"sequencing_commitment">>>>
          [] OTHER                      -> lower[object] \o <<Symbol(e.name)>>

LowerFrom(e, lower) ==
    CASE e.op = "ident" -> IF e.name \in {"input_count", "output_count"} THEN <<<<e.name>>>> ELSE <<Symbol(e.name)>>
      [] e.op \in {"int", "bool"} -> <<Push(Num(e.n))>>
      [] e.op = "string"          -> <<Push(Bytes(e.name))>>
      [] e.op = "array"           -> LowerAll(e.kids, lower)
      [] e.op = "not"             -> lower[e.kids[1]] \o <<<<"not">>>>
      [] e.op = "negate"          -> <<Unlowered>>
      [] e.op = "call"            -> LowerCall(e, lower)
      [] e.op = "field"           -> LowerField(e, lower)
      [] IsBinary(e)              -> LowerBinary(e, lower)

Lower[e \in Exprs] == LowerFrom(e, Lower)

\* A named value is computed and its name pushed after it; nothing binds the name.
LowerStatement(s) ==
    Lower[s.expr] \o CASE s.kind = "let"     -> <<Symbol(s.name)>>
                       [] s.kind = "require" -> <<<<"verify">>>>
                       [] s.kind = "return"  -> << >>

LowerSpend(spend) == Concat([i \in DOMAIN spend.body |-> LowerStatement(spend.body[i])])

-----------------------------------------------------------------------------
(* Grounding: what each target may emit.                                   *)

Targets == {"verified-tn12", "tn10-toccata", "toccata-preview", "future-mainnet"}

AllowsGatedWarnings(target) == target \in {"tn10-toccata", "toccata-preview"}

\* Mutant: operations the engine has only with covenants are let through.
InstructionStatus_Slip(ins) ==
    IF ins[1] \in {"hash160", "covenant_id", "covenant_depth", "zk_verify", "sequencing_commitment"}
    THEN "unsupported" ELSE "verified"

InstructionStatus(ins) ==
    IF ins[1] \in {"mul", "div", "mod", "hash160", "covenant_id", "covenant_depth",
                   "zk_verify", "sequencing_commitment"}
    THEN "unsupported" ELSE "verified"

KipStatus(kip) == IF kip \in {10, 15} THEN "verified" ELSE "gated"

Admits(target, status) == status = "verified" \/ (status = "gated" /\ AllowsGatedWarnings(target))

\* Warnings a compilation collects: the gated records it was let through with.
WarningsOf(contract) == {kip \in KipRequirements(contract) : KipStatus(kip) = "gated"}

-----------------------------------------------------------------------------
(* Encoding.  A script operation is <<"push", v>> or <<opcode>>.           *)

EncodedNumber(n) == <<Push(Num(n))>>

Encode(ins) ==
    CASE ins[1] = "push"          -> <<ins>>
      [] ins[1] = "symbol"        -> <<Push(Bytes(ins[2]))>>
      [] ins[1] \in {"input_value", "input_script", "output_value", "output_script"} ->
                                     EncodedNumber(ins[2]) \o <<<<ins[1]>>>>
      [] ins[1] = "checkmultisig" -> EncodedNumber(ins[2]) \o <<<<"checkmultisig">>>>
      [] ins[1] = "check_lock"    -> EncodedNumber(ins[2]) \o <<<<"checklocktimeverify">>, Push(Truth(TRUE))>>
      [] ins[1] = "check_lock_from_stack" -> <<<<"checklocktimeverify">>, Push(Truth(TRUE))>>
      [] OTHER                    -> <<ins>>

EncodeAll(code) == Concat([i \in DOMAIN code |-> Encode(code[i])])

\* Script numbers are signed: a larger literal is refused.
FitsScriptNumbers(code) ==
    \A op \in ToSet(EncodeAll(code)) : op[1] = "push" /\ IsNum(op[2]) => op[2][2] <= I64Max

\* A spend's own script: its instructions and a true value left at the end.
CompileSpendScript(code) == EncodeAll(code) \o <<Push(Truth(TRUE))>>

Lowers(contract) ==
    \A s \in ToSet(contract.spends) : Unlowered \notin ToSet(LowerSpend(s))

\* Whether a target compiles a contract that lowers.
Compiles(contract, target) ==
    /\ \A kip \in KipRequirements(contract) : Admits(target, KipStatus(kip))
    /\ \A s \in ToSet(contract.spends) :
            /\ \A ins \in ToSet(LowerSpend(s)) : Admits(target, InstructionStatus(ins))
            /\ FitsScriptNumbers(LowerSpend(s))

=============================================================================
