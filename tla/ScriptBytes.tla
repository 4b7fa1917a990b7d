----------------------------- MODULE ScriptBytes -----------------------------
(***************************************************************************)
(* Byte by byte: how code generation puts numbers, data and opcodes into   *)
(* bytecode, and how verify_artifact takes it apart again.  Every byte is  *)
(* a number below ByteBase and may be an opcode, a length or data,         *)
(* depending on where a reader takes it to begin.                          *)
(*                                                                         *)
(* The layout of the opcodes follows from two numbers, 75 and 16 in the    *)
(* code: pushes of 1 to ShortMax bytes, the three pushes whose length      *)
(* follows in 1, 2 and 4 bytes, -1, one opcode unused, then the numbers    *)
(* from 1 to SmallMax.                                                     *)
(***************************************************************************)
EXTENDS Integers, Sequences

CONSTANTS
    ByteBase,       \* 256
    ShortMax,       \* 75
    SmallMax,       \* 16
    NumberMax,      \* i64::MAX, which takes eight bytes
    Known,          \* the opcodes after OP_16 that have a name
    Numbers,        \* numbers a contract may hold
    Data,           \* byte strings it may hold
    MaxItems        \* bound: items in one script

-----------------------------------------------------------------------------
(* Numbers as bytes.                                                       *)

\* What is left of a number as its bytes are taken off, the least significant first.
Remaining(value) ==
    LET left[k \in 0 .. 9] == IF k = 0 THEN value ELSE left[k - 1] \div ByteBase
    IN  left

\* It takes no more than count bytes.
FitsIn(value, count) == Remaining(value)[count] = 0

\* The first count bytes of a number, least significant first.
LittleEndian(value, count) == [k \in 1 .. count |-> Remaining(value)[k - 1] % ByteBase]

\* The number such bytes stand for.
Magnitude(bytes) ==
    LET ofLast[k \in 0 .. Len(bytes)] ==
            IF k = 0 THEN 0 ELSE bytes[Len(bytes) - k + 1] + ByteBase * ofLast[k - 1]
    IN  ofLast[Len(bytes)]

Trimmed(value) ==
    LittleEndian(value, CHOOSE n \in 0 .. 8 : FitsIn(value, n) /\ (n = 0 \/ ~FitsIn(value, n - 1)))

TopByte(bytes) == bytes[Len(bytes)]

\* A byte has at least sixteen values, an even number of them, and every opcode is one;
\* numbers are u64; the names are those of opcodes beyond the small numbers.
ASSUME ByteAssumption ==
    /\ ByteBase \in Nat /\ ByteBase >= 16 /\ ByteBase % 2 = 0
    /\ ShortMax \in Nat /\ ShortMax >= 1 /\ SmallMax \in Nat /\ SmallMax >= 1
    /\ ShortMax + SmallMax + 5 < ByteBase /\ SmallMax < ByteBase \div 2
    /\ NumberMax \in Nat /\ Numbers \subseteq Nat /\ \A v \in Numbers : FitsIn(v, 8)
    /\ Data \subseteq Seq(0 .. ByteBase - 1)
    /\ Known \subseteq ShortMax + SmallMax + 6 .. ByteBase - 1

VARIABLES
    items,      \* what was to be encoded: <<"number", v>>, <<"data", bytes>> or <<"op", byte>>
    bytecode,   \* what it became
    offset,     \* bytes read back
    asm,        \* items read back: what is pushed, and the opcodes
    verdict     \* "encoding", "reading", "valid", or an error

byteVars == <<items, bytecode, offset, asm, verdict>>

OP_FALSE == 0
OP_PUSHDATA1 == ShortMax + 1
OP_PUSHDATA2 == ShortMax + 2
OP_PUSHDATA4 == ShortMax + 3
OP_1NEGATE == ShortMax + 4
OP_1 == ShortMax + 6
OP_16 == OP_1 + SmallMax - 1

-----------------------------------------------------------------------------
(* Encoding.                                                               *)

\* Mutant: no byte is added for the sign.
ScriptNumber_Slip(value) == Trimmed(value)

ScriptNumber(value) ==
    LET bytes == Trimmed(value)
    IN  IF TopByte(bytes) >= ByteBase \div 2 THEN Append(bytes, 0) ELSE bytes

\* Mutant: one byte too many for a short push.
DataBytes_Slip(bytes) ==
    LET len == Len(bytes)
    IN  (CASE len <= ShortMax + 1                         -> <<len>>
           [] len > ShortMax + 1 /\ FitsIn(len, 1)          -> <<OP_PUSHDATA1>> \o LittleEndian(len, 1)
           [] ~FitsIn(len, 1)                               -> <<OP_PUSHDATA2>> \o LittleEndian(len, 2)) \o bytes

DataBytes(bytes) ==
    LET len == Len(bytes)
    IN  (CASE len <= ShortMax                             -> <<len>>
           [] len > ShortMax /\ FitsIn(len, 1)              -> <<OP_PUSHDATA1>> \o LittleEndian(len, 1)
           [] ~FitsIn(len, 1) /\ FitsIn(len, 2)               -> <<OP_PUSHDATA2>> \o LittleEndian(len, 2)
           [] ~FitsIn(len, 2)                               -> <<OP_PUSHDATA4>> \o LittleEndian(len, 4)) \o bytes

NumberBytes(value) ==
    CASE value = 0            -> <<OP_FALSE>>
      [] value \in 1 .. SmallMax -> <<OP_1 + value - 1>>
      [] value > SmallMax     -> DataBytes(ScriptNumber(value))

ItemBytes(item) ==
    CASE item[1] = "number" -> NumberBytes(item[2])
      [] item[1] = "data"   -> DataBytes(item[2])
      [] item[1] = "op"     -> <<item[2]>>

\* A number that is negative to an engine, or data whose length takes more than a u32.
TooLarge(item) ==
    \/ item[1] = "number" /\ item[2] > NumberMax
    \/ item[1] = "data" /\ ~FitsIn(Len(item[2]), 4)

\* One instruction, or the length, index or height that goes with it.
Emit(item) ==
    /\ verdict = "encoding" /\ Len(items) < MaxItems
    /\ IF TooLarge(item)
       THEN verdict' = "ValueTooLarge" /\ UNCHANGED <<items, bytecode>>
       ELSE /\ items' = Append(items, item)
            /\ bytecode' = bytecode \o ItemBytes(item)
            /\ UNCHANGED verdict
    /\ UNCHANGED <<offset, asm>>

Verify ==
    /\ verdict = "encoding"
    /\ verdict' = IF bytecode = << >> THEN "EmptyBytecode" ELSE "reading"
    /\ UNCHANGED <<items, bytecode, offset, asm>>

-----------------------------------------------------------------------------
(* Reading back.                                                           *)

ByteAt(k) == bytecode[offset + k]

Left == Len(bytecode) - offset

\* Bytes that hold the length of what the opcode pushes.
WidthAfter(opcode) ==
    CASE opcode = OP_PUSHDATA1 -> 1 [] opcode = OP_PUSHDATA2 -> 2 [] opcode = OP_PUSHDATA4 -> 4
      [] OTHER -> 0

PushesData(opcode) == opcode \in 1 .. ShortMax \/ WidthAfter(opcode) > 0

Fails(reason) == verdict' = reason /\ UNCHANGED <<offset, asm>>

Reads(item, count) ==
    /\ asm' = Append(asm, item)
    /\ offset' = offset + count
    /\ UNCHANGED verdict

ReadPush(opcode) ==
    LET width == WidthAfter(opcode)
        len   == IF width = 0 THEN opcode ELSE Magnitude(SubSeq(bytecode, offset + 2, offset + 1 + width))
    IN  IF Left < 1 + width THEN Fails("missing length")
        ELSE IF Left < 1 + width + len THEN Fails("push data exceeds bytecode length")
        ELSE Reads(<<"data", SubSeq(bytecode, offset + width + 2, offset + width + 1 + len)>>, 1 + width + len)

ReadItem ==
    /\ verdict = "reading" /\ Left > 0
    /\ LET opcode == ByteAt(1)
       IN  CASE opcode = OP_FALSE          -> Reads(<<"data", << >>>>, 1)
             [] PushesData(opcode)         -> ReadPush(opcode)
             [] opcode = OP_1NEGATE        -> Reads(<<"data", <<ByteBase \div 2 + 1>>>>, 1)
             [] opcode \in OP_1 .. OP_16   -> Reads(<<"data", <<opcode - OP_1 + 1>>>>, 1)
             [] opcode \in Known           -> Reads(<<"op", opcode>>, 1)
             [] OTHER                      -> Fails("unknown opcode")
    /\ UNCHANGED <<items, bytecode>>

Accept ==
    /\ verdict = "reading" /\ Left = 0
    /\ verdict' = "valid"
    /\ UNCHANGED <<items, bytecode, offset, asm>>

-----------------------------------------------------------------------------

BytesInit ==
    /\ items = << >> /\ bytecode = << >> /\ asm = << >>
    /\ offset = 0
    /\ verdict = "encoding"

BytesNext ==
    \/ \E v \in Numbers : Emit(<<"number", v>>)
    \/ \E d \in Data : Emit(<<"data", d>>)
    \/ \E op \in Known : Emit(<<"op", op>>)
    \/ Verify
    \/ ReadItem
    \/ Accept

BytesSpec == BytesInit /\ [][BytesNext]_byteVars

-----------------------------------------------------------------------------
(* Properties.                                                             *)

\* An engine takes the highest bit of a byte string for its sign.
IsNegative(bytes) == bytes # << >> /\ TopByte(bytes) >= ByteBase \div 2

\* No shorter string is the same number.
Minimal(bytes) ==
    \/ bytes = << >>
    \/ TopByte(bytes) % (ByteBase \div 2) # 0
    \/ Len(bytes) > 1 /\ bytes[Len(bytes) - 1] >= ByteBase \div 2

\* A number in a contract is the number the engine finds on its stack, never a
\* negative one, in a form it accepts: 0 and the small ones are opcodes, the rest
\* little endian with room for the sign, over every carry into a further byte.
NumbersAreKept ==
    \A k \in DOMAIN asm : items[k][1] = "number" =>
        /\ asm[k][1] = "data"
        /\ Magnitude(asm[k][2]) = items[k][2] /\ ~IsNegative(asm[k][2])
        /\ Minimal(asm[k][2])

\* verify_artifact accepts whatever code generation makes, if it is not empty, and
\* takes it apart where it was put together: no length, and no data however much it
\* looks like opcodes, moves the place where the next item begins.
ReadBack ==
    /\ verdict \in {"encoding", "ValueTooLarge", "EmptyBytecode", "reading", "valid"}
    /\ Len(asm) <= Len(items)
    /\ \A k \in DOMAIN asm : items[k][1] # "number" => asm[k] = items[k]
    /\ verdict = "valid" => Len(asm) = Len(items)

=============================================================================
